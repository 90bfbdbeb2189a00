-------------------------- MODULE ProcessBhdProofs --------------------------
(* Proofs about ProcessBhd, for every archive and dictionary, every way in   *)
(* which the header may be read, and integers of any width.                  *)
EXTENDS ProcessBhd, FiniteSetTheorems, SequenceTheorems, WellFoundedInduction, TLAPS

(* A sequence of whatever it holds.                                          *)
IsSeq(s) == Len(s) \in Nat /\ s = [n \in 1..Len(s) |-> s[n]]

-----------------------------------------------------------------------------
(* Induction, over sets of naturals.                                         *)
LEMMA LowestExists ==
  ASSUME NEW S \in SUBSET Nat, S # {}
  PROVE  \E l \in S : \A j \in S : l <= j
<1> DEFINE R == { p \in Nat \X Nat : p[1] < p[2] }
<1>1. IsWellFoundedOn(R, Nat)
  <2>1. R = OpToRel(<, Nat)
    BY DEF OpToRel
  <2>2. IsWellFoundedOn(OpToRel(<, Nat), Nat)
    BY NatLessThanWellFounded
  <2> QED
    BY <2>1, <2>2
<1>2. PICK l \in S : \A j \in S : ~ (<<j, l>> \in R)
  <2> HIDE DEF R
  <2> QED
    BY <1>1, WFMin, Zenon
<1>3. ASSUME NEW j \in S PROVE l <= j
  <2>1. l \in Nat /\ j \in Nat /\ (j < l => <<j, l>> \in R)
    OBVIOUS
  <2>2. ~ (j < l)
    BY <2>1, <1>2
  <2> QED
    BY <2>1, <2>2
<1> QED
  BY <1>3

LEMMA UpTo ==
  ASSUME NEW S, NEW n \in Nat, 0 \in S, \A l \in 0..n - 1 : l \in S => l + 1 \in S
  PROVE  0..n \subseteq S
<1> DEFINE Out == { l \in 0..n : l \notin S }
<1> SUFFICES ASSUME Out # {} PROVE FALSE
  OBVIOUS
<1>1. Out \in SUBSET Nat
  OBVIOUS
<1>2. PICK m \in Out : \A j \in Out : m <= j
  <2> HIDE DEF Out
  <2> QED
    BY <1>1, LowestExists
<1>3. m \in 0..n /\ m # 0 /\ m \notin S
  BY <1>2
<1>4. m - 1 \in 0..n - 1 /\ m - 1 \notin Out /\ (m - 1) + 1 = m
  BY <1>2, <1>3
<1>5. m - 1 \in S
  BY <1>4
<1> QED
  BY <1>3, <1>4, <1>5

(* A function whose value at a place is made of its value at the place       *)
(* before exists.                                                            *)
Recurses(f, d, b, step) ==
  f = [kk \in 0..d |-> IF kk = 0 THEN b ELSE step[kk][f[kk - 1]]]

LEMMA RecursionFromBefore ==
  ASSUME NEW d \in Nat, NEW V, NEW b \in V, NEW step \in [1..d -> [V -> V]]
  PROVE  \E f : Recurses(f, d, b, step)
<1> DEFINE Done == { m \in 0..d :
                       \E f \in [0..d -> V] :
                         f[0] = b /\ \A kk \in 1..m : f[kk] = step[kk][f[kk - 1]] }
<1>1. 0 \in Done
  <2> DEFINE f == [kk \in 0..d |-> b]
  <2>1. f \in [0..d -> V] /\ f[0] = b
    OBVIOUS
  <2> HIDE DEF f
  <2>2. \A kk \in 1..0 : f[kk] = step[kk][f[kk - 1]]
    OBVIOUS
  <2> QED
    BY <2>1, <2>2
<1>2. ASSUME NEW m \in 0..d - 1, m \in Done PROVE m + 1 \in Done
  <2>1. PICK f \in [0..d -> V] : f[0] = b /\ \A kk \in 1..m : f[kk] = step[kk][f[kk - 1]]
    BY <1>2
  <2> DEFINE v == step[m + 1][f[m]]
             g == [kk \in 0..d |-> IF kk = m + 1 THEN v ELSE f[kk]]
  <2>2. v \in V
    <3>1. m + 1 \in 1..d /\ m \in 0..d
      OBVIOUS
    <3> QED
      BY <3>1
  <2> HIDE DEF v
  <2>3. g \in [0..d -> V] /\ g[0] = b
    BY <2>1, <2>2
  <2>4. ASSUME NEW kk \in 1..m + 1 PROVE g[kk] = step[kk][g[kk - 1]]
    <3>1. g[kk - 1] = f[kk - 1]
      OBVIOUS
    <3>2. CASE kk = m + 1
      <4>1. g[kk] = v /\ kk - 1 = m
        BY <3>2
      <4> HIDE DEF g
      <4> QED
        BY <3>1, <3>2, <4>1 DEF v
    <3>3. CASE kk # m + 1
      <4>1. g[kk] = f[kk] /\ kk \in 1..m
        BY <3>3
      <4> HIDE DEF g
      <4> QED
        BY <2>1, <3>1, <4>1
    <3> QED
      BY <3>2, <3>3
  <2> HIDE DEF g
  <2>5. m + 1 \in 0..d
    OBVIOUS
  <2> QED
    BY <2>3, <2>4, <2>5
<1> HIDE DEF Done
<1>3. d \in Done
  <2>1. d \in 0..d
    OBVIOUS
  <2> QED
    BY <1>1, <1>2, <2>1, UpTo
<1>4. PICK f \in [0..d -> V] : f[0] = b /\ \A kk \in 1..d : f[kk] = step[kk][f[kk - 1]]
  BY <1>3 DEF Done
<1>5. \A kk \in 0..d : f[kk] = IF kk = 0 THEN b ELSE step[kk][f[kk - 1]]
  BY <1>4
<1>6. Recurses(f, d, b, step)
  BY <1>4, <1>5 DEF Recurses
<1> QED
  BY <1>6

(* What is defined by such a recursion has its values.                       *)
RunsIn(f, d, V, b, step) ==
  /\ f \in [0..d -> V] /\ f[0] = b
  /\ \A kk \in 1..d : f[kk] = step[kk][f[kk - 1]]

LEMMA RecursionIs ==
  ASSUME NEW d \in Nat, NEW V, NEW b \in V, NEW step \in [1..d -> [V -> V]],
         NEW f, Recurses(f, d, b, step)
  PROVE  RunsIn(f, d, V, b, step)
<1>1. f[0] = b /\ \A kk \in 1..d : f[kk] = step[kk][f[kk - 1]]
  BY DEF Recurses
<1> DEFINE In == { kk \in 0..d : f[kk] \in V }
<1>2. 0 \in In
  BY <1>1
<1>3. ASSUME NEW kk \in 0..d - 1, kk \in In PROVE kk + 1 \in In
  <2>1. kk + 1 \in 1..d /\ kk + 1 \in 0..d /\ (kk + 1) - 1 = kk
    OBVIOUS
  <2>2. f[kk] \in V /\ f[kk + 1] = step[kk + 1][f[kk]]
    BY <1>1, <1>3, <2>1
  <2> QED
    BY <2>1, <2>2
<1> HIDE DEF In
<1>4. 0..d \subseteq In
  BY <1>2, <1>3, UpTo
<1>5. \A kk \in 0..d : f[kk] \in V
  BY <1>4 DEF In
<1>6. f = [kk \in 0..d |-> f[kk]]
  BY DEF Recurses
<1> QED
  BY <1>1, <1>5, <1>6 DEF RunsIn

-----------------------------------------------------------------------------
(* Arithmetic that wraps at m.                                               *)
Same(m, a, b) == \E q \in Int : a = b + m * q

LEMMA SameMod ==
  ASSUME NEW m \in Nat \ {0}, NEW a \in Int
  PROVE  a % m \in 0..m - 1 /\ Same(m, a % m, a) /\ Same(m, a, a % m)
<1> DEFINE q == a \div m
<1>1. q \in Int /\ a % m \in 0..m - 1 /\ a = m * q + (a % m)
  OBVIOUS
<1>2. -q \in Int /\ m * (-q) = -(m * q) /\ m * q \in Int
  BY <1>1
<1> HIDE DEF q
<1> DEFINE r == a % m
<1>3. r = a + m * (-q) /\ a = r + m * q
  <2>1. r \in Int /\ a = m * q + r
    BY <1>1
  <2> HIDE DEF r
  <2> QED
    BY <1>2, <2>1
<1> QED
  BY <1>1, <1>2, <1>3 DEF Same

LEMMA SameIs ==
  ASSUME NEW m \in Nat \ {0}, NEW a \in Int, NEW b \in Int, Same(m, a, b)
  PROVE  a % m = b % m
<1>1. PICK q \in Int : a = b + m * q
  BY DEF Same
<1> DEFINE r == a \div m
           s == b \div m
           x == a % m
           y == b % m
<1>2. r \in Int /\ s \in Int /\ x \in 0..m - 1 /\ y \in 0..m - 1
      /\ a = m * r + x /\ b = m * s + y
  OBVIOUS
<1> HIDE DEF r, s, x, y
<1> DEFINE d == r - s - q
<1>3. d \in Int /\ m * d = y - x
  <2>1. m * r + x = m * s + y + m * q
    BY <1>1, <1>2
  <2>2. m * d = m * r - m * s - m * q
    BY <1>2
  <2> QED
    BY <1>2, <2>1, <2>2
<1> HIDE DEF d
<1>4. d = 0
  <2>1. CASE d >= 1
    <3>1. m * d >= m
      BY <1>3, <2>1
    <3> QED
      BY <1>2, <1>3, <3>1
  <2>2. CASE d <= -1
    <3>1. m * d <= -m
      BY <1>3, <2>2
    <3> QED
      BY <1>2, <1>3, <3>1
  <2> QED
    BY <1>3, <2>1, <2>2
<1>5. x = y
  BY <1>2, <1>3, <1>4
<1> QED
  BY <1>5 DEF x, y

LEMMA SameTrans ==
  ASSUME NEW m \in Nat, NEW a \in Int, NEW b \in Int, NEW c \in Int,
         Same(m, a, b), Same(m, b, c)
  PROVE  Same(m, a, c)
<1>1. PICK q \in Int : a = b + m * q
  BY DEF Same
<1>2. PICK r \in Int : b = c + m * r
  BY DEF Same
<1>3. q + r \in Int /\ m * (q + r) = m * q + m * r
  OBVIOUS
<1>4. a = c + m * (q + r)
  BY <1>1, <1>2, <1>3
<1> QED
  BY <1>3, <1>4 DEF Same

LEMMA SameSym ==
  ASSUME NEW m \in Nat, NEW a \in Int, NEW b \in Int, Same(m, a, b)
  PROVE  Same(m, b, a)
<1>1. PICK q \in Int : a = b + m * q
  BY DEF Same
<1>2. -q \in Int /\ m * (-q) = -(m * q)
  OBVIOUS
<1>3. b = a + m * (-q)
  BY <1>1, <1>2
<1> QED
  BY <1>2, <1>3 DEF Same

(* One step of multiply and add.                                             *)
LEMMA SameMulAdd ==
  ASSUME NEW m \in Nat, NEW a \in Int, NEW b \in Int, NEW p \in Int, NEW c \in Int,
         NEW d \in Int, Same(m, a, b), Same(m, c, d)
  PROVE  Same(m, a * p + c, b * p + d)
<1>1. PICK q \in Int : a = b + m * q
  BY DEF Same
<1>2. PICK r \in Int : c = d + m * r
  BY DEF Same
<1>3. q * p + r \in Int
  OBVIOUS
<1>4. a * p + c = (b * p + d) + m * (q * p + r)
  <2>1. a * p = b * p + m * (q * p)
    BY <1>1
  <2>2. m * (q * p + r) = m * (q * p) + m * r
    OBVIOUS
  <2> QED
    BY <1>2, <2>1, <2>2
<1> QED
  BY <1>3, <1>4 DEF Same

LEMMA SameMul ==
  ASSUME NEW m \in Nat, NEW a \in Int, NEW b \in Int, NEW p \in Int, Same(m, a, b)
  PROVE  Same(m, a * p, b * p)
<1>1. PICK q \in Int : a = b + m * q
  BY DEF Same
<1>2. q * p \in Int /\ a * p = b * p + m * (q * p)
  BY <1>1
<1> QED
  BY <1>2 DEF Same

LEMMA ModIsNat ==
  ASSUME NEW m \in Nat \ {0}, NEW a \in Int
  PROVE  a % m \in Nat
OBVIOUS

-----------------------------------------------------------------------------
(* The hash of a path, four bytes at a time or one at a time.                *)
IsHashType(T) == T.PRIME \in Nat /\ T.M \in Nat \ {0}

LEMMA NormalByte ==
  ASSUME NEW c \in Nat
  PROVE  normalize(c) \in Nat
BY DEF normalize, Slash, Backslash

LEMMA StepIsNat ==
  ASSUME NEW T, IsHashType(T), NEW h \in Nat, NEW c \in Nat
  PROVE  HashStep(T, h, c) \in Nat
<1> DEFINE x == h * T.PRIME + normalize(c)
<1>1. T.PRIME \in Nat /\ T.M \in Nat \ {0}
  BY DEF IsHashType
<1>2. x \in Int
  <2> DEFINE y == normalize(c)
             p == T.PRIME
  <2>1. y \in Nat /\ p \in Nat
    BY <1>1, NormalByte
  <2> HIDE DEF y, p
  <2>2. h * p + y \in Int
    BY <2>1
  <2> QED
    BY <2>2 DEF y, p
<1> HIDE DEF x
<1>3. x % T.M \in 0..T.M - 1
  BY <1>1, <1>2, SameMod
<1>4. x % T.M \in Nat
  BY <1>1, <1>3
<1> QED
  BY <1>4 DEF HashStep, x

(* The hashes of the first bytes, one after another.                         *)
Hashes(T, init, s, f) ==
  /\ f \in [0..Len(s) -> Nat] /\ f[0] = init
  /\ \A n \in 1..Len(s) : f[n] = HashStep(T, f[n - 1], s[n])

LEMMA HashIs ==
  ASSUME NEW T, IsHashType(T), NEW init \in Nat, NEW s \in Seq(Nat)
  PROVE  \E f : Hashes(T, init, s, f) /\ hash_bytes(T, init, s) = f[Len(s)]
<1> DEFINE d == Len(s)
           V == Nat
           base == init
           Add(v, n) == HashStep(T, v, s[n])
           step == [n \in 1..d |-> [v \in V |-> Add(v, n)]]
           Body(f) == [n \in 0..d |-> IF n = 0 THEN base ELSE Add(f[n - 1], n)]
           g == CHOOSE f : f = Body(f)
<1>2. hash_bytes(T, init, s) = g[d]
  BY DEF hash_bytes
<1>3. d \in Nat /\ base \in V
  OBVIOUS
<1>4. \A v \in V : \A n \in 1..d : Add(v, n) \in V
  <2>1. ASSUME NEW v \in Nat, NEW n \in 1..Len(s) PROVE HashStep(T, v, s[n]) \in Nat
    <3>1. s[n] \in Nat
      OBVIOUS
    <3> QED
      BY <3>1, StepIsNat
  <2> QED
    BY <2>1
<1> HIDE DEF d, V, Add, base
<1>5. step \in [1..d -> [V -> V]]
  BY <1>4
<1>6. PICK f : Recurses(f, d, base, step)
  <2> HIDE DEF step
  <2> QED
    BY <1>3, <1>5, RecursionFromBefore
<1>7. RunsIn(f, d, V, base, step)
  <2> HIDE DEF step
  <2> QED
    BY <1>3, <1>5, <1>6, RecursionIs
<1>8. f = Body(f)
  <2>1. \A n \in 0..d : n # 0 => n \in 1..d /\ n - 1 \in 0..d
    BY <1>3
  <2>2. ASSUME NEW n \in 0..d PROVE f[n] = IF n = 0 THEN base ELSE Add(f[n - 1], n)
    BY <1>7, <2>1 DEF RunsIn
  <2>3. f = [n \in 0..d |-> f[n]]
    BY <1>7 DEF RunsIn
  <2> QED
    BY <2>2, <2>3
<1>9. g = Body(g)
  BY <1>8
<1> HIDE DEF g
<1>10. DOMAIN g = 0..d /\ g[0] = base /\ \A n \in 1..d : g[n] = Add(g[n - 1], n)
  <2>1. 0 \in 0..d /\ \A n \in 1..d : n \in 0..d /\ n # 0
    BY <1>3
  <2>2. g = [n \in 0..d |-> IF n = 0 THEN base ELSE Add(g[n - 1], n)]
    BY <1>9
  <2> QED
    BY <2>1, <2>2
<1> DEFINE In == { n \in 0..d : g[n] \in V }
<1>11. 0 \in In
  BY <1>3, <1>10
<1>12. ASSUME NEW n \in 0..d - 1, n \in In PROVE n + 1 \in In
  <2>1. n + 1 \in 1..d /\ n + 1 \in 0..d /\ (n + 1) - 1 = n
    BY <1>3
  <2>2. g[n] \in V /\ g[n + 1] = Add(g[n], n + 1)
    BY <1>10, <1>12, <2>1
  <2> QED
    BY <1>4, <2>1, <2>2
<1> HIDE DEF In
<1>13. \A n \in 0..d : g[n] \in V
  <2>1. 0..d \subseteq In
    BY <1>3, <1>11, <1>12, UpTo
  <2> QED
    BY <2>1 DEF In
<1>14. g \in [0..d -> V]
  <2>1. g = [n \in 0..d |-> g[n]]
    BY <1>9
  <2> QED
    BY <1>13, <2>1
<1> QED
  BY <1>2, <1>10, <1>14 DEF Hashes, d, V, base, Add

(* Whatever runs so is the hash.                                             *)
LEMMA HashesAgree ==
  ASSUME NEW T, IsHashType(T), NEW init \in Nat, NEW s \in Seq(Nat),
         NEW f, Hashes(T, init, s, f)
  PROVE  hash_bytes(T, init, s) = f[Len(s)]
<1> DEFINE d == Len(s)
<1>1. PICK g : Hashes(T, init, s, g) /\ hash_bytes(T, init, s) = g[d]
  BY HashIs
<1> DEFINE Eq == { n \in 0..d : f[n] = g[n] }
<1>2. d \in Nat
  OBVIOUS
<1>3. 0 \in Eq
  BY <1>1, <1>2 DEF Hashes
<1>4. ASSUME NEW n \in 0..d - 1, n \in Eq PROVE n + 1 \in Eq
  <2>1. n + 1 \in 1..d /\ n + 1 \in 0..d /\ (n + 1) - 1 = n
    BY <1>2
  <2>2. f[n + 1] = HashStep(T, f[n], s[n + 1]) /\ g[n + 1] = HashStep(T, g[n], s[n + 1])
    BY <1>1, <2>1 DEF Hashes
  <2> QED
    BY <1>4, <2>1, <2>2
<1> HIDE DEF Eq
<1>5. d \in Eq
  <2>1. d \in 0..d
    BY <1>2
  <2> HIDE DEF d
  <2> QED
    BY <1>2, <1>3, <1>4, <2>1, UpTo
<1> QED
  BY <1>1, <1>5 DEF Eq

(* The hash of the bytes behind goes on from that of those before.           *)
LEMMA HashGoesOn ==
  ASSUME NEW T, IsHashType(T), NEW init \in Nat, NEW s \in Seq(Nat), NEW t \in Seq(Nat)
  PROVE  /\ hash_bytes(T, init, s) \in Nat
         /\ hash_bytes(T, init, s \o t) = hash_bytes(T, hash_bytes(T, init, s), t)
<1> DEFINE L == Len(s)
           K == Len(t)
           u == s \o t
           h == hash_bytes(T, init, s)
<1>1. /\ L \in Nat /\ K \in Nat /\ u \in Seq(Nat) /\ Len(u) = L + K
      /\ \A n \in 1..L : u[n] = s[n]
      /\ \A n \in 1..K : u[L + n] = t[n]
  OBVIOUS
<1>2. PICK f : Hashes(T, init, s, f) /\ h = f[L]
  BY HashIs
<1>3. h \in Nat
  <2>1. L \in 0..L /\ f \in [0..L -> Nat]
    BY <1>1, <1>2 DEF Hashes
  <2> QED
    BY <1>2, <2>1
<1>4. PICK g : Hashes(T, h, t, g) /\ hash_bytes(T, h, t) = g[K]
  BY <1>3, HashIs
<1> HIDE DEF L, K, u, h
<1>5. /\ f \in [0..L -> Nat] /\ f[0] = init
      /\ \A n \in 1..L : f[n] = HashStep(T, f[n - 1], s[n])
      /\ g \in [0..K -> Nat] /\ g[0] = h
      /\ \A n \in 1..K : g[n] = HashStep(T, g[n - 1], t[n])
  BY <1>2, <1>4 DEF Hashes, L, K
<1> DEFINE e == [n \in 0..(L + K) |-> IF n <= L THEN f[n] ELSE g[n - L]]
<1>6. ASSUME NEW n \in 0..(L + K)
      PROVE  /\ n <= L => n \in 0..L /\ e[n] = f[n]
             /\ n >= L => n - L \in 0..K /\ e[n] = g[n - L]
             /\ e[n] \in Nat
  <2>1. n <= L => n \in 0..L /\ e[n] = f[n]
    BY <1>1
  <2>2. n >= L => n - L \in 0..K /\ e[n] = g[n - L]
    <3>1. CASE n = L
      <4>1. n - L = 0 /\ 0 \in 0..K
        BY <1>1, <3>1
      <4> QED
        BY <1>1, <1>2, <1>5, <3>1, <4>1
    <3>2. CASE n # L
      BY <1>1, <3>2
    <3> QED
      BY <3>1, <3>2
  <2> HIDE DEF e
  <2>3. n <= L \/ n >= L
    BY <1>1
  <2> QED
    BY <1>5, <2>1, <2>2, <2>3
<1>7. e = [n \in 0..(L + K) |-> e[n]]
  OBVIOUS
<1> HIDE DEF e
<1>8. ASSUME NEW n \in 1..(L + K) PROVE e[n] = HashStep(T, e[n - 1], u[n])
  <2>1. CASE n <= L
    <3>1. n \in 1..L /\ n \in 0..(L + K) /\ n - 1 \in 0..(L + K) /\ n - 1 <= L
      BY <1>1, <2>1
    <3> QED
      BY <1>1, <1>5, <1>6, <2>1, <3>1
  <2>2. CASE n > L
    <3>1. /\ n - L \in 1..K /\ n \in 0..(L + K) /\ n - 1 \in 0..(L + K) /\ n - 1 >= L
          /\ n >= L /\ (n - 1) - L = (n - L) - 1 /\ L + (n - L) = n
      BY <1>1, <2>2
    <3>2. e[n] = g[n - L] /\ e[n - 1] = g[(n - L) - 1]
      BY <1>6, <3>1
    <3>3. u[n] = t[n - L] /\ g[n - L] = HashStep(T, g[(n - L) - 1], t[n - L])
      BY <1>1, <1>5, <3>1
    <3> QED
      BY <3>2, <3>3
  <2> QED
    BY <1>1, <2>1, <2>2
<1>9. Hashes(T, init, u, e)
  <2>1. 0 \in 0..(L + K) /\ 0 <= L /\ e[0] = init
    BY <1>1, <1>5, <1>6
  <2>2. e \in [0..(L + K) -> Nat]
    BY <1>6, <1>7
  <2> QED
    BY <1>1, <1>8, <2>1, <2>2 DEF Hashes
<1>10. hash_bytes(T, init, u) = e[L + K]
  <2>1. u \in Seq(Nat) /\ Len(u) = L + K
    BY <1>1
  <2>2. hash_bytes(T, init, u) = e[Len(u)]
    BY <1>9, <2>1, HashesAgree
  <2> QED
    BY <2>1, <2>2
<1>11. e[L + K] = g[K]
  <2>1. L + K \in 0..(L + K) /\ L + K >= L /\ (L + K) - L = K
    BY <1>1
  <2> QED
    BY <1>6, <2>1
<1> QED
  BY <1>3, <1>4, <1>10, <1>11 DEF u, h

LEMMA SeqAt ==
  ASSUME NEW S, NEW s \in Seq(S), NEW n \in 1..Len(s)
  PROVE  s[n] \in S
OBVIOUS

(* The powers of the prime, up to what wraps.                                *)
Power(p, n) == CASE n = 0 -> 1 [] n = 1 -> p [] n = 2 -> p * p
                 [] n = 3 -> p * p * p [] n = 4 -> p * p * p * p

LEMMA PowersRun ==
  ASSUME NEW T, IsHashType(T)
  PROVE  /\ POWERS(T) \in [0..4 -> Nat] /\ POWERS(T)[0] = 1 % T.M
         /\ \A n \in 1..4 : POWERS(T)[n] = (T.PRIME * POWERS(T)[n - 1]) % T.M
<1> DEFINE d == 4
           V == Nat
           base == 1 % T.M
           Add(v, n) == (T.PRIME * v) % T.M
           step == [n \in 1..d |-> [v \in V |-> Add(v, n)]]
           Body(f) == [n \in 0..d |-> IF n = 0 THEN base ELSE Add(f[n - 1], n)]
           g == CHOOSE f : f = Body(f)
<1>1. T.PRIME \in Nat /\ T.M \in Nat \ {0}
  BY DEF IsHashType
<1>2. POWERS(T) = g
  BY DEF POWERS, N
<1>3. d \in Nat /\ base \in V
  <2> DEFINE m == T.M
  <2>1. m \in Nat \ {0}
    BY <1>1
  <2> HIDE DEF m
  <2>2. 1 % m \in Nat
    BY <2>1
  <2> QED
    BY <2>2 DEF m
<1>4. \A v \in V : \A n \in 1..d : Add(v, n) \in V
  <2>1. ASSUME NEW v \in Nat PROVE (T.PRIME * v) % T.M \in Nat
    <3>1. T.PRIME * v \in Int
      BY <1>1
    <3>2. (T.PRIME * v) % T.M \in 0..T.M - 1
      BY <1>1, <3>1, SameMod
    <3> QED
      BY <1>1, <3>2
  <2> QED
    BY <2>1
<1> HIDE DEF d, V, Add, base
<1>5. step \in [1..d -> [V -> V]]
  BY <1>4
<1>6. PICK f : Recurses(f, d, base, step)
  <2> HIDE DEF step
  <2> QED
    BY <1>3, <1>5, RecursionFromBefore
<1>7. RunsIn(f, d, V, base, step)
  <2> HIDE DEF step
  <2> QED
    BY <1>3, <1>5, <1>6, RecursionIs
<1>8. f = Body(f)
  <2>1. \A n \in 0..d : n # 0 => n \in 1..d /\ n - 1 \in 0..d
    BY <1>3
  <2>2. ASSUME NEW n \in 0..d PROVE f[n] = IF n = 0 THEN base ELSE Add(f[n - 1], n)
    BY <1>7, <2>1 DEF RunsIn
  <2>3. f = [n \in 0..d |-> f[n]]
    BY <1>7 DEF RunsIn
  <2> QED
    BY <2>2, <2>3
<1>9. g = Body(g)
  BY <1>8
<1> HIDE DEF g
<1>10. DOMAIN g = 0..d /\ g[0] = base /\ \A n \in 1..d : g[n] = Add(g[n - 1], n)
  <2>1. 0 \in 0..d /\ \A n \in 1..d : n \in 0..d /\ n # 0
    BY <1>3
  <2>2. g = [n \in 0..d |-> IF n = 0 THEN base ELSE Add(g[n - 1], n)]
    BY <1>9
  <2> QED
    BY <2>1, <2>2
<1> DEFINE In == { n \in 0..d : g[n] \in V }
<1>11. 0 \in In
  BY <1>3, <1>10
<1>12. ASSUME NEW n \in 0..d - 1, n \in In PROVE n + 1 \in In
  <2>1. n + 1 \in 1..d /\ n + 1 \in 0..d /\ (n + 1) - 1 = n
    BY <1>3
  <2>2. g[n] \in V /\ g[n + 1] = Add(g[n], n + 1)
    BY <1>10, <1>12, <2>1
  <2> QED
    BY <1>4, <2>1, <2>2
<1> HIDE DEF In
<1>13. \A n \in 0..d : g[n] \in V
  <2>1. 0..d \subseteq In
    BY <1>3, <1>11, <1>12, UpTo
  <2> QED
    BY <2>1 DEF In
<1>14. g \in [0..d -> V]
  <2>1. g = [n \in 0..d |-> g[n]]
    BY <1>9
  <2> QED
    BY <1>13, <2>1
<1> QED
  BY <1>2, <1>10, <1>14 DEF d, V, base, Add

LEMMA PowerIsNat ==
  ASSUME NEW p \in Nat
  PROVE  \A n \in 0..4 : Power(p, n) \in Nat
BY DEF Power

LEMMA PowersAre ==
  ASSUME NEW T, IsHashType(T)
  PROVE  \A n \in 0..4 : POWERS(T)[n] \in Nat /\ Same(T.M, POWERS(T)[n], Power(T.PRIME, n))
<1> DEFINE p == T.PRIME
           m == T.M
           P == POWERS(T)
<1>1. p \in Nat /\ m \in Nat \ {0}
  BY DEF IsHashType
<1>2. P \in [0..4 -> Nat] /\ P[0] = 1 % m /\ \A n \in 1..4 : P[n] = (p * P[n - 1]) % m
  BY PowersRun
<1> HIDE DEF p, m, P
<1>3. ASSUME NEW n \in 0..3, NEW b \in Nat, Same(m, P[n], b) PROVE Same(m, P[n + 1], b * p)
  <2>1. n + 1 \in 1..4 /\ (n + 1) - 1 = n /\ n \in 0..4
    OBVIOUS
  <2>2. P[n + 1] = (p * P[n]) % m /\ P[n] \in Nat
    BY <1>2, <2>1
  <2> DEFINE a == P[n]
  <2>3. a \in Int /\ Same(m, a, b)
    BY <1>3, <2>2
  <2> HIDE DEF a
  <2>5. Same(m, a * p, b * p)
    <3>1. m \in Nat /\ b \in Int /\ p \in Int
      BY <1>1
    <3> QED
      BY <2>3, <3>1, SameMul
  <2>6. a * p = p * a /\ p * a \in Int /\ b * p \in Int
    BY <1>1, <2>3
  <2>7. Same(m, p * a, b * p)
    BY <2>5, <2>6
  <2>8. Same(m, (p * a) % m, p * a) /\ (p * a) % m \in Int
    BY <1>1, <2>6, SameMod
  <2>9. Same(m, (p * a) % m, b * p)
    BY <1>1, <2>6, <2>7, <2>8, SameTrans
  <2> QED
    BY <2>2, <2>9 DEF a
<1>4. Same(m, P[0], 1)
  BY <1>1, <1>2, SameMod
<1>5. Same(m, P[0 + 1], 1 * p)
  BY <1>4, <1>3
<1>6. Same(m, P[1], p)
  <2>1. 1 * p = p
    BY <1>1
  <2> QED
    BY <1>5, <2>1
<1>7. Same(m, P[1 + 1], p * p)
  BY <1>1, <1>6, <1>3
<1>8. Same(m, P[2 + 1], p * p * p)
  <2>1. p * p \in Nat
    BY <1>1
  <2> QED
    BY <1>7, <1>3, <2>1
<1>9. Same(m, P[3 + 1], p * p * p * p)
  <2>1. p * p * p \in Nat
    BY <1>1
  <2> QED
    BY <1>8, <1>3, <2>1
<1>10. /\ Power(p, 0) = 1 /\ Power(p, 1) = p /\ Power(p, 2) = p * p
       /\ Power(p, 3) = p * p * p /\ Power(p, 4) = p * p * p * p
  BY DEF Power
<1>11. ASSUME NEW n \in 0..4 PROVE Same(m, P[n], Power(p, n))
  <2>1. n = 0 \/ n = 1 \/ n = 2 \/ n = 3 \/ n = 4
    OBVIOUS
  <2> QED
    BY <1>4, <1>6, <1>7, <1>8, <1>9, <1>10, <2>1
<1> QED
  BY <1>2, <1>11 DEF p, m, P

LEMMA DotRuns ==
  ASSUME NEW T, IsHashType(T), NEW c \in Seq(Nat), Len(c) = 4
  PROVE  \E f : /\ f \in [0..4 -> Nat] /\ f[0] = 0 /\ DotProduct(T, c) = f[4]
                /\ \A n \in 1..4 :
                     f[n] = (f[n - 1] + normalize(c[n]) * POWERS(T)[4 - n]) % T.M
<1> DEFINE d == 4
           V == Nat
           base == 0
           Add(v, n) == (v + normalize(c[n]) * POWERS(T)[4 - n]) % T.M
           step == [n \in 1..d |-> [v \in V |-> Add(v, n)]]
           Body(f) == [n \in 0..d |-> IF n = 0 THEN base ELSE Add(f[n - 1], n)]
           g == CHOOSE f : f = Body(f)
<1>1. T.PRIME \in Nat /\ T.M \in Nat \ {0}
  BY DEF IsHashType
<1>2. DotProduct(T, c) = g[d]
  BY DEF DotProduct, N
<1>3. d \in Nat /\ base \in V
  OBVIOUS
<1>4. \A v \in V : \A n \in 1..d : Add(v, n) \in V
  <2>1. ASSUME NEW v \in Nat, NEW n \in 1..4
        PROVE  (v + normalize(c[n]) * POWERS(T)[4 - n]) % T.M \in Nat
    <3> DEFINE x == normalize(c[n])
               y == POWERS(T)[4 - n]
    <3>1. x \in Nat
      <4>1. c[n] \in Nat
        <5> HIDE DEF d, V, base, Add, step, Body, g, x, y
        <5>1. n \in 1..Len(c)
          OBVIOUS
        <5> QED
          BY <5>1, SeqAt
      <4> QED
        BY <4>1, NormalByte
    <3>2. y \in Nat
      <4>1. 4 - n \in 0..4
        OBVIOUS
      <4> QED
        BY <4>1, PowersRun
    <3> HIDE DEF x, y
    <3>3. v + x * y \in Int
      BY <3>1, <3>2
    <3>4. (v + x * y) % T.M \in 0..T.M - 1
      BY <1>1, <3>3, SameMod
    <3>5. (v + x * y) % T.M \in Nat
      BY <1>1, <3>4
    <3> QED
      BY <3>5 DEF x, y
  <2> QED
    BY <2>1
<1> HIDE DEF d, V, Add, base
<1>5. step \in [1..d -> [V -> V]]
  BY <1>4
<1>6. PICK f : Recurses(f, d, base, step)
  <2> HIDE DEF step
  <2> QED
    BY <1>3, <1>5, RecursionFromBefore
<1>7. RunsIn(f, d, V, base, step)
  <2> HIDE DEF step
  <2> QED
    BY <1>3, <1>5, <1>6, RecursionIs
<1>8. f = Body(f)
  <2>1. \A n \in 0..d : n # 0 => n \in 1..d /\ n - 1 \in 0..d
    BY <1>3
  <2>2. ASSUME NEW n \in 0..d PROVE f[n] = IF n = 0 THEN base ELSE Add(f[n - 1], n)
    BY <1>7, <2>1 DEF RunsIn
  <2>3. f = [n \in 0..d |-> f[n]]
    BY <1>7 DEF RunsIn
  <2> QED
    BY <2>2, <2>3
<1>9. g = Body(g)
  BY <1>8
<1> HIDE DEF g
<1>10. DOMAIN g = 0..d /\ g[0] = base /\ \A n \in 1..d : g[n] = Add(g[n - 1], n)
  <2>1. 0 \in 0..d /\ \A n \in 1..d : n \in 0..d /\ n # 0
    BY <1>3
  <2>2. g = [n \in 0..d |-> IF n = 0 THEN base ELSE Add(g[n - 1], n)]
    BY <1>9
  <2> QED
    BY <2>1, <2>2
<1> DEFINE In == { n \in 0..d : g[n] \in V }
<1>11. 0 \in In
  BY <1>3, <1>10
<1>12. ASSUME NEW n \in 0..d - 1, n \in In PROVE n + 1 \in In
  <2>1. n + 1 \in 1..d /\ n + 1 \in 0..d /\ (n + 1) - 1 = n
    BY <1>3
  <2>2. g[n] \in V /\ g[n + 1] = Add(g[n], n + 1)
    BY <1>10, <1>12, <2>1
  <2> QED
    BY <1>4, <2>1, <2>2
<1> HIDE DEF In
<1>13. \A n \in 0..d : g[n] \in V
  <2>1. 0..d \subseteq In
    BY <1>3, <1>11, <1>12, UpTo
  <2> QED
    BY <2>1 DEF In
<1>14. g \in [0..d -> V]
  <2>1. g = [n \in 0..d |-> g[n]]
    BY <1>9
  <2> QED
    BY <1>13, <2>1
<1> QED
  BY <1>2, <1>10, <1>14 DEF d, V, base, Add

LEMMA SameRefl ==
  ASSUME NEW m \in Nat, NEW a \in Int
  PROVE  Same(m, a, a)
<1>1. 0 \in Int /\ a = a + m * 0
  OBVIOUS
<1> QED
  BY <1>1 DEF Same

(* Multiplying and adding, wrapped or not.                                   *)
LEMMA SameStep ==
  ASSUME NEW m \in Nat \ {0}, NEW a \in Nat, NEW b \in Nat, NEW p \in Nat, NEW c \in Nat,
         NEW d \in Nat, Same(m, a, b), Same(m, c, d)
  PROVE  /\ (a * p + c) % m \in Nat /\ a * p + c \in Nat /\ b * p + d \in Nat
         /\ Same(m, (a * p + c) % m, b * p + d)
         /\ (a * p + c) % m = (b * p + d) % m
<1> DEFINE x == a * p + c
           y == b * p + d
<1>1. x \in Nat /\ y \in Nat
  OBVIOUS
<1>2. Same(m, x, y)
  <2>1. m \in Nat /\ a \in Int /\ b \in Int /\ p \in Int /\ c \in Int /\ d \in Int
    OBVIOUS
  <2> QED
    BY <2>1, SameMulAdd
<1> HIDE DEF x, y
<1>3. x % m \in Nat /\ x \in Int /\ y \in Int /\ x % m \in Int
  BY <1>1
<1>4. Same(m, x % m, x)
  BY <1>3, SameMod
<1>5. m \in Nat
  OBVIOUS
<1>6. Same(m, x % m, y)
  BY <1>2, <1>3, <1>4, <1>5, SameTrans
<1>7. x % m = y % m
  BY <1>2, <1>3, SameIs
<1> QED
  BY <1>1, <1>3, <1>6, <1>7 DEF x, y

(* x and y are one number once wrapped.                                      *)
WrapAlike(m, x, y) == x % m = y % m

WrapsTo(m, x, y) == y = x % m

LEMMA SameWraps ==
  ASSUME NEW m \in Nat \ {0}, NEW a \in Nat, NEW b \in Nat, NEW p \in Nat, NEW c \in Nat,
         NEW d \in Nat, Same(m, a, b), Same(m, c, d)
  PROVE  WrapAlike(m, a * p + c, b * p + d)
BY SameStep DEF WrapAlike

(* Four bytes one after another, the four powers and the dot product.        *)
FourSteps(m, p, h, c1, c2, c3, c4, f1, f2, f3, f4) ==
  /\ f1 = (h * p + c1) % m /\ f2 = (f1 * p + c2) % m
  /\ f3 = (f2 * p + c3) % m /\ f4 = (f3 * p + c4) % m
FourPowers(m, p, P0, P1, P2, P3, P4) ==
  /\ P0 \in Nat /\ P1 \in Nat /\ P2 \in Nat /\ P3 \in Nat /\ P4 \in Nat
  /\ Same(m, P0, 1) /\ Same(m, P1, p) /\ Same(m, P2, p * p)
  /\ Same(m, P3, p * p * p) /\ Same(m, P4, p * p * p * p)
FourDots(m, P0, P1, P2, P3, c1, c2, c3, c4, e1, e2, e3, e4) ==
  /\ e1 = (P3 * c1 + 0) % m /\ e2 = (P2 * c2 + e1) % m
  /\ e3 = (P1 * c3 + e2) % m /\ e4 = (P0 * c4 + e3) % m

(* Four bytes at once and one after another.                                 *)
LEMMA FourAreFour ==
  ASSUME NEW m \in Nat \ {0}, NEW p \in Nat, NEW h \in Nat,
         NEW c1 \in Nat, NEW c2 \in Nat, NEW c3 \in Nat, NEW c4 \in Nat,
         NEW P0, NEW P1, NEW P2, NEW P3, NEW P4, FourPowers(m, p, P0, P1, P2, P3, P4),
         NEW f1, NEW f2, NEW f3, NEW f4, NEW e1, NEW e2, NEW e3, NEW e4,
         FourSteps(m, p, h, c1, c2, c3, c4, f1, f2, f3, f4),
         FourDots(m, P0, P1, P2, P3, c1, c2, c3, c4, e1, e2, e3, e4)
  PROVE  WrapsTo(m, P4 * h + e4, f4)
<1>p. /\ P0 \in Nat /\ P1 \in Nat /\ P2 \in Nat /\ P3 \in Nat /\ P4 \in Nat
      /\ Same(m, P0, 1) /\ Same(m, P1, p) /\ Same(m, P2, p * p)
      /\ Same(m, P3, p * p * p) /\ Same(m, P4, p * p * p * p)
  BY DEF FourPowers
<1>w. /\ f1 = (h * p + c1) % m /\ f2 = (f1 * p + c2) % m
      /\ f3 = (f2 * p + c3) % m /\ f4 = (f3 * p + c4) % m
      /\ e1 = (P3 * c1 + 0) % m /\ e2 = (P2 * c2 + e1) % m
      /\ e3 = (P1 * c3 + e2) % m /\ e4 = (P0 * c4 + e3) % m
  BY DEF FourSteps, FourDots
<1> DEFINE A1 == h * p + c1
           A2 == A1 * p + c2
           A3 == A2 * p + c3
           A4 == A3 * p + c4
           q2 == p * p
           q3 == p * p * p
           q4 == p * p * p * p
           B1 == q3 * c1 + 0
           B2 == q2 * c2 + B1
           B3 == p * c3 + B2
           B4 == 1 * c4 + B3
<1>0. m \in Nat /\ 0 \in Nat /\ 1 \in Nat
  OBVIOUS
<1>1. q2 \in Nat /\ q3 \in Nat /\ q4 \in Nat
  OBVIOUS
<1>2. /\ Same(m, h, h) /\ Same(m, c1, c1) /\ Same(m, c2, c2) /\ Same(m, c3, c3)
      /\ Same(m, c4, c4) /\ Same(m, 0, 0)
  <2>1. \A a \in Nat : Same(m, a, a)
    BY SameRefl
  <2> QED
    BY <2>1
<1>3. Same(m, P2, q2) /\ Same(m, P3, q3) /\ Same(m, P4, q4)
  BY <1>p
<1>4. q4 * h + B4 = A4
  <2>1. A2 = h * q2 + c1 * p + c2
    OBVIOUS
  <2>2. A3 = h * q3 + c1 * q2 + c2 * p + c3
    BY <2>1
  <2>3. A4 = h * q4 + c1 * q3 + c2 * q2 + c3 * p + c4
    BY <2>2
  <2>4. B4 = c1 * q3 + c2 * q2 + c3 * p + c4
    OBVIOUS
  <2>5. q4 * h = h * q4
    BY <1>1
  <2> HIDE DEF A4, B4, q4
  <2> QED
    BY <1>1, <2>3, <2>4, <2>5
<1> HIDE DEF q2, q3, q4
<1>5. f1 \in Nat /\ A1 \in Nat /\ Same(m, f1, A1)
  BY <1>w, <1>p, <1>2, SameStep
<1> HIDE DEF A1
<1>6. f2 \in Nat /\ A2 \in Nat /\ Same(m, f2, A2)
  BY <1>w, <1>p, <1>2, <1>5, SameStep
<1> HIDE DEF A2
<1>7. f3 \in Nat /\ A3 \in Nat /\ Same(m, f3, A3)
  BY <1>w, <1>p, <1>2, <1>6, SameStep
<1> HIDE DEF A3
<1>8. f4 = A4 % m
  <2>1. WrapAlike(m, f3 * p + c4, A3 * p + c4)
    BY <1>2, <1>7, SameWraps
  <2> QED
    BY <1>w, <1>p, <2>1 DEF WrapAlike
<1> HIDE DEF A4
<1>9. e1 \in Nat /\ B1 \in Nat /\ Same(m, e1, B1)
  BY <1>w, <1>p, <1>0, <1>1, <1>2, <1>3, SameStep
<1> HIDE DEF B1
<1>10. e2 \in Nat /\ B2 \in Nat /\ Same(m, e2, B2)
  BY <1>w, <1>p, <1>1, <1>3, <1>9, SameStep
<1> HIDE DEF B2
<1>11. e3 \in Nat /\ B3 \in Nat /\ Same(m, e3, B3)
  BY <1>w, <1>p, <1>10, SameStep
<1> HIDE DEF B3
<1>12. e4 \in Nat /\ B4 \in Nat /\ Same(m, e4, B4)
  BY <1>w, <1>p, <1>0, <1>11, SameStep
<1> HIDE DEF B4
<1>13. WrapAlike(m, P4 * h + e4, q4 * h + B4)
  BY <1>p, <1>1, <1>3, <1>12, SameWraps
<1> QED
  BY <1>4, <1>8, <1>13 DEF WrapAlike, WrapsTo

(* A chunk is its four bytes.                                                *)
LEMMA ChunkIsBytes ==
  ASSUME NEW T, IsHashType(T), NEW h \in Nat, NEW c \in Seq(Nat), Len(c) = 4
  PROVE  (h * POWERS(T)[4] + DotProduct(T, c)) % T.M = hash_bytes(T, h, c)
<1> DEFINE m == T.M
           p == T.PRIME
           x1 == normalize(c[1])
           x2 == normalize(c[2])
           x3 == normalize(c[3])
           x4 == normalize(c[4])
           P0 == POWERS(T)[0]
           P1 == POWERS(T)[1]
           P2 == POWERS(T)[2]
           P3 == POWERS(T)[3]
           P4 == POWERS(T)[4]
<1>1. p \in Nat /\ m \in Nat \ {0}
  BY DEF IsHashType
<1>2. x1 \in Nat /\ x2 \in Nat /\ x3 \in Nat /\ x4 \in Nat
  <2>1. ASSUME NEW n \in 1..4 PROVE normalize(c[n]) \in Nat
    <3>1. n \in 1..Len(c)
      OBVIOUS
    <3>2. c[n] \in Nat
      BY <3>1, SeqAt
    <3> QED
      BY <3>2, NormalByte
  <2> QED
    BY <2>1
<1>3. /\ P0 \in Nat /\ P1 \in Nat /\ P2 \in Nat /\ P3 \in Nat /\ P4 \in Nat
      /\ Same(m, P0, 1) /\ Same(m, P1, p) /\ Same(m, P2, p * p)
      /\ Same(m, P3, p * p * p) /\ Same(m, P4, p * p * p * p)
  <2>1. \A n \in 0..4 : POWERS(T)[n] \in Nat /\ Same(m, POWERS(T)[n], Power(p, n))
    BY PowersAre
  <2>2. 0 \in 0..4 /\ 1 \in 0..4 /\ 2 \in 0..4 /\ 3 \in 0..4 /\ 4 \in 0..4
    OBVIOUS
  <2>3. /\ Power(p, 0) = 1 /\ Power(p, 1) = p /\ Power(p, 2) = p * p
        /\ Power(p, 3) = p * p * p /\ Power(p, 4) = p * p * p * p
    BY DEF Power
  <2> HIDE DEF p, m
  <2> QED
    BY <2>1, <2>2, <2>3
<1>4. PICK f : Hashes(T, h, c, f) /\ hash_bytes(T, h, c) = f[4]
  BY HashIs
<1>5. PICK d : /\ d \in [0..4 -> Nat] /\ d[0] = 0 /\ DotProduct(T, c) = d[4]
               /\ \A n \in 1..4 : d[n] = (d[n - 1] + normalize(c[n]) * POWERS(T)[4 - n]) % m
  BY DotRuns
<1>6. /\ f[1] = (h * p + x1) % m /\ f[2] = (f[1] * p + x2) % m
      /\ f[3] = (f[2] * p + x3) % m /\ f[4] = (f[3] * p + x4) % m
  <2>1. f[0] = h /\ \A n \in 1..4 : f[n] = HashStep(T, f[n - 1], c[n])
    BY <1>4 DEF Hashes
  <2>2. /\ f[1] = HashStep(T, f[0], c[1]) /\ f[2] = HashStep(T, f[1], c[2])
        /\ f[3] = HashStep(T, f[2], c[3]) /\ f[4] = HashStep(T, f[3], c[4])
    <3>1. /\ 1 \in 1..4 /\ 2 \in 1..4 /\ 3 \in 1..4 /\ 4 \in 1..4
          /\ 1 - 1 = 0 /\ 2 - 1 = 1 /\ 3 - 1 = 2 /\ 4 - 1 = 3
      OBVIOUS
    <3> QED
      BY <2>1, <3>1
  <2> QED
    BY <2>1, <2>2, Zenon DEF HashStep
<1>7. /\ d[1] = (d[0] + x1 * P3) % m /\ d[2] = (d[1] + x2 * P2) % m
      /\ d[3] = (d[2] + x3 * P1) % m /\ d[4] = (d[3] + x4 * P0) % m
  <2>1. /\ 1 \in 1..4 /\ 2 \in 1..4 /\ 3 \in 1..4 /\ 4 \in 1..4
        /\ 1 - 1 = 0 /\ 2 - 1 = 1 /\ 3 - 1 = 2 /\ 4 - 1 = 3
        /\ 4 - 1 = 3 /\ 4 - 2 = 2 /\ 4 - 3 = 1 /\ 4 - 4 = 0
    OBVIOUS
  <2>2. /\ d[1] = (d[1 - 1] + normalize(c[1]) * POWERS(T)[4 - 1]) % m
        /\ d[2] = (d[2 - 1] + normalize(c[2]) * POWERS(T)[4 - 2]) % m
        /\ d[3] = (d[3 - 1] + normalize(c[3]) * POWERS(T)[4 - 3]) % m
        /\ d[4] = (d[4 - 1] + normalize(c[4]) * POWERS(T)[4 - 4]) % m
    BY <1>5, <2>1, Zenon
  <2> QED
    BY <2>1, <2>2, Zenon
<1>8. d[1] \in Nat /\ d[2] \in Nat /\ d[3] \in Nat /\ d[4] \in Nat
  BY <1>5
<1> DEFINE e1 == d[1]
           e2 == d[2]
           e3 == d[3]
           e4 == d[4]
<1>9. e1 \in Nat /\ e2 \in Nat /\ e3 \in Nat /\ e4 \in Nat
  BY <1>8
<1>10. /\ e1 = (0 + x1 * P3) % m /\ e2 = (e1 + x2 * P2) % m
       /\ e3 = (e2 + x3 * P1) % m /\ e4 = (e3 + x4 * P0) % m
  BY <1>5, <1>7
<1>11. e4 = DotProduct(T, c)
  BY <1>5
<1> HIDE DEF m, p, x1, x2, x3, x4, P0, P1, P2, P3, P4, e1, e2, e3, e4
<1>12. /\ 0 + x1 * P3 = P3 * x1 + 0 /\ e1 + x2 * P2 = P2 * x2 + e1
       /\ e2 + x3 * P1 = P1 * x3 + e2 /\ e3 + x4 * P0 = P0 * x4 + e3
       /\ h * P4 + e4 = P4 * h + e4
  BY <1>2, <1>3, <1>9
<1>13. /\ e1 = (P3 * x1 + 0) % m /\ e2 = (P2 * x2 + e1) % m
       /\ e3 = (P1 * x3 + e2) % m /\ e4 = (P0 * x4 + e3) % m
  BY <1>10, <1>12
<1>14. (P4 * h + e4) % m = f[4]
  <2> DEFINE f1 == f[1]
             f2 == f[2]
             f3 == f[3]
             f4 == f[4]
  <2>1. /\ f1 = (h * p + x1) % m /\ f2 = (f1 * p + x2) % m
        /\ f3 = (f2 * p + x3) % m /\ f4 = (f3 * p + x4) % m
    BY <1>6
  <2> HIDE DEF f1, f2, f3, f4
  <2>2. /\ FourSteps(m, p, h, x1, x2, x3, x4, f1, f2, f3, f4)
        /\ FourPowers(m, p, P0, P1, P2, P3, P4)
        /\ FourDots(m, P0, P1, P2, P3, x1, x2, x3, x4, e1, e2, e3, e4)
    BY <1>3, <1>13, <2>1 DEF FourSteps, FourPowers, FourDots
  <2>3. WrapsTo(m, P4 * h + e4, f4)
    BY <1>1, <1>2, <2>2, FourAreFour
  <2> QED
    BY <2>3 DEF f4, WrapsTo
<1>15. (h * P4 + e4) % m = f[4]
  BY <1>12, <1>14
<1> QED
  BY <1>4, <1>11, <1>15 DEF P4, m

(* s is u with v behind it.                                                  *)
Behind(s, u, v) ==
  /\ Len(s) = Len(u) + Len(v)
  /\ \A n \in 1..Len(u) : s[n] = u[n]
  /\ \A n \in 1..Len(v) : s[Len(u) + n] = v[n]

LEMMA ConcatAt ==
  ASSUME NEW S, NEW s \in Seq(S), NEW t \in Seq(S)
  PROVE  s \o t \in Seq(S) /\ Behind(s \o t, s, t)
BY DEF Behind

LEMMA ConcatIs ==
  ASSUME NEW S, NEW s \in Seq(S), NEW u \in Seq(S), NEW v \in Seq(S), Behind(s, u, v)
  PROVE  s = u \o v
<1> DEFINE w == u \o v
           a == Len(u)
           b == Len(v)
<1>0. a \in Nat /\ b \in Nat
  OBVIOUS
<1>1. w \in Seq(S) /\ Behind(w, u, v)
  BY ConcatAt
<1> HIDE DEF w, a, b
<1>2. /\ w \in Seq(S) /\ Len(w) = a + b /\ Len(s) = a + b
      /\ \A n \in 1..a : w[n] = s[n]
      /\ \A n \in 1..b : w[a + n] = s[a + n]
  BY <1>1 DEF Behind, a, b
<1>3. ASSUME NEW n \in 1..(a + b) PROVE s[n] = w[n]
  <2>1. CASE n <= a
    <3>1. n \in 1..a
      BY <1>0, <2>1
    <3> QED
      BY <1>2, <3>1
  <2>2. CASE n > a
    <3>1. PICK x : x = n - a
      OBVIOUS
    <3>2. x \in 1..b /\ a + x = n
      BY <1>0, <2>2, <3>1
    <3>3. w[a + x] = s[a + x]
      BY <1>2, <3>2
    <3> QED
      BY <3>2, <3>3
  <2> QED
    BY <1>0, <2>1, <2>2
<1>4. s = w
  BY <1>2, <1>3
<1> QED
  BY <1>4 DEF w

(* Where the chunks of s are.                                                *)
ChunkOf(s, j) == SubSeq(s, 4 * (j - 1) + 1, 4 * j)

LEMMA ChunkIsFour ==
  ASSUME NEW s \in Seq(Nat), NEW j \in 1..(Len(s) \div 4)
  PROVE  /\ ChunkOf(s, j) \in Seq(Nat) /\ Len(ChunkOf(s, j)) = 4
         /\ SubSeq(s, 1, 4 * (j - 1)) \in Seq(Nat)
         /\ SubSeq(s, 1, 4 * j) = SubSeq(s, 1, 4 * (j - 1)) \o ChunkOf(s, j)
<1> DEFINE L == Len(s)
           a == 4 * (j - 1)
           b == 4 * j
           p == SubSeq(s, 1, a)
           c == SubSeq(s, a + 1, b)
           q == SubSeq(s, 1, b)
<1>0. L \in Nat /\ j \in Nat
  OBVIOUS
<1>1. a \in Nat /\ b \in Nat /\ a + 4 = b /\ b <= L
  <2>1. 4 * (L \div 4) <= L
    BY <1>0
  <2> QED
    BY <1>0, <2>1
<1> HIDE DEF L, a, b
<1>2. /\ p \in Seq(Nat) /\ Len(p) = a /\ \A n \in 1..a : p[n] = s[n]
  BY <1>0, <1>1 DEF L
<1>3. /\ q \in Seq(Nat) /\ Len(q) = b /\ \A n \in 1..b : q[n] = s[n]
  BY <1>0, <1>1 DEF L
<1>4. /\ c \in Seq(Nat) /\ Len(c) = 4 /\ \A n \in 1..4 : c[n] = s[a + n]
  <2>1. a + 1 <= b /\ b \in 1..L /\ a + 1 \in 1..L /\ b - (a + 1) + 1 = 4
    BY <1>0, <1>1
  <2>2. ASSUME NEW n \in 1..4 PROVE (a + 1) + n - 1 = a + n
    BY <1>1
  <2>3. c \in Seq(Nat) /\ Len(c) = b - (a + 1) + 1
        /\ \A n \in 1..(b - (a + 1) + 1) : c[n] = s[(a + 1) + n - 1]
    BY <1>0, <1>1, <2>1 DEF L
  <2> HIDE DEF c
  <2> QED
    BY <2>1, <2>2, <2>3
<1> HIDE DEF p, q, c
<1>5. q = p \o c
  <2>1. ASSUME NEW n \in 1..a PROVE q[n] = p[n]
    <3>1. n \in 1..b
      BY <1>1
    <3> QED
      BY <1>2, <1>3, <3>1
  <2>2. ASSUME NEW n \in 1..4 PROVE q[a + n] = c[n]
    <3>1. a + n \in 1..b
      BY <1>1
    <3> QED
      BY <1>3, <1>4, <3>1
  <2>3. Behind(q, p, c)
    BY <1>1, <1>2, <1>3, <1>4, <2>1, <2>2 DEF Behind
  <2> QED
    BY <1>2, <1>3, <1>4, <2>3, ConcatIs
<1> QED
  BY <1>2, <1>4, <1>5 DEF p, q, c, a, b, ChunkOf

(* A sequence is what is before a place and what is behind it.               *)
LEMMA SplitAt ==
  ASSUME NEW s \in Seq(Nat), NEW a \in 0..Len(s)
  PROVE  /\ SubSeq(s, 1, a) \in Seq(Nat) /\ SubSeq(s, a + 1, Len(s)) \in Seq(Nat)
         /\ s = SubSeq(s, 1, a) \o SubSeq(s, a + 1, Len(s))
<1> DEFINE L == Len(s)
           p == SubSeq(s, 1, a)
           c == SubSeq(s, a + 1, L)
<1>0. L \in Nat /\ a \in Nat /\ a <= L
  OBVIOUS
<1>2. /\ p \in Seq(Nat) /\ Len(p) = a /\ \A n \in 1..a : p[n] = s[n]
  BY <1>0
<1>4. /\ c \in Seq(Nat) /\ Len(c) = L - a /\ \A n \in 1..(L - a) : c[n] = s[a + n]
  <2>1. CASE a = L
    BY <1>0, <2>1
  <2>2. CASE a # L
    <3>1. a + 1 <= L /\ L \in 1..L /\ a + 1 \in 1..L /\ L - (a + 1) + 1 = L - a
      BY <1>0, <2>2
    <3>2. ASSUME NEW n \in 1..(L - a) PROVE (a + 1) + n - 1 = a + n
      BY <1>0
    <3>3. c \in Seq(Nat) /\ Len(c) = L - (a + 1) + 1
          /\ \A n \in 1..(L - (a + 1) + 1) : c[n] = s[(a + 1) + n - 1]
      BY <1>0, <3>1
    <3> HIDE DEF c, L
    <3> QED
      BY <3>1, <3>2, <3>3
  <2> QED
    BY <2>1, <2>2
<1>5. s = p \o c
  <2> HIDE DEF p, c
  <2>1. Len(s) = Len(p) + Len(c)
    BY <1>0, <1>2, <1>4
  <2>2. Behind(s, p, c)
    BY <1>2, <1>4, <2>1 DEF Behind
  <2> QED
    BY <1>2, <1>4, <2>2, ConcatIs
<1> QED
  BY <1>2, <1>4, <1>5

LEMMA ChunksRun ==
  ASSUME NEW T, IsHashType(T), NEW init \in Nat, NEW s \in Seq(Nat)
  PROVE  \E f : /\ f \in [0..(Len(s) \div 4) -> Nat] /\ f[0] = init
                /\ mad_hash(T, init, s) = hash_bytes(T, f[Len(s) \div 4],
                     SubSeq(s, 4 * (Len(s) \div 4) + 1, Len(s)))
                /\ \A n \in 1..(Len(s) \div 4) :
                     f[n] = (f[n - 1] * POWERS(T)[4] + DotProduct(T, ChunkOf(s, n))) % T.M
<1> DEFINE d == Len(s) \div 4
           V == Nat
           base == init
           Add(v, n) == (v * POWERS(T)[4] + DotProduct(T, ChunkOf(s, n))) % T.M
           step == [n \in 1..d |-> [v \in V |-> Add(v, n)]]
           Body(f) == [n \in 0..d |-> IF n = 0 THEN base ELSE Add(f[n - 1], n)]
           g == CHOOSE f : f = Body(f)
<1>1. T.PRIME \in Nat /\ T.M \in Nat \ {0}
  BY DEF IsHashType
<1>2. mad_hash(T, init, s) = hash_bytes(T, g[d], SubSeq(s, 4 * d + 1, Len(s)))
  BY DEF mad_hash, N, ChunkOf
<1>3. d \in Nat /\ base \in V
  OBVIOUS
<1>4. \A v \in V : \A n \in 1..d : Add(v, n) \in V
  <2>1. ASSUME NEW v \in Nat, NEW n \in 1..(Len(s) \div 4)
        PROVE  (v * POWERS(T)[4] + DotProduct(T, ChunkOf(s, n))) % T.M \in Nat
    <3>1. ChunkOf(s, n) \in Seq(Nat) /\ Len(ChunkOf(s, n)) = 4
      BY ChunkIsFour
    <3>2. (v * POWERS(T)[4] + DotProduct(T, ChunkOf(s, n))) % T.M = hash_bytes(T, v, ChunkOf(s, n))
      BY <3>1, ChunkIsBytes
    <3>3. hash_bytes(T, v, ChunkOf(s, n)) \in Nat
      BY <3>1, HashGoesOn
    <3> QED
      BY <3>2, <3>3
  <2> QED
    BY <2>1
<1> HIDE DEF d, V, Add, base
<1>5. step \in [1..d -> [V -> V]]
  BY <1>4
<1>6. PICK f : Recurses(f, d, base, step)
  <2> HIDE DEF step
  <2> QED
    BY <1>3, <1>5, RecursionFromBefore
<1>7. RunsIn(f, d, V, base, step)
  <2> HIDE DEF step
  <2> QED
    BY <1>3, <1>5, <1>6, RecursionIs
<1>8. f = Body(f)
  <2>1. \A n \in 0..d : n # 0 => n \in 1..d /\ n - 1 \in 0..d
    BY <1>3
  <2>2. ASSUME NEW n \in 0..d PROVE f[n] = IF n = 0 THEN base ELSE Add(f[n - 1], n)
    BY <1>7, <2>1 DEF RunsIn
  <2>3. f = [n \in 0..d |-> f[n]]
    BY <1>7 DEF RunsIn
  <2> QED
    BY <2>2, <2>3
<1>9. g = Body(g)
  BY <1>8
<1> HIDE DEF g
<1>10. DOMAIN g = 0..d /\ g[0] = base /\ \A n \in 1..d : g[n] = Add(g[n - 1], n)
  <2>1. 0 \in 0..d /\ \A n \in 1..d : n \in 0..d /\ n # 0
    BY <1>3
  <2>2. g = [n \in 0..d |-> IF n = 0 THEN base ELSE Add(g[n - 1], n)]
    BY <1>9
  <2> QED
    BY <2>1, <2>2
<1> DEFINE In == { n \in 0..d : g[n] \in V }
<1>11. 0 \in In
  BY <1>3, <1>10
<1>12. ASSUME NEW n \in 0..d - 1, n \in In PROVE n + 1 \in In
  <2>1. n + 1 \in 1..d /\ n + 1 \in 0..d /\ (n + 1) - 1 = n
    BY <1>3
  <2>2. g[n] \in V /\ g[n + 1] = Add(g[n], n + 1)
    BY <1>10, <1>12, <2>1
  <2> QED
    BY <1>4, <2>1, <2>2
<1> HIDE DEF In
<1>13. \A n \in 0..d : g[n] \in V
  <2>1. 0..d \subseteq In
    BY <1>3, <1>11, <1>12, UpTo
  <2> QED
    BY <2>1 DEF In
<1>14. g \in [0..d -> V]
  <2>1. g = [n \in 0..d |-> g[n]]
    BY <1>9
  <2> QED
    BY <1>13, <2>1
<1> QED
  BY <1>2, <1>10, <1>14 DEF d, V, base, Add

(* Four bytes at a time is one byte at a time.                               *)
LEMMA MadIsBytes ==
  ASSUME NEW T, IsHashType(T), NEW init \in Nat, NEW s \in Seq(Nat)
  PROVE  mad_hash(T, init, s) = hash_bytes(T, init, s)
<1> DEFINE d == Len(s) \div 4
<1>1. PICK f : /\ f \in [0..d -> Nat] /\ f[0] = init
               /\ mad_hash(T, init, s) = hash_bytes(T, f[d], SubSeq(s, 4 * d + 1, Len(s)))
               /\ \A n \in 1..d :
                    f[n] = (f[n - 1] * POWERS(T)[4] + DotProduct(T, ChunkOf(s, n))) % T.M
  BY ChunksRun
<1>2. d \in Nat /\ 4 * d \in 0..Len(s)
  <2>1. Len(s) \in Nat
    OBVIOUS
  <2> QED
    BY <2>1
<1>3. \A n \in 1..d : /\ ChunkOf(s, n) \in Seq(Nat) /\ Len(ChunkOf(s, n)) = 4
                      /\ SubSeq(s, 1, 4 * (n - 1)) \in Seq(Nat)
                      /\ SubSeq(s, 1, 4 * n) = SubSeq(s, 1, 4 * (n - 1)) \o ChunkOf(s, n)
  BY ChunkIsFour
<1> HIDE DEF d
<1> DEFINE Eq == { n \in 0..d : f[n] = hash_bytes(T, init, SubSeq(s, 1, 4 * n)) }
<1>4. 0 \in Eq
  <2>1. SubSeq(s, 1, 4 * 0) = <<>>
    OBVIOUS
  <2>2. hash_bytes(T, init, <<>>) = init
    <3>1. <<>> \in Seq(Nat) /\ Len(<<>>) = 0
      OBVIOUS
    <3>2. PICK h : Hashes(T, init, <<>>, h) /\ hash_bytes(T, init, <<>>) = h[0]
      BY <3>1, HashIs
    <3> QED
      BY <3>2 DEF Hashes
  <2>3. 0 \in 0..d
    BY <1>2
  <2> QED
    BY <1>1, <2>1, <2>2, <2>3, Zenon
<1>5. ASSUME NEW n \in 0..d - 1, n \in Eq PROVE n + 1 \in Eq
  <2>1. n + 1 \in 1..d /\ n + 1 \in 0..d /\ (n + 1) - 1 = n /\ n \in 0..d
    BY <1>2
  <2> DEFINE c == ChunkOf(s, n + 1)
             p == SubSeq(s, 1, 4 * n)
  <2>2. /\ c \in Seq(Nat) /\ Len(c) = 4 /\ p \in Seq(Nat)
        /\ SubSeq(s, 1, 4 * (n + 1)) = p \o c
    BY <1>3, <2>1
  <2>3. f[n + 1] = (f[n] * POWERS(T)[4] + DotProduct(T, c)) % T.M /\ f[n] \in Nat
    BY <1>1, <2>1
  <2>4. f[n] = hash_bytes(T, init, p)
    BY <1>5
  <2> HIDE DEF c, p
  <2>5. f[n + 1] = hash_bytes(T, f[n], c)
    BY <2>2, <2>3, ChunkIsBytes
  <2>6. hash_bytes(T, init, p \o c) = hash_bytes(T, hash_bytes(T, init, p), c)
    BY <2>2, HashGoesOn
  <2>7. f[n + 1] = hash_bytes(T, init, SubSeq(s, 1, 4 * (n + 1)))
    BY <2>2, <2>4, <2>5, <2>6
  <2> QED
    BY <2>1, <2>7
<1> HIDE DEF Eq
<1>6. d \in Eq
  <2>1. d \in 0..d
    BY <1>2
  <2> QED
    BY <1>2, <1>4, <1>5, <2>1, UpTo
<1>7. f[d] = hash_bytes(T, init, SubSeq(s, 1, 4 * d))
  BY <1>6 DEF Eq
<1> DEFINE a == 4 * d
           x == SubSeq(s, 1, a)
           y == SubSeq(s, a + 1, Len(s))
<1>8. a \in 0..Len(s)
  BY <1>2
<1>9. x \in Seq(Nat) /\ y \in Seq(Nat) /\ s = x \o y
  <2> HIDE DEF a
  <2> QED
    BY <1>8, SplitAt
<1>10. mad_hash(T, init, s) = hash_bytes(T, hash_bytes(T, init, x), y)
  BY <1>1, <1>7
<1> HIDE DEF x, y
<1>11. hash_bytes(T, init, x \o y) = hash_bytes(T, hash_bytes(T, init, x), y)
  BY <1>9, HashGoesOn
<1> QED
  BY <1>9, <1>10, <1>11

LEMMA SuffixIsBytes ==
  ASSUME NEW s \in Seq(Nat), HasHash(s)
  PROVE  normalize_suffix(s) \in Seq(Nat)
<1> DEFINE r == WithoutRoot(s)
<1>1. r \in Seq(Nat)
  <2> DEFINE colons == {n \in DOMAIN s : s[n] = Colon}
  <2>1. CASE colons = {}
    BY <2>1 DEF WithoutRoot
  <2>2. CASE colons # {}
    <3>1. colons \subseteq 1..Len(s)
      OBVIOUS
    <3>2. PICK c \in colons : \A n \in colons : c <= n
      <4>1. colons \in SUBSET Nat
        BY <3>1
      <4> HIDE DEF colons
      <4> QED
        BY <2>2, <4>1, LowestExists
    <3>3. Min(colons) \in colons
      <4> HIDE DEF colons
      <4> QED
        BY <3>2 DEF Min
    <3>4. r = SubSeq(s, Min(colons) + 1, Len(s))
      BY <2>2 DEF WithoutRoot
    <3> DEFINE a == Min(colons)
    <3>5. a \in 0..Len(s)
      BY <3>1, <3>3
    <3>6. r = SubSeq(s, a + 1, Len(s))
      BY <3>4
    <3> HIDE DEF a
    <3> QED
      BY <3>5, <3>6, SplitAt
  <2> QED
    BY <2>1, <2>2
<1>2. Len(r) >= 2
  BY DEF HasHash
<1> HIDE DEF r
<1>3. Tail(r) \in Seq(Nat)
  <2>1. r # <<>>
    BY <1>1, <1>2
  <2> QED
    BY <1>1, <2>1
<1> QED
  BY <1>1, <1>3 DEF normalize_suffix, r

(* For every path, prime and width: the hash computed from the root's slash  *)
(* on and four bytes at a time, with the powers of the prime, is the         *)
(* polynomial over the bytes one by one (mad.rs:11-60, hash.rs:5-17).        *)
THEOREM PathHashIsPlain ==
  ASSUME NEW T, IsHashType(T), NEW s \in Seq(Nat), HasHash(s)
  PROVE  hash_path(T, s) = hash_bytes(T, 0, <<Slash>> \o normalize_suffix(s))
<1> DEFINE t == normalize_suffix(s)
           u == <<Slash>>
<1>1. t \in Seq(Nat)
  BY SuffixIsBytes
<1>2. u \in Seq(Nat)
  BY DEF Slash
<1>0. PICK z : z = 0
  OBVIOUS
<1>3. z \in Nat
  BY <1>0
<1>6. hash_path(T, s) = mad_hash(T, hash_bytes(T, z, u), t)
  BY <1>0 DEF hash_path
<1> HIDE DEF t, u
<1>4. hash_bytes(T, z, u) \in Nat /\ hash_bytes(T, z, u \o t) = hash_bytes(T, hash_bytes(T, z, u), t)
  BY <1>1, <1>2, <1>3, HashGoesOn
<1>5. mad_hash(T, hash_bytes(T, z, u), t) = hash_bytes(T, hash_bytes(T, z, u), t)
  BY <1>1, <1>4, MadIsBytes
<1> QED
  BY <1>0, <1>4, <1>5, <1>6 DEF t, u

-----------------------------------------------------------------------------
(* Sums and sequences one behind the other.                                  *)
Sums(w, d, f) ==
  f \in [0..d -> Nat] /\ f[0] = 0 /\ \A n \in 1..d : f[n] = f[n - 1] + w[n]

LEMMA SumIs ==
  ASSUME NEW c \in Nat, NEW w \in [1..c -> Nat], NEW m \in 0..c
  PROVE  \E f : Sums(w, m, f) /\ SumOf(w, m) = f[m]
<1> DEFINE d == m
           V == Nat
           base == 0
           Add(v, n) == v + w[n]
           step == [n \in 1..d |-> [v \in V |-> Add(v, n)]]
           Body(f) == [n \in 0..d |-> IF n = 0 THEN base ELSE Add(f[n - 1], n)]
           g == CHOOSE f : f = Body(f)
<1>2. SumOf(w, m) = g[d]
  BY DEF SumOf
<1>3. d \in Nat /\ base \in V
  OBVIOUS
<1>4. \A v \in V : \A n \in 1..d : Add(v, n) \in V
  <2>1. ASSUME NEW v \in Nat, NEW n \in 1..m PROVE v + w[n] \in Nat
    <3>1. n \in 1..c
      OBVIOUS
    <3>2. w[n] \in Nat
      BY <3>1
    <3> QED
      BY <3>2
  <2> QED
    BY <2>1
<1> HIDE DEF d, V, Add, base
<1>5. step \in [1..d -> [V -> V]]
  BY <1>4
<1>6. PICK f : Recurses(f, d, base, step)
  <2> HIDE DEF step
  <2> QED
    BY <1>3, <1>5, RecursionFromBefore
<1>7. RunsIn(f, d, V, base, step)
  <2> HIDE DEF step
  <2> QED
    BY <1>3, <1>5, <1>6, RecursionIs
<1>8. f = Body(f)
  <2>1. \A n \in 0..d : n # 0 => n \in 1..d /\ n - 1 \in 0..d
    BY <1>3
  <2>2. ASSUME NEW n \in 0..d PROVE f[n] = IF n = 0 THEN base ELSE Add(f[n - 1], n)
    BY <1>7, <2>1 DEF RunsIn
  <2>3. f = [n \in 0..d |-> f[n]]
    BY <1>7 DEF RunsIn
  <2> QED
    BY <2>2, <2>3
<1>9. g = Body(g)
  BY <1>8
<1> HIDE DEF g
<1>10. DOMAIN g = 0..d /\ g[0] = base /\ \A n \in 1..d : g[n] = Add(g[n - 1], n)
  <2>1. 0 \in 0..d /\ \A n \in 1..d : n \in 0..d /\ n # 0
    BY <1>3
  <2>2. g = [n \in 0..d |-> IF n = 0 THEN base ELSE Add(g[n - 1], n)]
    BY <1>9
  <2> QED
    BY <2>1, <2>2
<1> DEFINE In == { n \in 0..d : g[n] \in V }
<1>11. 0 \in In
  BY <1>3, <1>10
<1>12. ASSUME NEW n \in 0..d - 1, n \in In PROVE n + 1 \in In
  <2>1. n + 1 \in 1..d /\ n + 1 \in 0..d /\ (n + 1) - 1 = n
    BY <1>3
  <2>2. g[n] \in V /\ g[n + 1] = Add(g[n], n + 1)
    BY <1>10, <1>12, <2>1
  <2> QED
    BY <1>4, <2>1, <2>2
<1> HIDE DEF In
<1>13. \A n \in 0..d : g[n] \in V
  <2>1. 0..d \subseteq In
    BY <1>3, <1>11, <1>12, UpTo
  <2> QED
    BY <2>1 DEF In
<1>14. g \in [0..d -> V]
  <2>1. g = [n \in 0..d |-> g[n]]
    BY <1>9
  <2> QED
    BY <1>13, <2>1
<1> QED
  BY <1>2, <1>10, <1>14 DEF Sums, d, V, base, Add

LEMMA SumIsNat ==
  ASSUME NEW c \in Nat, NEW w \in [1..c -> Nat], NEW m \in 0..c
  PROVE  SumOf(w, m) \in Nat
<1>1. PICK f : Sums(w, m, f) /\ SumOf(w, m) = f[m]
  BY SumIs
<1> QED
  BY <1>1 DEF Sums

LEMMA SumsAgree ==
  ASSUME NEW c \in Nat, NEW w, NEW f, NEW g, NEW d \in Nat, Sums(w, c, f), Sums(w, d, g),
         NEW m \in Nat, m <= c, m <= d
  PROVE  f[m] = g[m]
<1> DEFINE Eq == { n \in 0..m : f[n] = g[n] }
<1>1. 0 \in Eq
  BY DEF Sums
<1>2. ASSUME NEW n \in 0..m - 1, n \in Eq PROVE n + 1 \in Eq
  <2>1. n + 1 \in 1..c /\ n + 1 \in 1..d /\ n + 1 \in 0..m /\ (n + 1) - 1 = n
    OBVIOUS
  <2>2. f[n + 1] = f[n] + w[n + 1] /\ g[n + 1] = g[n] + w[n + 1]
    BY <2>1 DEF Sums
  <2> QED
    BY <1>2, <2>1, <2>2
<1> HIDE DEF Eq
<1>3. m \in Eq
  <2>1. m \in 0..m
    OBVIOUS
  <2> QED
    BY <1>1, <1>2, <2>1, UpTo
<1> QED
  BY <1>3 DEF Eq

(* One more.                                                                 *)
LEMMA SumStep ==
  ASSUME NEW c \in Nat, NEW w \in [1..c -> Nat]
  PROVE  /\ SumOf(w, 0) = 0
         /\ \A n \in 1..c : SumOf(w, n) = SumOf(w, n - 1) + w[n]
<1>1. SumOf(w, 0) = 0
  <2>1. 0 \in 0..c
    OBVIOUS
  <2>2. PICK f : Sums(w, 0, f) /\ SumOf(w, 0) = f[0]
    BY <2>1, SumIs
  <2> QED
    BY <2>2 DEF Sums
<1>2. ASSUME NEW n \in 1..c PROVE SumOf(w, n) = SumOf(w, n - 1) + w[n]
  <2>1. n \in 0..c /\ n - 1 \in 0..c /\ n \in Nat /\ n - 1 \in Nat /\ n - 1 <= n
    OBVIOUS
  <2>2. PICK f : Sums(w, n, f) /\ SumOf(w, n) = f[n]
    BY <2>1, SumIs
  <2>3. PICK g : Sums(w, n - 1, g) /\ SumOf(w, n - 1) = g[n - 1]
    BY <2>1, SumIs
  <2>4. PICK p : p = n - 1
    OBVIOUS
  <2>5. f[p] = g[p]
    <3>1. p \in Nat /\ p <= n /\ p <= p /\ Sums(w, p, g)
      BY <2>1, <2>3, <2>4
    <3> QED
      BY <2>1, <2>2, <3>1, SumsAgree
  <2>6. f[n] = f[n - 1] + w[n]
    <3>1. n \in 1..n
      OBVIOUS
    <3> QED
      BY <2>2, <3>1 DEF Sums
  <2> QED
    BY <2>2, <2>3, <2>4, <2>5, <2>6
<1> QED
  BY <1>1, <1>2

(* The sums grow.                                                            *)
LEMMA SumGrows ==
  ASSUME NEW c \in Nat, NEW w \in [1..c -> Nat], NEW a \in 0..c, NEW b \in 0..c, a <= b
  PROVE  SumOf(w, a) <= SumOf(w, b)
<1> DEFINE S == { n \in 0..(b - a) : SumOf(w, a) <= SumOf(w, a + n) }
<1>0. b - a \in Nat /\ SumOf(w, a) \in Nat
  BY SumIsNat
<1>1. 0 \in S
  <2>1. a + 0 = a /\ 0 \in 0..(b - a)
    OBVIOUS
  <2> QED
    BY <1>0, <2>1
<1>2. ASSUME NEW n \in 0..(b - a) - 1, n \in S PROVE n + 1 \in S
  <2>1. /\ n + 1 \in 0..(b - a) /\ a + (n + 1) \in 1..c /\ a + n \in 0..c
        /\ (a + (n + 1)) - 1 = a + n
    OBVIOUS
  <2>2. SumOf(w, a + (n + 1)) = SumOf(w, a + n) + w[a + (n + 1)]
    BY <2>1, SumStep
  <2>3. SumOf(w, a + n) \in Nat /\ w[a + (n + 1)] \in Nat
    BY <2>1, SumIsNat
  <2>4. SumOf(w, a) <= SumOf(w, a + n)
    BY <1>2
  <2>5. SumOf(w, a) <= SumOf(w, a + (n + 1))
    BY <1>0, <2>2, <2>3, <2>4
  <2> QED
    BY <2>1, <2>5
<1> HIDE DEF S
<1>3. b - a \in S
  <2>1. b - a \in 0..(b - a)
    OBVIOUS
  <2>2. PICK e \in Nat : e = b - a
    BY <1>0
  <2> QED
    BY <1>1, <1>2, <2>1, <2>2, UpTo
<1>4. a + (b - a) = b
  OBVIOUS
<1> QED
  BY <1>3, <1>4 DEF S

(* A sum of equals is a product.                                             *)
LEMMA SumOfEquals ==
  ASSUME NEW c \in Nat, NEW w \in [1..c -> Nat], NEW x \in Nat, \A n \in 1..c : w[n] = x,
         NEW m \in 0..c
  PROVE  SumOf(w, m) = x * m
<1> DEFINE S == { n \in 0..m : SumOf(w, n) = x * n }
<1>1. 0 \in S
  BY SumStep
<1>2. ASSUME NEW n \in 0..m - 1, n \in S PROVE n + 1 \in S
  <2>1. n + 1 \in 0..m /\ n + 1 \in 1..c /\ (n + 1) - 1 = n
    OBVIOUS
  <2>2. SumOf(w, n + 1) = SumOf(w, n) + w[n + 1] /\ w[n + 1] = x
    BY <2>1, SumStep
  <2>3. x * (n + 1) = x * n + x
    OBVIOUS
  <2> QED
    BY <1>2, <2>1, <2>2, <2>3
<1> HIDE DEF S
<1>3. m \in S
  <2>1. m \in 0..m /\ m \in Nat
    OBVIOUS
  <2> QED
    BY <1>1, <1>2, <2>1, UpTo
<1> QED
  BY <1>3 DEF S

(* The sequences of ss, one behind the other.                                *)
Lens(ss) == [n \in DOMAIN ss |-> Len(ss[n])]

LEMMA LensAreNat ==
  ASSUME NEW S, NEW ss \in Seq(Seq(S))
  PROVE  Len(ss) \in Nat /\ Lens(ss) \in [1..Len(ss) -> Nat]
         /\ \A n \in 1..Len(ss) : ss[n] \in Seq(S) /\ Lens(ss)[n] = Len(ss[n])
<1>1. DOMAIN ss = 1..Len(ss) /\ Len(ss) \in Nat
  OBVIOUS
<1>2. \A n \in 1..Len(ss) : ss[n] \in Seq(S)
  BY SeqAt
<1>3. \A n \in 1..Len(ss) : Len(ss[n]) \in Nat
  BY <1>2
<1> QED
  BY <1>1, <1>2, <1>3 DEF Lens

PartsUpTo(ss, m, t) ==
  /\ Len(t) = SumOf(Lens(ss), m)
  /\ \A n \in 1..m : \A x \in 1..Len(ss[n]) : t[SumOf(Lens(ss), n - 1) + x] = ss[n][x]

LEMMA PartsStep ==
  ASSUME NEW S, NEW ss \in Seq(Seq(S)), NEW m \in 1..Len(ss), NEW t \in Seq(S),
         PartsUpTo(ss, m - 1, t)
  PROVE  t \o ss[m] \in Seq(S) /\ PartsUpTo(ss, m, t \o ss[m])
<1> DEFINE w == Lens(ss)
           c == Len(ss)
           q == ss[m]
           u == t \o q
           L == Len(t)
<1>1. /\ c \in Nat /\ w \in [1..c -> Nat]
      /\ \A n \in 1..c : ss[n] \in Seq(S) /\ w[n] = Len(ss[n])
  BY LensAreNat
<1> HIDE DEF w
<1>2. q \in Seq(S) /\ w[m] = Len(q)
  BY <1>1
<1> HIDE DEF q
<1>3. u \in Seq(S) /\ Behind(u, t, q)
  BY <1>2, ConcatAt
<1> HIDE DEF u
<1>4. L = SumOf(w, m - 1) /\ L \in Nat
  BY DEF PartsUpTo, w
<1>5. SumOf(w, m) = SumOf(w, m - 1) + w[m]
  BY <1>1, SumStep
<1>6. Len(u) = SumOf(w, m)
  BY <1>2, <1>3, <1>4, <1>5 DEF Behind
<1>7. ASSUME NEW n \in 1..m, NEW x \in 1..Len(ss[n]) PROVE u[SumOf(w, n - 1) + x] = ss[n][x]
  <2>1. CASE n = m
    <3>1. x \in 1..Len(q) /\ ss[n][x] = q[x]
      BY <2>1 DEF q
    <3>2. u[L + x] = q[x]
      BY <1>3, <3>1 DEF Behind
    <3> QED
      BY <1>4, <2>1, <3>1, <3>2
  <2>2. CASE n # m
    <3>1. n \in 1..m - 1 /\ n \in 1..c /\ n - 1 \in 0..c /\ m - 1 \in 0..c /\ n <= m - 1
          /\ n \in 0..c
      BY <1>1, <2>2
    <3>2. t[SumOf(w, n - 1) + x] = ss[n][x]
      BY <3>1 DEF PartsUpTo, w
    <3> DEFINE p == SumOf(w, n - 1)
    <3>3. p \in Nat /\ SumOf(w, n) = p + w[n] /\ SumOf(w, n) <= SumOf(w, m - 1)
      <4>1. SumOf(w, n) <= SumOf(w, m - 1)
        <5>1. PICK b : b = m - 1
          OBVIOUS
        <5> QED
          BY <1>1, <3>1, <5>1, SumGrows
      <4> QED
        BY <1>1, <3>1, <4>1, SumIsNat, SumStep
    <3> HIDE DEF p
    <3>4. w[n] = Len(ss[n]) /\ x \in 1..w[n] /\ w[n] \in Nat
      BY <1>1, <3>1
    <3>5. p + x \in 1..L
      BY <1>4, <3>3, <3>4
    <3>6. u[p + x] = t[p + x]
      BY <1>3, <3>5 DEF Behind
    <3> QED
      BY <3>2, <3>6 DEF p
  <2> QED
    BY <2>1, <2>2
<1>8. PartsUpTo(ss, m, u)
  BY <1>6, <1>7 DEF PartsUpTo, w
<1> QED
  BY <1>3, <1>8 DEF u, q

LEMMA FlattenRuns ==
  ASSUME NEW S, NEW ss \in Seq(Seq(S)), Len(ss) # 0
  PROVE  \E g : /\ g[1] = ss[1] /\ \A n \in 2..Len(ss) : g[n] = g[n - 1] \o ss[n]
                /\ FlattenSeq(ss) = g[Len(ss)]
<1> DEFINE c == Len(ss)
           V == Seq(S)
           Add(v, n) == v \o ss[n]
           step == [n \in 1..c |-> [v \in V |-> Add(v, n)]]
           Body(f) == [n \in 1..c |-> IF n = 1 THEN ss[n] ELSE f[n - 1] \o ss[n]]
           g == CHOOSE f : f = Body(f)
<1>1. FlattenSeq(ss) = g[c]
  BY DEF FlattenSeq
<1>2. c \in Nat /\ c >= 1 /\ <<>> \in V /\ \A n \in 1..c : ss[n] \in V
  <2>1. \A n \in 1..c : ss[n] \in Seq(S)
    BY SeqAt
  <2> QED
    BY <2>1
<1>3. \A v \in V : \A n \in 1..c : Add(v, n) \in V
  <2>1. ASSUME NEW v \in Seq(S), NEW x \in Seq(S) PROVE v \o x \in Seq(S)
    OBVIOUS
  <2> QED
    BY <1>2, <2>1
<1>z. \A v \in V : <<>> \o v = v
  OBVIOUS
<1> HIDE DEF c, V
<1>4. step \in [1..c -> [V -> V]]
  <2> HIDE DEF Add
  <2> QED
    BY <1>3
<1>5. PICK z : z = <<>>
  OBVIOUS
<1>6. PICK f : Recurses(f, c, z, step)
  <2> HIDE DEF step
  <2> QED
    BY <1>2, <1>4, <1>5, RecursionFromBefore
<1>7. RunsIn(f, c, V, z, step)
  <2> HIDE DEF step
  <2> QED
    BY <1>2, <1>4, <1>5, <1>6, RecursionIs
<1> DEFINE e == [n \in 1..c |-> f[n]]
<1>8. ASSUME NEW n \in 1..c
      PROVE  e[n] = IF n = 1 THEN ss[n] ELSE e[n - 1] \o ss[n]
  <2>1. n - 1 \in 0..c /\ n - 1 \in Nat
    BY <1>2
  <2>2. f[n] = Add(f[n - 1], n) /\ f[n - 1] \in V
    <3>1. f \in [0..c -> V] /\ f[n] = step[n][f[n - 1]]
      BY <1>7 DEF RunsIn
    <3> HIDE DEF Add
    <3> QED
      BY <2>1, <3>1
  <2>3. CASE n = 1
    <3>1. f[n - 1] = z
      BY <1>7, <2>3 DEF RunsIn
    <3>2. f[n] = ss[n]
      BY <1>2, <1>5, <1>z, <2>2, <3>1
    <3> QED
      BY <2>3, <3>2
  <2>4. CASE n # 1
    <3>1. n - 1 \in 1..c
      BY <1>2, <2>4
    <3>2. e[n - 1] = f[n - 1] /\ e[n] = f[n]
      BY <3>1
    <3> HIDE DEF e
    <3> QED
      BY <2>2, <2>4, <3>2
  <2> QED
    BY <2>3, <2>4
<1>9. e = Body(e)
  <2>1. e = [n \in 1..c |-> e[n]]
    OBVIOUS
  <2> HIDE DEF e
  <2> QED
    BY <1>8, <2>1
<1>10. g = Body(g)
  <2> HIDE DEF e, Body
  <2> QED
    BY <1>9
<1> HIDE DEF g
<1>11. g[1] = ss[1]
  <2>1. 1 \in 1..c
    BY <1>2
  <2> QED
    BY <1>10, <2>1
<1>12. ASSUME NEW n \in 2..c PROVE g[n] = g[n - 1] \o ss[n]
  <2>1. n \in 1..c /\ n # 1
    BY <1>2
  <2> QED
    BY <1>10, <2>1
<1> QED
  BY <1>1, <1>11, <1>12 DEF c

(* FlattenSeq has the sequences one behind the other.                        *)
LEMMA FlattenIs ==
  ASSUME NEW S, NEW ss \in Seq(Seq(S))
  PROVE  FlattenSeq(ss) \in Seq(S) /\ PartsUpTo(ss, Len(ss), FlattenSeq(ss))
<1> DEFINE c == Len(ss)
           w == Lens(ss)
<1>1. /\ c \in Nat /\ w \in [1..c -> Nat]
      /\ \A n \in 1..c : ss[n] \in Seq(S) /\ w[n] = Len(ss[n])
  BY LensAreNat
<1>2. <<>> \in Seq(S) /\ PartsUpTo(ss, 0, <<>>)
  <2>1. SumOf(w, 0) = 0
    <3> HIDE DEF w, c
    <3> QED
      BY <1>1, SumStep
  <2>2. Len(<<>>) = SumOf(Lens(ss), 0) /\ \A n \in 1..0 : FALSE
    BY <2>1
  <2> QED
    BY <2>2 DEF PartsUpTo
<1>3. CASE c = 0
  <2>1. ss = <<>> /\ FlattenSeq(ss) = ss
    BY <1>3 DEF FlattenSeq
  <2> QED
    BY <1>2, <1>3, <2>1
<1>4. CASE c # 0
  <2>1. PICK g : /\ g[1] = ss[1] /\ \A n \in 2..c : g[n] = g[n - 1] \o ss[n]
                 /\ FlattenSeq(ss) = g[c]
    BY <1>4, FlattenRuns
  <2> DEFINE Ok == { n \in 0..c - 1 : g[n + 1] \in Seq(S) /\ PartsUpTo(ss, n + 1, g[n + 1]) }
  <2> HIDE DEF w, c
  <2>2. 0 \in Ok
    <3>1. 1 \in 1..c /\ 1 - 1 = 0 /\ 0 \in 0..c - 1 /\ 0 + 1 = 1
      BY <1>1, <1>4
    <3>2. <<>> \o ss[1] = ss[1] /\ ss[1] \in Seq(S)
      <4>1. ss[1] \in Seq(S)
        BY <1>1, <3>1
      <4> QED
        BY <4>1
    <3>3. PICK o : o = 1
      OBVIOUS
    <3>4. o \in 1..Len(ss) /\ o - 1 = 0
      BY <3>1, <3>3 DEF c
    <3>5. PartsUpTo(ss, o - 1, <<>>)
      BY <1>2, <3>4
    <3>6. <<>> \o ss[o] \in Seq(S) /\ PartsUpTo(ss, o, <<>> \o ss[o])
      BY <1>2, <3>4, <3>5, PartsStep
    <3>7. g[1] \in Seq(S) /\ PartsUpTo(ss, 1, g[1])
      BY <2>1, <3>2, <3>3, <3>6
    <3> QED
      BY <3>1, <3>7
  <2>3. ASSUME NEW n \in 0..(c - 1) - 1, n \in Ok PROVE n + 1 \in Ok
    <3>0. PICK p : p = n + 1
      OBVIOUS
    <3>1. /\ p \in 0..c - 1 /\ p + 1 \in 2..c /\ p + 1 \in 1..c /\ (p + 1) - 1 = p
      BY <1>1, <3>0
    <3>2. g[p] \in Seq(S) /\ PartsUpTo(ss, p, g[p])
      BY <2>3, <3>0
    <3>3. g[p + 1] = g[p] \o ss[p + 1]
      BY <2>1, <3>1
    <3>4. PICK r : r = p + 1
      OBVIOUS
    <3>5. r \in 1..Len(ss) /\ r - 1 = p
      BY <3>1, <3>4 DEF c
    <3>6. PartsUpTo(ss, r - 1, g[p])
      BY <3>2, <3>5
    <3>7. g[p] \o ss[r] \in Seq(S) /\ PartsUpTo(ss, r, g[p] \o ss[r])
      BY <3>2, <3>5, <3>6, PartsStep
    <3>8. g[p + 1] \in Seq(S) /\ PartsUpTo(ss, p + 1, g[p + 1])
      BY <3>3, <3>4, <3>7
    <3> QED
      BY <3>0, <3>1, <3>8
  <2> HIDE DEF Ok
  <2>4. c - 1 \in Ok
    <3>1. PICK d \in Nat : d = c - 1
      BY <1>1, <1>4
    <3>2. d \in 0..d
      OBVIOUS
    <3> QED
      BY <2>2, <2>3, <3>1, <3>2, UpTo
  <2>5. (c - 1) + 1 = c
    BY <1>1
  <2> QED
    BY <2>1, <2>4, <2>5 DEF Ok, c
<1> QED
  BY <1>3, <1>4

(* And nothing else.                                                         *)
LEMMA PlaceIsIn ==
  ASSUME NEW S, NEW ss \in Seq(Seq(S)), NEW t \in 1..SumOf(Lens(ss), Len(ss))
  PROVE  \E n \in 1..Len(ss) : \E x \in 1..Len(ss[n]) : t = SumOf(Lens(ss), n - 1) + x
<1> DEFINE c == Len(ss)
           w == Lens(ss)
           Up == { n \in 0..c : t <= SumOf(w, n) }
<1>1. /\ c \in Nat /\ w \in [1..c -> Nat]
      /\ \A n \in 1..c : ss[n] \in Seq(S) /\ w[n] = Len(ss[n])
  BY LensAreNat
<1>2. t \in 1..SumOf(w, c)
  OBVIOUS
<1> HIDE DEF c, w
<1>3. Up \in SUBSET Nat /\ c \in Up
  <2>1. c \in 0..c /\ SumOf(w, c) \in Nat
    BY <1>1, SumIsNat
  <2> QED
    BY <1>1, <1>2, <2>1
<1>4. PICK b \in Up : \A n \in Up : b <= n
  <2> HIDE DEF Up
  <2> QED
    BY <1>3, LowestExists
<1>5. b \in 0..c /\ t <= SumOf(w, b) /\ t \in Nat /\ t >= 1
  <2>1. SumOf(w, c) \in Nat
    BY <1>1, <1>3, SumIsNat
  <2> QED
    BY <1>2, <2>1
<1>6. b \in 1..c
  <2>1. SumOf(w, 0) = 0
    BY <1>1, SumStep
  <2>2. b # 0
    BY <1>5, <2>1
  <2> QED
    BY <1>1, <1>5, <2>2
<1>7. b - 1 \in 0..c /\ b - 1 \notin Up
  BY <1>1, <1>4, <1>6
<1> DEFINE p == SumOf(w, b - 1)
<1>8. p \in Nat /\ ~(t <= p) /\ SumOf(w, b) = p + w[b] /\ w[b] = Len(ss[b]) /\ w[b] \in Nat
  BY <1>1, <1>6, <1>7, SumIsNat, SumStep
<1> HIDE DEF p
<1>9. t - p \in 1..Len(ss[b]) /\ t = p + (t - p)
  BY <1>5, <1>8
<1> QED
  BY <1>6, <1>9 DEF p, c, w

(* t is in s, behind the first o members of s.                               *)
At(s, o, t) == o + Len(t) <= Len(s) /\ \A x \in 1..Len(t) : s[o + x] = t[x]

LEMMA AtAll ==
  ASSUME NEW S, NEW s \in Seq(S)
  PROVE  At(s, 0, s)
BY DEF At

LEMMA AtInside ==
  ASSUME NEW S, NEW s \in Seq(S), NEW t \in Seq(S), NEW v \in Seq(S), NEW a \in Nat,
         NEW b \in Nat, At(s, a, t), At(t, b, v)
  PROVE  At(s, a + b, v)
<1> DEFINE L == Len(s)
           K == Len(t)
           J == Len(v)
<1>1. L \in Nat /\ K \in Nat /\ J \in Nat
  OBVIOUS
<1>2. a + K <= L /\ b + J <= K
  BY DEF At
<1>3. (a + b) + J <= L
  <2> HIDE DEF L, K, J
  <2> QED
    BY <1>1, <1>2
<1>4. ASSUME NEW x \in 1..J PROVE s[(a + b) + x] = v[x]
  <2>1. b + x \in 1..K /\ a + (b + x) = (a + b) + x
    <3> HIDE DEF L, K, J
    <3> QED
      BY <1>1, <1>2
  <2>2. t[b + x] = v[x]
    BY DEF At
  <2>3. s[a + (b + x)] = t[b + x]
    BY <2>1 DEF At
  <2> QED
    BY <2>1, <2>2, <2>3
<1> QED
  BY <1>3, <1>4 DEF At

LEMMA AtLeft ==
  ASSUME NEW S, NEW u \in Seq(S), NEW v \in Seq(S), NEW o \in Nat, NEW t \in Seq(S), At(u, o, t)
  PROVE  At(u \o v, o, t)
<1> DEFINE s == u \o v
<1>1. s \in Seq(S) /\ Behind(s, u, v)
  BY ConcatAt
<1> HIDE DEF s
<1>2. Len(u) \in Nat /\ Len(v) \in Nat /\ Len(t) \in Nat
  OBVIOUS
<1>3. o + Len(t) <= Len(u) /\ Len(s) = Len(u) + Len(v)
  BY <1>1 DEF Behind, At
<1>4. o + Len(t) <= Len(s)
  <2> DEFINE x == Len(u)
             y == Len(v)
             z == Len(t)
             q == Len(s)
  <2>1. x \in Nat /\ y \in Nat /\ z \in Nat /\ o + z <= x /\ q = x + y
    BY <1>2, <1>3
  <2> HIDE DEF x, y, z, q
  <2>2. o + z <= q
    BY <2>1
  <2> QED
    BY <2>2 DEF z, q
<1>5. ASSUME NEW x \in 1..Len(t) PROVE s[o + x] = t[x]
  <2>1. o + x \in 1..Len(u)
    BY <1>2, <1>3
  <2>2. s[o + x] = u[o + x]
    BY <1>1, <2>1 DEF Behind
  <2>3. u[o + x] = t[x]
    BY DEF At
  <2> QED
    BY <2>2, <2>3
<1> QED
  BY <1>4, <1>5 DEF At, s

LEMMA AtRight ==
  ASSUME NEW S, NEW u \in Seq(S), NEW v \in Seq(S), NEW o \in Nat, NEW t \in Seq(S), At(v, o, t)
  PROVE  At(u \o v, Len(u) + o, t)
<1> DEFINE s == u \o v
           L == Len(u)
<1>1. s \in Seq(S) /\ Behind(s, u, v)
  BY ConcatAt
<1> HIDE DEF s
<1>2. L \in Nat /\ Len(v) \in Nat /\ Len(t) \in Nat
  OBVIOUS
<1>3. Len(s) = L + Len(v) /\ At(s, L, v)
  <2>1. Len(s) = L + Len(v) /\ \A x \in 1..Len(v) : s[L + x] = v[x]
    BY <1>1 DEF Behind
  <2>2. L + Len(v) <= Len(s)
    <3> HIDE DEF L
    <3> QED
      BY <1>2, <2>1
  <2> QED
    BY <2>1, <2>2 DEF At
<1> HIDE DEF L
<1>4. At(s, L + o, t)
  BY <1>1, <1>2, <1>3, AtInside
<1> QED
  BY <1>4 DEF s, L

LEMMA AtPart ==
  ASSUME NEW S, NEW ss \in Seq(Seq(S)), NEW n \in 1..Len(ss)
  PROVE  /\ ss[n] \in Seq(S) /\ SumOf(Lens(ss), n - 1) \in Nat
         /\ At(FlattenSeq(ss), SumOf(Lens(ss), n - 1), ss[n])
<1> DEFINE w == Lens(ss)
           c == Len(ss)
           s == FlattenSeq(ss)
           p == SumOf(w, n - 1)
<1>1. /\ c \in Nat /\ w \in [1..c -> Nat]
      /\ \A m \in 1..c : ss[m] \in Seq(S) /\ w[m] = Len(ss[m])
  BY LensAreNat
<1>2. s \in Seq(S) /\ PartsUpTo(ss, c, s)
  BY FlattenIs
<1>3. Len(s) = SumOf(w, c) /\ \A x \in 1..Len(ss[n]) : s[p + x] = ss[n][x]
  BY <1>2 DEF PartsUpTo
<1>4. n \in 1..c /\ n - 1 \in 0..c /\ n \in 0..c /\ c \in 0..c /\ n <= c
  BY <1>1
<1> HIDE DEF w, c, s
<1>5. p \in Nat /\ SumOf(w, n) = p + w[n] /\ SumOf(w, n) <= SumOf(w, c)
  <2>1. SumOf(w, n) <= SumOf(w, c)
    BY <1>1, <1>4, SumGrows
  <2>2. p \in Nat /\ SumOf(w, n) = p + w[n]
    BY <1>1, <1>4, SumIsNat, SumStep
  <2> QED
    BY <2>1, <2>2
<1>6. w[n] = Len(ss[n]) /\ ss[n] \in Seq(S)
  BY <1>1, <1>4
<1>7. p + Len(ss[n]) <= Len(s)
  BY <1>3, <1>5, <1>6
<1> HIDE DEF p
<1>8. At(s, p, ss[n])
  BY <1>3, <1>7 DEF At
<1> QED
  BY <1>5, <1>6, <1>8 DEF s, p, w

(* Words.                                                                    *)
W32 == 0..M32 - 1

LEMMA WidthsAre ==
  /\ M32 \in Nat /\ M32 > 1 /\ M64 \in Nat /\ M64 = M32 * M32 /\ M32 < M64
  /\ (M32 \div 2) \in Nat /\ M32 = 2 * (M32 \div 2)
<1>1. M32 \in Nat /\ M32 > 1 /\ M32 % 2 = 0
  BY UintsAssumption
<1>2. M64 \in Nat /\ M64 = M32 * M32 /\ M32 < M64
  <2> DEFINE m == M32
  <2>1. m \in Nat /\ m > 1
    BY <1>1
  <2> HIDE DEF m
  <2>2. m * m \in Nat /\ m < m * m
    <3>1. m * m = m + m * (m - 1) /\ m * (m - 1) >= m - 1
      BY <2>1
    <3> QED
      BY <2>1, <3>1
  <2> QED
    BY <2>2 DEF M64, m
<1>3. (M32 \div 2) \in Nat /\ M32 = 2 * (M32 \div 2)
  BY <1>1
<1> QED
  BY <1>1, <1>2, <1>3

LEMMA HalvesAre ==
  ASSUME NEW n \in 0..M64 - 1
  PROVE  /\ n % M32 \in W32 /\ n \div M32 \in W32 /\ n = (n % M32) + M32 * (n \div M32)
<1> DEFINE m == M32
           q == n \div m
           r == n % m
<1>1. m \in Nat /\ m > 1 /\ n \in Nat /\ n < m * m
  BY WidthsAre
<1> HIDE DEF m
<1>2. q \in Int /\ r \in 0..m - 1 /\ n = m * q + r
  BY <1>1
<1> HIDE DEF q, r
<1>3. q >= 0
  <2>1. q < 0 => m * q <= 0 - m
    BY <1>1, <1>2
  <2> QED
    BY <1>1, <1>2, <2>1
<1>4. q < m
  <2>1. q >= m => m * q >= m * m
    BY <1>1, <1>2
  <2>2. m * q \in Int /\ m * m \in Int
    BY <1>1, <1>2
  <2> QED
    BY <1>1, <1>2, <2>1, <2>2
<1>5. r + m * q = n /\ q \in 0..m - 1
  BY <1>1, <1>2, <1>3, <1>4
<1> QED
  BY <1>2, <1>5 DEF q, r, m, W32

(* Reading a number of two words gives what was written.                     *)
LEMMA Words64Are ==
  ASSUME NEW a, NEW n \in 0..M64 - 1
  PROVE  Words64(a, n) \in Seq(W32) /\ Len(Words64(a, n)) = 2
<1>1. n % M32 \in W32 /\ n \div M32 \in W32
  BY HalvesAre
<1> HIDE DEF W32
<1> QED
  BY <1>1 DEF Words64

LEMMA ReadU64 ==
  ASSUME NEW f, NEW a, f.order = a.order, f.words \in Seq(W32), NEW o \in Nat,
         NEW n \in 0..M64 - 1, At(f.words, o, Words64(a, n))
  PROVE  U64(f, o) = n
<1> DEFINE x == n % M32
           y == n \div M32
<1>1. x \in W32 /\ y \in W32 /\ n = x + M32 * y
  BY HalvesAre
<1> HIDE DEF x, y
<1>2. /\ Words64(a, n) = IF a.order = "LE" THEN <<x, y>> ELSE <<y, x>>
      /\ Len(Words64(a, n)) = 2
  BY DEF Words64, x, y
<1>3. Word(f, o) = Words64(a, n)[1] /\ Word(f, o + 1) = Words64(a, n)[2]
  <2>1. f.words[o + 1] = Words64(a, n)[1] /\ f.words[o + 2] = Words64(a, n)[2]
    BY <1>2 DEF At
  <2>2. (o + 1) + 1 = o + 2
    OBVIOUS
  <2> QED
    BY <2>1, <2>2 DEF Word
<1> QED
  BY <1>1, <1>2, <1>3 DEF U64

(* And one of one word.                                                      *)
LEMMA ReadWord ==
  ASSUME NEW f, NEW o \in Nat, NEW t, At(f.words, o, t), NEW x \in 1..Len(t)
  PROVE  Word(f, o + (x - 1)) = t[x]
<1>1. f.words[o + x] = t[x]
  BY DEF At
<1>2. x \in Int
  OBVIOUS
<1>3. (o + (x - 1)) + 1 = o + x
  BY <1>2
<1> QED
  BY <1>1, <1>3 DEF Word

LEMMA ReadI32 ==
  ASSUME NEW f, NEW o, NEW n \in 0..(M32 \div 2) - 1, Word(f, o) = n
  PROVE  I32(f, o) = n
<1>1. n < M32 \div 2
  BY WidthsAre
<1> QED
  BY <1>1 DEF I32

-----------------------------------------------------------------------------
(* The parts of an archive and where they are.                               *)
EncW(a) == [n \in DOMAIN Written(a) |-> EncryptionWords(Written(a)[n])]
Count(a) == Len(Written(a))

LEMMA ArchiveIs ==
  ASSUME NEW a, IsArchive(a)
  PROVE  /\ a.format \in Formats /\ a.order \in {"LE", "BE"} /\ a.has_crypto \in BOOLEAN
         /\ a.salt \in Nat /\ a.padding \in Nat /\ a.buckets \in Seq(Seq(Entry))
         /\ Len(a.buckets) \in Nat /\ Len(a.buckets) >= 1
         /\ FileSize(a) < M32
<1>1. a \in Archive /\ a.buckets # <<>> /\ FileSize(a) < M32
  BY DEF IsArchive
<1>2. /\ a.format \in Formats /\ a.order \in {"LE", "BE"} /\ a.has_crypto \in BOOLEAN
      /\ a.salt \in Nat /\ a.padding \in Nat /\ a.buckets \in Seq(Seq(Entry))
  BY <1>1 DEF Archive
<1>3. Len(a.buckets) \in Nat /\ Len(a.buckets) >= 1
  BY <1>1, <1>2
<1> QED
  BY <1>1, <1>2, <1>3

LEMMA EntryIs ==
  ASSUME NEW e \in Entry
  PROVE  /\ e.hash \in 0..M64 - 1 /\ e.offset \in 0..M64 - 1
         /\ e.size \in 0..(M32 \div 2) - 1 /\ e.unpadded \in 0..(M32 \div 2) - 1
         /\ e.encrypted \in BOOLEAN
         /\ e.ranges \in Seq([start : 0..M64 - 1, end : 0..M64 - 1])
BY DEF Entry

LEMMA WrittenIs ==
  ASSUME NEW a, IsArchive(a)
  PROVE  /\ Written(a) \in Seq(Entry) /\ Count(a) \in Nat /\ DOMAIN Written(a) = 1..Count(a)
         /\ PartsUpTo(a.buckets, Len(a.buckets), Written(a))
         /\ \A e \in 1..Count(a) : Written(a)[e] \in Entry /\ EntryFits(a, Written(a)[e])
<1>1. a.buckets \in Seq(Seq(Entry))
  BY ArchiveIs
<1>2. Written(a) \in Seq(Entry) /\ PartsUpTo(a.buckets, Len(a.buckets), Written(a))
  BY <1>1, FlattenIs DEF Written
<1>3. Count(a) \in Nat /\ DOMAIN Written(a) = 1..Count(a)
  BY <1>2 DEF Count
<1>4. ASSUME NEW e \in 1..Count(a) PROVE Written(a)[e] \in Entry
  BY <1>2, SeqAt DEF Count
<1>5. \A e \in 1..Count(a) : EntryFits(a, Written(a)[e])
  BY <1>3 DEF IsArchive
<1> QED
  BY <1>2, <1>3, <1>4, <1>5

LEMMA EncWIs ==
  ASSUME NEW a, IsArchive(a)
  PROVE  /\ EncW(a) \in [1..Count(a) -> Nat]
         /\ \A e \in 1..Count(a) : /\ Len(Written(a)[e].ranges) \in Nat
                                   /\ EncW(a)[e] = IF Written(a)[e].encrypted
                                        THEN 5 + 4 * Len(Written(a)[e].ranges) ELSE 0
<1>1. /\ DOMAIN Written(a) = 1..Count(a)
      /\ \A e \in 1..Count(a) : Written(a)[e] \in Entry
  BY WrittenIs
<1>2. ASSUME NEW e \in 1..Count(a) PROVE Len(Written(a)[e].ranges) \in Nat
  <2>1. Written(a)[e].ranges \in Seq([start : 0..M64 - 1, end : 0..M64 - 1])
    BY <1>1, EntryIs
  <2> QED
    BY <2>1
<1>3. ASSUME NEW e \in 1..Count(a)
      PROVE  /\ EncW(a)[e] = IF Written(a)[e].encrypted
                             THEN 5 + 4 * Len(Written(a)[e].ranges) ELSE 0
             /\ EncW(a)[e] \in Nat
  <2> DEFINE l == Len(Written(a)[e].ranges)
  <2>1. l \in Nat
    BY <1>2
  <2>2. EncW(a)[e] = EncryptionWords(Written(a)[e])
    BY <1>1 DEF EncW
  <2>3. EncryptionWords(Written(a)[e]) = IF Written(a)[e].encrypted THEN 4 + 1 + 4 * l ELSE 0
    BY DEF EncryptionWords, KeyWords
  <2> HIDE DEF l
  <2>4. EncW(a)[e] = IF Written(a)[e].encrypted THEN 5 + 4 * l ELSE 0
    BY <2>1, <2>2, <2>3
  <2>5. EncW(a)[e] \in Nat
    BY <2>1, <2>4
  <2> QED
    BY <2>4, <2>5 DEF l
<1>4. EncW(a) \in [1..Count(a) -> Nat]
  <2>1. EncW(a) = [n \in 1..Count(a) |-> EncW(a)[n]]
    BY <1>1 DEF EncW
  <2> QED
    BY <1>3, <2>1
<1> QED
  BY <1>2, <1>3, <1>4

LEMMA WordCounts ==
  ASSUME NEW f \in Formats
  PROVE  /\ BucketWords(f) = (IF f = "DarkSoulsRemastered" THEN 4 ELSE 2)
         /\ EntryWords(f) = (IF f \in {"DarkSouls", "DarkSoulsRemastered"} THEN 4
                             ELSE IF f = "DarkSouls2" THEN 8 ELSE 10)
         /\ BucketWords(f) \in Nat /\ BucketWords(f) >= 2
         /\ EntryWords(f) \in Nat /\ EntryWords(f) >= 4
<1>1. EntryWords(f) = (IF f \in {"DarkSouls", "DarkSoulsRemastered"} THEN 4
                       ELSE IF f = "DarkSouls2" THEN 8 ELSE 10)
  BY DEF EntryWords, IsDs1, Formats
<1>2. BucketWords(f) = (IF f = "DarkSoulsRemastered" THEN 4 ELSE 2)
  BY DEF BucketWords
<1> QED
  BY <1>1, <1>2

EncryptionStart(a) == EntriesAt(a) + EntryWords(a.format) * Count(a)

(* All of it fits into words.                                                *)
LEMMA PlacesAre ==
  ASSUME NEW a, IsArchive(a)
  PROVE  /\ BucketsAt(a) \in Nat /\ BucketsAt(a) >= 6
         /\ EntriesAt(a) \in Nat
         /\ EntriesAt(a) = BucketsAt(a) + BucketWords(a.format) * Len(a.buckets)
         /\ EntriesAt(a) >= 8
         /\ EncryptionStart(a) \in Nat /\ EncryptionStart(a) >= EntriesAt(a)
         /\ FileSize(a) \in Nat /\ FileSize(a) = EncryptionStart(a) + SumOf(EncW(a), Count(a))
         /\ FileSize(a) \in W32
         /\ FileSize(a) >= EncryptionStart(a)
<1>1. /\ a.format \in Formats /\ a.salt \in Nat /\ Len(a.buckets) \in Nat
      /\ Len(a.buckets) >= 1 /\ FileSize(a) < M32
  BY ArchiveIs
<1>2. BucketWords(a.format) \in Nat /\ BucketWords(a.format) >= 2
      /\ EntryWords(a.format) \in Nat /\ EntryWords(a.format) >= 4
      /\ (a.format = "DarkSoulsRemastered" => BucketWords(a.format) = 4)
  BY <1>1, WordCounts
<1>3. /\ BucketsAt(a) \in Nat /\ BucketsAt(a) >= 6
  BY <1>1 DEF BucketsAt, Formats
<1>4. EntriesAt(a) = BucketsAt(a) + BucketWords(a.format) * Len(a.buckets)
  <2>1. Len(a.buckets) * BucketWords(a.format) = BucketWords(a.format) * Len(a.buckets)
    BY <1>1, <1>2
  <2> QED
    BY <2>1 DEF EntriesAt
<1>5. EntriesAt(a) \in Nat /\ EntriesAt(a) >= 8
  <2> DEFINE x == BucketsAt(a)
             y == BucketWords(a.format)
             z == Len(a.buckets)
  <2>1. x \in Nat /\ x >= 6 /\ y \in Nat /\ y >= 2 /\ z \in Nat /\ z >= 1
    BY <1>1, <1>2, <1>3
  <2> HIDE DEF x, y, z
  <2>2. y * z \in Nat /\ y * z >= y
    BY <2>1
  <2>3. x + y * z \in Nat /\ x + y * z >= 8
    BY <2>1, <2>2
  <2> QED
    BY <1>4, <2>3 DEF x, y, z
<1>6. Count(a) \in Nat
  BY WrittenIs
<1>7. EncryptionStart(a) \in Nat /\ EncryptionStart(a) >= EntriesAt(a)
  <2> DEFINE x == EntriesAt(a)
             y == EntryWords(a.format)
             z == Count(a)
  <2>1. x \in Nat /\ y \in Nat /\ z \in Nat
    BY <1>2, <1>5, <1>6
  <2> HIDE DEF x, y, z
  <2>2. y * z \in Nat
    BY <2>1
  <2>3. x + y * z \in Nat /\ x + y * z >= x
    BY <2>1, <2>2
  <2> QED
    BY <2>3 DEF x, y, z, EncryptionStart
<1>8. FileSize(a) = EncryptionStart(a) + SumOf(EncW(a), Count(a))
  <2>1. (Count(a) + 1) - 1 = Count(a)
    BY <1>6
  <2>2. FileSize(a) = EncryptionStart(a) + SumOf(EncW(a), (Count(a) + 1) - 1)
    BY DEF FileSize, EncryptionAt, EncryptionStart, EncW, Count
  <2> QED
    BY <2>1, <2>2
<1>9. SumOf(EncW(a), Count(a)) \in Nat
  <2>1. Count(a) \in 0..Count(a) /\ EncW(a) \in [1..Count(a) -> Nat]
    BY <1>6, EncWIs
  <2> QED
    BY <1>6, <2>1, SumIsNat
<1>10. FileSize(a) \in Nat /\ FileSize(a) >= EncryptionStart(a)
  BY <1>7, <1>8, <1>9
<1> QED
  BY <1>1, <1>3, <1>4, <1>5, <1>7, <1>8, <1>10, WidthsAre DEF W32

(* An entry's encryption is behind the entries.                              *)
LEMMA EncryptionIsAt ==
  ASSUME NEW a, IsArchive(a), NEW e \in 1..Count(a)
  PROVE  /\ EncryptionAt(a, e) = EncryptionStart(a) + SumOf(EncW(a), e - 1)
         /\ EncryptionAt(a, e) \in Nat /\ EncryptionAt(a, e) >= EncryptionStart(a)
         /\ EncryptionAt(a, e) + EncW(a)[e] <= FileSize(a)
         /\ EncW(a)[e] \in Nat
<1> DEFINE c == Count(a)
           w == EncW(a)
           p == SumOf(w, e - 1)
           s == EncryptionStart(a)
<1>1. c \in Nat /\ w \in [1..c -> Nat]
  BY WrittenIs, EncWIs
<1>2. s \in Nat /\ FileSize(a) = s + SumOf(w, c)
  BY PlacesAre
<1>3. EncryptionAt(a, e) = s + p
  BY DEF EncryptionAt, EncryptionStart, EncW, Count
<1>4. e \in 1..c
  OBVIOUS
<1> HIDE DEF c, w, s
<1>5. e - 1 \in 0..c /\ e \in 0..c /\ c \in 0..c /\ e <= c
  BY <1>1, <1>4
<1>6. p \in Nat /\ SumOf(w, e) = p + w[e] /\ w[e] \in Nat /\ SumOf(w, c) \in Nat
  BY <1>1, <1>4, <1>5, SumIsNat, SumStep
<1>7. SumOf(w, e) <= SumOf(w, c)
  BY <1>1, <1>5, SumGrows
<1> HIDE DEF p
<1>8. s + p \in Nat /\ s + p >= s /\ (s + p) + w[e] <= s + SumOf(w, c)
  BY <1>2, <1>6, <1>7
<1> QED
  BY <1>2, <1>3, <1>6, <1>8 DEF s, p, w

(* Where a bucket's entries are, and an en's encryption if it has one.    *)
BucketAt(a, b) == EntriesAt(a) + EntryWords(a.format) * SumOf(Lens(a.buckets), b - 1)
CryptoAt(a, e) == IF Written(a)[e].encrypted THEN EncryptionAt(a, e) ELSE 0

LEMMA CryptoIsWord ==
  ASSUME NEW a, IsArchive(a), NEW e \in 1..Count(a)
  PROVE  /\ CryptoAt(a, e) \in W32 /\ CryptoAt(a, e) \in 0..M64 - 1
         /\ Written(a)[e].encrypted => CryptoAt(a, e) # 0
         /\ CryptoAt(a, e) < FileSize(a)
<1>1. /\ EncryptionAt(a, e) \in Nat /\ EncryptionAt(a, e) >= EncryptionStart(a)
      /\ EncryptionAt(a, e) + EncW(a)[e] <= FileSize(a) /\ EncW(a)[e] \in Nat
  BY EncryptionIsAt
<1>2. /\ EncryptionStart(a) \in Nat /\ EncryptionStart(a) >= EntriesAt(a) /\ EntriesAt(a) >= 8
      /\ FileSize(a) \in W32 /\ EntriesAt(a) \in Nat /\ FileSize(a) >= EncryptionStart(a)
  BY PlacesAre
<1>3. /\ Len(Written(a)[e].ranges) \in Nat
      /\ Written(a)[e].encrypted => EncW(a)[e] = 5 + 4 * Len(Written(a)[e].ranges)
  BY EncWIs
<1>4. M32 \in Nat /\ M64 \in Nat /\ M32 < M64
  BY WidthsAre
<1> DEFINE x == EncryptionAt(a, e)
           f == FileSize(a)
           z == EncW(a)[e]
<1>5. Written(a)[e].encrypted => z >= 5
  BY <1>3
<1>6. /\ x \in Nat /\ x >= 8 /\ x + z <= f /\ z \in Nat /\ f \in Nat /\ f < M32 /\ f >= 8
  BY <1>1, <1>2, <1>4 DEF W32
<1> HIDE DEF x, f, z
<1>7. Written(a)[e].encrypted => x # 0 /\ x < f /\ x \in 0..M32 - 1 /\ x \in 0..M64 - 1
  BY <1>4, <1>5, <1>6
<1>8. 0 < f /\ 0 \in 0..M32 - 1 /\ 0 \in 0..M64 - 1
  BY <1>4, <1>6
<1> QED
  BY <1>7, <1>8 DEF x, f, CryptoAt, W32

LEMMA BucketIsAt ==
  ASSUME NEW a, IsArchive(a), NEW b \in 1..Len(a.buckets)
  PROVE  /\ BucketAt(a, b) \in Nat /\ BucketAt(a, b) >= EntriesAt(a)
         /\ SumOf(Lens(a.buckets), b - 1) \in Nat /\ Len(a.buckets[b]) \in Nat
         /\ SumOf(Lens(a.buckets), b - 1) + Len(a.buckets[b]) <= Count(a)
         /\ BucketAt(a, b) + EntryWords(a.format) * Len(a.buckets[b]) <= EncryptionStart(a)
         /\ BucketAt(a, b) \in W32 /\ Len(a.buckets[b]) \in 0..(M32 \div 2) - 1
<1> DEFINE w == Lens(a.buckets)
           c == Len(a.buckets)
           p == SumOf(w, b - 1)
           y == EntryWords(a.format)
           l == Len(a.buckets[b])
           s == EntriesAt(a)
           n == Count(a)
<1>1. a.buckets \in Seq(Seq(Entry)) /\ a.format \in Formats
  BY ArchiveIs
<1>2. /\ c \in Nat /\ w \in [1..c -> Nat] /\ \A m \in 1..c : w[m] = Len(a.buckets[m])
  BY <1>1, LensAreNat
<1>3. n = SumOf(w, c)
  BY WrittenIs DEF PartsUpTo, Count
<1>4. y \in Nat /\ y >= 4
  BY <1>1, WordCounts
<1>5. /\ s \in Nat /\ EncryptionStart(a) = s + y * n /\ FileSize(a) >= EncryptionStart(a)
      /\ FileSize(a) \in W32 /\ n \in Nat
  BY PlacesAre, WrittenIs DEF EncryptionStart
<1>6. w[b] = l /\ b \in 1..c
  BY <1>2
<1> HIDE DEF w, c, y, l, s, n
<1>7. b - 1 \in 0..c /\ b \in 0..c /\ c \in 0..c /\ b <= c
  BY <1>2, <1>6
<1>8. p \in Nat /\ SumOf(w, b) = p + l /\ l \in Nat /\ SumOf(w, b) <= n
  <2>1. p \in Nat /\ SumOf(w, b) = p + w[b] /\ w[b] \in Nat
    BY <1>2, <1>6, <1>7, SumIsNat, SumStep
  <2>2. SumOf(w, b) <= SumOf(w, c)
    BY <1>2, <1>7, SumGrows
  <2> QED
    BY <1>3, <1>6, <2>1, <2>2
<1> HIDE DEF p
<1>9. y * p \in Nat /\ y * l \in Nat /\ y * p + y * l <= y * n
  <2>1. p + l <= n
    BY <1>8
  <2>2. y * p \in Nat /\ y * l \in Nat /\ y * (p + l) = y * p + y * l
    BY <1>4, <1>8
  <2>3. y * (p + l) <= y * n
    BY <1>4, <1>5, <1>8, <2>1
  <2> QED
    BY <2>2, <2>3
<1> DEFINE yp == y * p
           yl == y * l
           yn == y * n
<1>y. yp \in Nat /\ yl \in Nat /\ yn \in Nat /\ yp + yl <= yn /\ yl >= 4 * l
  <2>1. y * n \in Nat /\ y * l >= 4 * l
    BY <1>4, <1>5, <1>8
  <2> QED
    BY <1>9, <2>1
<1>x. EncryptionStart(a) = s + yn
  BY <1>5
<1> HIDE DEF yp, yl, yn
<1>10. s + yp \in Nat /\ s + yp >= s /\ s + yp + yl <= s + yn
  BY <1>5, <1>y
<1>11. M32 \in Nat /\ M32 = 2 * (M32 \div 2) /\ (M32 \div 2) \in Nat
  BY WidthsAre
<1>12. s + yn < M32
  <2> DEFINE f == FileSize(a)
  <2>1. f \in Nat /\ f < M32 /\ f >= s + yn
    BY <1>5, <1>11, <1>x DEF W32
  <2> HIDE DEF f
  <2> QED
    BY <1>5, <1>11, <1>y, <2>1
<1>13. s + yp \in W32
  BY <1>5, <1>y, <1>11, <1>12 DEF W32
<1>14. l \in 0..(M32 \div 2) - 1
  <2> DEFINE h == M32 \div 2
  <2>1. h \in Nat /\ M32 = 2 * h
    BY <1>11
  <2> HIDE DEF h
  <2>2. l < h
    BY <1>5, <1>8, <1>y, <1>12, <2>1
  <2>3. l \in 0..h - 1
    BY <1>8, <2>1, <2>2
  <2> QED
    BY <2>3 DEF h
<1>15. BucketAt(a, b) = s + yp
  BY DEF BucketAt, p, w, y, s, yp
<1>16. BucketAt(a, b) + yl <= EncryptionStart(a)
  BY <1>10, <1>15, <1>x
<1>17. EntryWords(a.format) * Len(a.buckets[b]) = yl
  BY DEF yl, y, l
<1> QED
  BY <1>8, <1>10, <1>13, <1>14, <1>15, <1>16, <1>17 DEF p, w, s, l, n

LEMMA BucketHeaderIs ==
  ASSUME NEW a, IsArchive(a), NEW b \in 1..Len(a.buckets)
  PROVE  /\ BucketHeader(a, b) \in Seq(W32) /\ Len(BucketHeader(a, b)) = BucketWords(a.format)
         /\ BucketHeader(a, b)[1] = Len(a.buckets[b])
         /\ IF a.format = "DarkSoulsRemastered"
            THEN BucketHeader(a, b)[2] = 1 /\ At(BucketHeader(a, b), 2, Words64(a, BucketAt(a, b)))
            ELSE BucketHeader(a, b)[2] = BucketAt(a, b)
<1> DEFINE l == Len(a.buckets[b])
           o == BucketAt(a, b)
           w == Words64(a, o)
<1>1. l \in W32 /\ o \in W32 /\ o \in 0..M64 - 1 /\ 1 \in W32
  <2>1. o \in W32 /\ l \in 0..(M32 \div 2) - 1
    BY BucketIsAt
  <2>2. M32 \in Nat /\ M32 > 1 /\ M64 \in Nat /\ M32 < M64 /\ M32 = 2 * (M32 \div 2) /\ (M32 \div 2) \in Nat
    BY WidthsAre
  <2> HIDE DEF l, o
  <2> QED
    BY <2>1, <2>2 DEF W32
<1>2. w \in Seq(W32) /\ Len(w) = 2
  BY <1>1, Words64Are
<1>3. BucketHeader(a, b) = IF a.format = "DarkSoulsRemastered" THEN <<l, 1>> \o w ELSE <<l, o>>
  <2>1. DOMAIN a.buckets = 1..Len(a.buckets)
    <3>1. a.buckets \in Seq(Seq(Entry))
      BY ArchiveIs
    <3> QED
      BY <3>1
  <2> QED
    BY <2>1 DEF BucketHeader, BucketAt, Lens
<1>4. BucketWords(a.format) = IF a.format = "DarkSoulsRemastered" THEN 4 ELSE 2
  BY DEF BucketWords
<1> HIDE DEF l, o, w, W32
<1>5. CASE a.format = "DarkSoulsRemastered"
  <2> DEFINE u == <<l, 1>>
             t == u \o w
  <2>1. u \in Seq(W32) /\ Len(u) = 2 /\ u[1] = l /\ u[2] = 1
    BY <1>1
  <2> HIDE DEF u
  <2>2. t \in Seq(W32) /\ Behind(t, u, w)
    BY <1>2, <2>1, ConcatAt
  <2>3. Len(t) = 4 /\ t[1] = l /\ t[2] = 1
    BY <1>2, <2>1, <2>2 DEF Behind
  <2>4. At(t, 2, w)
    <3>1. At(w, 0, w)
      BY <1>2, AtAll
    <3>2. PICK z \in Nat : z = 0
      OBVIOUS
    <3>3. At(t, Len(u) + z, w)
      BY <1>2, <2>1, <3>1, <3>2, AtRight
    <3> QED
      BY <2>1, <3>2, <3>3
  <2>5. BucketHeader(a, b) = t
    BY <1>3, <1>5 DEF u
  <2> HIDE DEF t
  <2> QED
    BY <1>4, <1>5, <2>2, <2>3, <2>4, <2>5 DEF l, o, w
<1>6. CASE a.format # "DarkSoulsRemastered"
  <2>1. BucketHeader(a, b) = <<l, o>>
    BY <1>3, <1>6
  <2>2. <<l, o>> \in Seq(W32) /\ Len(<<l, o>>) = 2
    BY <1>1
  <2> QED
    BY <1>4, <1>6, <2>1, <2>2 DEF l, o
<1> QED
  BY <1>5, <1>6

(* Two more words behind those there are.                                    *)
LEMMA TwoMoreWords ==
  ASSUME NEW S, NEW u \in Seq(S), NEW v \in Seq(S), Len(v) = 2
  PROVE  /\ u \o v \in Seq(S) /\ Len(u \o v) = Len(u) + 2
         /\ At(u \o v, Len(u), v)
         /\ \A o \in Nat : \A t \in Seq(S) : At(u, o, t) => At(u \o v, o, t)
<1>1. u \o v \in Seq(S) /\ Behind(u \o v, u, v)
  BY ConcatAt
<1>2. Len(u \o v) = Len(u) + 2
  BY <1>1 DEF Behind
<1>3. At(u \o v, Len(u), v)
  <2>1. At(v, 0, v)
    BY AtAll
  <2>2. PICK z \in Nat : z = 0
    OBVIOUS
  <2>3. At(u \o v, Len(u) + z, v)
    BY <2>1, <2>2, AtRight
  <2>4. Len(u) + z = Len(u)
    <3>1. Len(u) \in Nat
      OBVIOUS
    <3> QED
      BY <2>2, <3>1
  <2> QED
    BY <2>3, <2>4
<1>4. \A o \in Nat : \A t \in Seq(S) : At(u, o, t) => At(u \o v, o, t)
  BY AtLeft
<1> QED
  BY <1>1, <1>2, <1>3, <1>4

(* The words of an en.                                                    *)
EntryFields(a, e, t) ==
  LET en == Written(a)[e]
      crypto == Words64(a, CryptoAt(a, e))
  IN  IF U64_HASH(a.format)
      THEN /\ At(t, 0, Words64(a, en.hash)) /\ At(t, 2, <<en.size, en.unpadded>>)
           /\ At(t, 4, Words64(a, en.offset)) /\ At(t, 6, crypto) /\ At(t, 8, crypto)
      ELSE /\ At(t, 0, <<en.hash, en.size>>) /\ At(t, 2, Words64(a, en.offset))
           /\ ~IsDs1(a.format) => At(t, 4, crypto) /\ At(t, 6, crypto)
           /\ a.format = "DarkSouls3" => At(t, 8, <<en.unpadded, 0>>)

LEMMA EntryOfIs ==
  ASSUME NEW a, IsArchive(a), NEW e \in 1..Count(a)
  PROVE  /\ EntryOf(a, e) \in Seq(W32) /\ Len(EntryOf(a, e)) = EntryWords(a.format)
         /\ EntryFields(a, e, EntryOf(a, e))
<1> DEFINE en == Written(a)[e]
           w1 == Words64(a, en.offset)
           w2 == Words64(a, CryptoAt(a, e))
           w3 == Words64(a, en.hash)
           hs == <<en.hash, en.size>>
           su == <<en.size, en.unpadded>>
           uz == <<en.unpadded, 0>>
<1>1. /\ en.hash \in 0..M64 - 1 /\ en.offset \in 0..M64 - 1
      /\ en.size \in 0..(M32 \div 2) - 1 /\ en.unpadded \in 0..(M32 \div 2) - 1
      /\ EntryFits(a, en)
  BY WrittenIs, EntryIs
<1>2. CryptoAt(a, e) \in 0..M64 - 1
  BY CryptoIsWord
<1>3. w1 \in Seq(W32) /\ Len(w1) = 2 /\ w2 \in Seq(W32) /\ Len(w2) = 2
      /\ w3 \in Seq(W32) /\ Len(w3) = 2
  BY <1>1, <1>2, Words64Are
<1>4. en.size \in W32 /\ en.unpadded \in W32 /\ 0 \in W32 /\ (~U64_HASH(a.format) => en.hash \in W32)
  <2>1. M32 \in Nat /\ M32 > 1 /\ M32 = 2 * (M32 \div 2) /\ (M32 \div 2) \in Nat /\ M64 \in Nat
    BY WidthsAre
  <2>2. ~U64_HASH(a.format) => en.hash < M32
    BY <1>1 DEF EntryFits
  <2> HIDE DEF en
  <2> QED
    BY <1>1, <2>1, <2>2 DEF W32
<1>5. a.format \in Formats
  BY ArchiveIs
<1>6. EntryWords(a.format) = (IF a.format \in {"DarkSouls", "DarkSoulsRemastered"} THEN 4
                             ELSE IF a.format = "DarkSouls2" THEN 8 ELSE 10)
  BY <1>5, WordCounts
<1>7. EntryOf(a, e) = CASE IsDs1(a.format) -> hs \o w1
        [] a.format = "DarkSouls2" -> hs \o w1 \o w2 \o w2
        [] a.format = "DarkSouls3" -> hs \o w1 \o w2 \o w2 \o uz
        [] a.format = "EldenRing" -> w3 \o su \o w1 \o w2 \o w2
  BY DEF EntryOf, CryptoAt
<1>8. /\ su \in Seq(W32) /\ Len(su) = 2 /\ uz \in Seq(W32) /\ Len(uz) = 2
      /\ Len(hs) = 2 /\ (~U64_HASH(a.format) => hs \in Seq(W32))
  <2> HIDE DEF W32, en
  <2> QED
    BY <1>4
<1>9. EntryFields(a, e, EntryOf(a, e)) <=>
        IF U64_HASH(a.format)
        THEN /\ At(EntryOf(a, e), 0, w3) /\ At(EntryOf(a, e), 2, su)
             /\ At(EntryOf(a, e), 4, w1) /\ At(EntryOf(a, e), 6, w2) /\ At(EntryOf(a, e), 8, w2)
        ELSE /\ At(EntryOf(a, e), 0, hs) /\ At(EntryOf(a, e), 2, w1)
             /\ ~IsDs1(a.format) => At(EntryOf(a, e), 4, w2) /\ At(EntryOf(a, e), 6, w2)
             /\ a.format = "DarkSouls3" => At(EntryOf(a, e), 8, uz)
  BY DEF EntryFields
<1> HIDE DEF en, w1, w2, w3, hs, su, uz, W32
<1>10. ASSUME NEW p \in Seq(W32), Len(p) = 2, NEW q \in Seq(W32), Len(q) = 2,
              NEW r \in Seq(W32), Len(r) = 2, NEW s \in Seq(W32), Len(s) = 2,
              NEW v \in Seq(W32), Len(v) = 2
       PROVE  /\ p \o q \in Seq(W32) /\ Len(p \o q) = 4
              /\ At(p \o q, 0, p) /\ At(p \o q, 2, q)
              /\ p \o q \o r \o s \in Seq(W32) /\ Len(p \o q \o r \o s) = 8
              /\ At(p \o q \o r \o s, 0, p) /\ At(p \o q \o r \o s, 2, q)
              /\ At(p \o q \o r \o s, 4, r) /\ At(p \o q \o r \o s, 6, s)
              /\ p \o q \o r \o s \o v \in Seq(W32) /\ Len(p \o q \o r \o s \o v) = 10
              /\ At(p \o q \o r \o s \o v, 0, p) /\ At(p \o q \o r \o s \o v, 2, q)
              /\ At(p \o q \o r \o s \o v, 4, r) /\ At(p \o q \o r \o s \o v, 6, s)
              /\ At(p \o q \o r \o s \o v, 8, v)
  <2> DEFINE u1 == p \o q
             u2 == u1 \o r
             u3 == u2 \o s
             u4 == u3 \o v
  <2>1. At(p, 0, p)
    BY <1>10, AtAll
  <2>2. u1 \in Seq(W32) /\ Len(u1) = 4 /\ At(u1, 0, p) /\ At(u1, 2, q)
    <3>1. u1 \in Seq(W32) /\ Len(u1) = Len(p) + 2 /\ At(u1, Len(p), q)
          /\ \A o \in Nat : \A t \in Seq(W32) : At(p, o, t) => At(u1, o, t)
      BY <1>10, TwoMoreWords
    <3> HIDE DEF u1
    <3> QED
      BY <1>10, <2>1, <3>1
  <2> HIDE DEF u1
  <2>3. /\ u2 \in Seq(W32) /\ Len(u2) = 6 /\ At(u2, 0, p) /\ At(u2, 2, q) /\ At(u2, 4, r)
    <3>1. u2 \in Seq(W32) /\ Len(u2) = Len(u1) + 2 /\ At(u2, Len(u1), r)
          /\ \A o \in Nat : \A t \in Seq(W32) : At(u1, o, t) => At(u2, o, t)
      BY <1>10, <2>2, TwoMoreWords
    <3> HIDE DEF u2
    <3> QED
      BY <1>10, <2>2, <3>1
  <2> HIDE DEF u2
  <2>4. /\ u3 \in Seq(W32) /\ Len(u3) = 8 /\ At(u3, 0, p) /\ At(u3, 2, q) /\ At(u3, 4, r)
        /\ At(u3, 6, s)
    <3>1. u3 \in Seq(W32) /\ Len(u3) = Len(u2) + 2 /\ At(u3, Len(u2), s)
          /\ \A o \in Nat : \A t \in Seq(W32) : At(u2, o, t) => At(u3, o, t)
      BY <1>10, <2>3, TwoMoreWords
    <3> HIDE DEF u3
    <3> QED
      BY <1>10, <2>3, <3>1
  <2> HIDE DEF u3
  <2>5. /\ u4 \in Seq(W32) /\ Len(u4) = 10 /\ At(u4, 0, p) /\ At(u4, 2, q) /\ At(u4, 4, r)
        /\ At(u4, 6, s) /\ At(u4, 8, v)
    <3>1. u4 \in Seq(W32) /\ Len(u4) = Len(u3) + 2 /\ At(u4, Len(u3), v)
          /\ \A o \in Nat : \A t \in Seq(W32) : At(u3, o, t) => At(u4, o, t)
      BY <1>10, <2>4, TwoMoreWords
    <3> HIDE DEF u4
    <3> QED
      BY <1>10, <2>4, <3>1
  <2> HIDE DEF u4
  <2> QED
    BY <2>2, <2>3, <2>4, <2>5 DEF u1, u2, u3, u4
<1>11. CASE IsDs1(a.format)
  <2>1. EntryOf(a, e) = hs \o w1 /\ EntryWords(a.format) = 4 /\ ~U64_HASH(a.format)
        /\ a.format # "DarkSouls3"
    BY <1>6, <1>7, <1>11 DEF IsDs1, U64_HASH
  <2>2. hs \in Seq(W32)
    BY <1>8, <2>1
  <2>3. hs \o w1 \in Seq(W32) /\ Len(hs \o w1) = 4 /\ At(hs \o w1, 0, hs) /\ At(hs \o w1, 2, w1)
    BY <1>3, <1>8, <1>10, <2>2
  <2> QED
    BY <1>9, <1>11, <2>1, <2>3
<1>12. CASE a.format = "DarkSouls2"
  <2> DEFINE t == hs \o w1 \o w2 \o w2
  <2>1. EntryOf(a, e) = t /\ EntryWords(a.format) = 8 /\ ~U64_HASH(a.format)
        /\ a.format # "DarkSouls3"
    BY <1>6, <1>7, <1>12 DEF IsDs1, U64_HASH
  <2>2. hs \in Seq(W32)
    BY <1>8, <2>1
  <2>3. t \in Seq(W32) /\ Len(t) = 8 /\ At(t, 0, hs) /\ At(t, 2, w1) /\ At(t, 4, w2) /\ At(t, 6, w2)
    BY <1>3, <1>8, <1>10, <2>2
  <2> HIDE DEF t
  <2> QED
    BY <1>9, <2>1, <2>3
<1>13. CASE a.format = "DarkSouls3"
  <2> DEFINE t == hs \o w1 \o w2 \o w2 \o uz
  <2>1. EntryOf(a, e) = t /\ EntryWords(a.format) = 10 /\ ~U64_HASH(a.format)
    BY <1>6, <1>7, <1>13 DEF IsDs1, U64_HASH
  <2>2. hs \in Seq(W32)
    BY <1>8, <2>1
  <2>3. /\ t \in Seq(W32) /\ Len(t) = 10 /\ At(t, 0, hs) /\ At(t, 2, w1) /\ At(t, 4, w2)
        /\ At(t, 6, w2) /\ At(t, 8, uz)
    BY <1>3, <1>8, <1>10, <2>2
  <2> HIDE DEF t
  <2> QED
    BY <1>9, <2>1, <2>3
<1>14. CASE a.format = "EldenRing"
  <2> DEFINE t == w3 \o su \o w1 \o w2 \o w2
  <2>1. EntryOf(a, e) = t /\ EntryWords(a.format) = 10 /\ U64_HASH(a.format)
    BY <1>6, <1>7, <1>14 DEF IsDs1, U64_HASH
  <2>3. /\ t \in Seq(W32) /\ Len(t) = 10 /\ At(t, 0, w3) /\ At(t, 2, su) /\ At(t, 4, w1)
        /\ At(t, 6, w2) /\ At(t, 8, w2)
    BY <1>3, <1>8, <1>10
  <2> HIDE DEF t
  <2> QED
    BY <1>9, <2>1, <2>3
<1> QED
  BY <1>5, <1>11, <1>12, <1>13, <1>14 DEF Formats, IsDs1

LEMMA IsSeqOf ==
  ASSUME NEW S, NEW c \in Nat, NEW s, s = [n \in 1..c |-> s[n]], \A n \in 1..c : s[n] \in S
  PROVE  s \in Seq(S) /\ Len(s) = c
OBVIOUS

LEMMA AtBlock ==
  ASSUME NEW S, NEW ss \in Seq(Seq(S)), NEW x \in Nat, \A n \in 1..Len(ss) : Len(ss[n]) = x
  PROVE  /\ FlattenSeq(ss) \in Seq(S) /\ Len(FlattenSeq(ss)) = x * Len(ss)
         /\ \A n \in 1..Len(ss) : At(FlattenSeq(ss), x * (n - 1), ss[n])
<1> DEFINE w == Lens(ss)
           c == Len(ss)
<1>1. c \in Nat /\ w \in [1..c -> Nat] /\ \A n \in 1..c : w[n] = x
  BY LensAreNat
<1>2. FlattenSeq(ss) \in Seq(S) /\ Len(FlattenSeq(ss)) = SumOf(w, c)
  BY FlattenIs DEF PartsUpTo
<1>3. \A n \in 1..c : At(FlattenSeq(ss), SumOf(w, n - 1), ss[n])
  BY AtPart
<1>4. \A m \in 0..c : SumOf(w, m) = x * m
  <2> HIDE DEF w, c
  <2> QED
    BY <1>1, SumOfEquals
<1> HIDE DEF w
<1>5. \A n \in 1..c : n - 1 \in 0..c
  BY <1>1
<1>6. c \in 0..c
  BY <1>1
<1> QED
  BY <1>2, <1>3, <1>4, <1>5, <1>6

LEMMA RangeIs ==
  ASSUME NEW r \in [start : 0..M64 - 1, end : 0..M64 - 1]
  PROVE  r.start \in 0..M64 - 1 /\ r.end \in 0..M64 - 1
OBVIOUS

(* The words of an entry's encryption.                                       *)
EncryptionFields(a, rs, t) ==
  /\ t[5] = Len(rs)
  /\ \A x \in 1..4 : t[x] = 0
  /\ \A r \in 1..Len(rs) : /\ At(t, 5 + 4 * (r - 1), Words64(a, rs[r].start))
                           /\ At(t, 5 + 4 * (r - 1) + 2, Words64(a, rs[r].end))

LEMMA EncryptionOfIs ==
  ASSUME NEW a, IsArchive(a), NEW e \in 1..Count(a)
  PROVE  /\ EncryptionOf(a, e) \in Seq(W32) /\ Len(EncryptionOf(a, e)) = EncW(a)[e]
         /\ Written(a)[e].encrypted =>
              /\ EncryptionFields(a, Written(a)[e].ranges, EncryptionOf(a, e))
              /\ Len(Written(a)[e].ranges) \in 0..(M32 \div 2) - 1
<1> DEFINE en == Written(a)[e]
           rs == en.ranges
           l == Len(rs)
<1>1. en \in Entry /\ rs \in Seq([start : 0..M64 - 1, end : 0..M64 - 1])
  BY WrittenIs, EntryIs
<1>2. /\ l \in Nat /\ EncW(a)[e] = IF en.encrypted THEN 5 + 4 * l ELSE 0
  BY EncWIs
<1>3. CASE ~en.encrypted
  <2>1. EncryptionOf(a, e) = <<>>
    BY <1>3 DEF EncryptionOf
  <2> QED
    BY <1>2, <1>3, <2>1
<1>4. CASE en.encrypted
  <2> DEFINE ss == [r \in DOMAIN rs |-> Words64(a, rs[r].start) \o Words64(a, rs[r].end)]
             z == Zeros(4)
             c == <<l>>
             zc == z \o c
             f == FlattenSeq(ss)
  <2>1. EncryptionOf(a, e) = zc \o f
    BY <1>4 DEF EncryptionOf, KeyWords
  <2>2. DOMAIN rs = 1..l
    BY <1>1
  <2>3. ASSUME NEW r \in 1..l
        PROVE  /\ ss[r] = Words64(a, rs[r].start) \o Words64(a, rs[r].end)
               /\ ss[r] \in Seq(W32) /\ Len(ss[r]) = 4
               /\ Words64(a, rs[r].start) \in Seq(W32) /\ Words64(a, rs[r].end) \in Seq(W32)
               /\ At(ss[r], 0, Words64(a, rs[r].start)) /\ At(ss[r], 2, Words64(a, rs[r].end))
    <3> DEFINE x == Words64(a, rs[r].start)
               y == Words64(a, rs[r].end)
    <3>1. ss[r] = x \o y
      BY <2>2
    <3>2. x \in Seq(W32) /\ Len(x) = 2 /\ y \in Seq(W32) /\ Len(y) = 2
      <4>1. rs[r] \in [start : 0..M64 - 1, end : 0..M64 - 1]
        BY <1>1, SeqAt
      <4>2. rs[r].start \in 0..M64 - 1 /\ rs[r].end \in 0..M64 - 1
        BY <4>1, RangeIs
      <4> QED
        BY <4>2, Words64Are
    <3> HIDE DEF x, y
    <3>3. /\ x \o y \in Seq(W32) /\ Len(x \o y) = Len(x) + 2 /\ At(x \o y, Len(x), y)
          /\ \A o \in Nat : \A t \in Seq(W32) : At(x, o, t) => At(x \o y, o, t)
      BY <3>2, TwoMoreWords
    <3>4. At(x, 0, x)
      BY <3>2, AtAll
    <3>5. At(x \o y, 0, x) /\ At(x \o y, 2, y) /\ Len(x \o y) = 4
      BY <3>2, <3>3, <3>4
    <3> QED
      BY <3>1, <3>2, <3>3, <3>5 DEF x, y
  <2>4. ss \in Seq(Seq(W32)) /\ Len(ss) = l
    <3>1. ss = [r \in 1..l |-> ss[r]]
      BY <2>2
    <3>2. \A r \in 1..l : ss[r] \in Seq(W32)
      BY <2>3
    <3> HIDE DEF ss, l
    <3> QED
      BY <1>2, <3>1, <3>2, IsSeqOf
  <2> HIDE DEF ss
  <2>5. /\ f \in Seq(W32) /\ Len(f) = 4 * l
        /\ \A n \in 1..l : At(f, 4 * (n - 1), ss[n])
    <3>1. PICK x \in Nat : x = 4
      OBVIOUS
    <3>2. \A n \in 1..Len(ss) : Len(ss[n]) = x
      BY <2>3, <2>4, <3>1
    <3>3. /\ f \in Seq(W32) /\ Len(f) = x * Len(ss)
          /\ \A n \in 1..Len(ss) : At(f, x * (n - 1), ss[n])
      BY <2>4, <3>2, AtBlock
    <3> QED
      BY <2>4, <3>1, <3>3
  <2>6. l \in 0..(M32 \div 2) - 1
    <3>1. EncryptionAt(a, e) \in Nat /\ EncryptionAt(a, e) + EncW(a)[e] <= FileSize(a)
      BY EncryptionIsAt
    <3>2. FileSize(a) \in W32 /\ M32 \in Nat /\ M32 = 2 * (M32 \div 2) /\ (M32 \div 2) \in Nat
      BY PlacesAre, WidthsAre
    <3>3. EncW(a)[e] = 5 + 4 * l
      BY <1>2, <1>4
    <3> HIDE DEF l
    <3> DEFINE q == EncryptionAt(a, e)
               g == FileSize(a)
               h == M32 \div 2
    <3>4. q \in Nat /\ q + (5 + 4 * l) <= g /\ g \in Nat /\ g < 2 * h /\ h \in Nat
      BY <3>1, <3>2, <3>3 DEF W32
    <3> HIDE DEF q, g, h
    <3>5. l \in 0..h - 1
      BY <1>2, <3>4
    <3> QED
      BY <3>5 DEF h
  <2>7. l \in W32 /\ 0 \in W32
    <3>1. M32 \in Nat /\ M32 > 1 /\ M32 = 2 * (M32 \div 2) /\ (M32 \div 2) \in Nat
      BY WidthsAre
    <3> HIDE DEF l
    <3> QED
      BY <2>6, <3>1 DEF W32
  <2>8. z \in Seq(W32) /\ Len(z) = 4 /\ \A x \in 1..4 : z[x] = 0
    BY <2>7 DEF Zeros
  <2>9. c \in Seq(W32) /\ Len(c) = 1 /\ c[1] = l
    <3> HIDE DEF W32, l
    <3> QED
      BY <2>7
  <2> HIDE DEF z, c, f
  <2>10. zc \in Seq(W32) /\ Behind(zc, z, c)
    BY <2>8, <2>9, ConcatAt
  <2>11. Len(zc) = 5 /\ zc[5] = l /\ \A x \in 1..4 : zc[x] = 0
    BY <2>8, <2>9, <2>10 DEF Behind
  <2> HIDE DEF zc
  <2> DEFINE t == zc \o f
  <2>12. t \in Seq(W32) /\ Behind(t, zc, f)
    BY <2>5, <2>10, ConcatAt
  <2>13. Len(t) = 5 + 4 * l /\ t[5] = l /\ \A x \in 1..4 : t[x] = 0
    <3>1. Len(t) = 5 + 4 * l
      BY <2>5, <2>11, <2>12 DEF Behind
    <3>2. \A x \in 1..5 : t[x] = zc[x]
      BY <2>11, <2>12 DEF Behind
    <3> HIDE DEF t
    <3> QED
      BY <2>11, <3>1, <3>2
  <2>14. ASSUME NEW r \in 1..l
         PROVE  /\ At(t, 5 + 4 * (r - 1), Words64(a, rs[r].start))
                /\ At(t, 5 + 4 * (r - 1) + 2, Words64(a, rs[r].end))
    <3> DEFINE p == 4 * (r - 1)
               x == Words64(a, rs[r].start)
               y == Words64(a, rs[r].end)
    <3>1. p \in Nat
      BY <1>2
    <3>2. At(f, p, ss[r])
      BY <2>5
    <3>3. ss[r] \in Seq(W32) /\ x \in Seq(W32) /\ y \in Seq(W32) /\ At(ss[r], 0, x) /\ At(ss[r], 2, y)
      BY <2>3
    <3> HIDE DEF p, x, y
    <3>4. At(t, 5 + p, ss[r])
      <4>1. At(t, Len(zc) + p, ss[r])
        BY <2>5, <2>10, <3>1, <3>2, <3>3, AtRight
      <4> QED
        BY <2>11, <4>1
    <3>5. PICK o \in Nat : o = 5 + p
      BY <3>1
    <3>6. PICK j0 \in Nat, j2 \in Nat : j0 = 0 /\ j2 = 2
      OBVIOUS
    <3> HIDE DEF t
    <3>7. At(t, o + j0, x) /\ At(t, o + j2, y)
      BY <2>12, <3>3, <3>4, <3>5, <3>6, AtInside DEF t
    <3>8. o + j0 = 5 + p /\ o + j2 = 5 + p + 2
      BY <3>1, <3>5, <3>6
    <3> QED
      BY <3>7, <3>8 DEF p, x, y
  <2>15. EncryptionFields(a, rs, t)
    BY <2>13, <2>14 DEF EncryptionFields
  <2> QED
    BY <1>2, <1>4, <2>1, <2>6, <2>12, <2>13, <2>15
<1> QED
  BY <1>3, <1>4

LEMMA OneMore ==
  ASSUME NEW S, NEW u \in Seq(S), NEW v \in Seq(S)
  PROVE  /\ u \o v \in Seq(S) /\ Len(u \o v) = Len(u) + Len(v)
         /\ At(u \o v, Len(u), v)
         /\ \A o \in Nat : \A t \in Seq(S) : At(u, o, t) => At(u \o v, o, t)
<1>1. u \o v \in Seq(S) /\ Behind(u \o v, u, v)
  BY ConcatAt
<1>2. Len(u \o v) = Len(u) + Len(v)
  BY <1>1 DEF Behind
<1>3. At(u \o v, Len(u), v)
  <2>1. At(v, 0, v)
    BY AtAll
  <2>2. PICK z \in Nat : z = 0
    OBVIOUS
  <2>3. At(u \o v, Len(u) + z, v)
    BY <2>1, <2>2, AtRight
  <2>4. Len(u) + z = Len(u)
    <3>1. Len(u) \in Nat
      OBVIOUS
    <3> QED
      BY <2>2, <3>1
  <2> QED
    BY <2>3, <2>4
<1>4. \A o \in Nat : \A t \in Seq(S) : At(u, o, t) => At(u \o v, o, t)
  BY AtLeft
<1> QED
  BY <1>1, <1>2, <1>3, <1>4

(* The parts of a header.                                                    *)
FirstWords(a) == <<0, 0, 1, FileSize(a), Len(a.buckets)>>
OffsetWords(a) ==
  IF a.format = "DarkSoulsRemastered" THEN <<0>> \o Words64(a, BucketsAt(a)) ELSE <<BucketsAt(a)>>
SaltWords(a) ==
  IF a.format \in {"DarkSouls", "DarkSoulsRemastered"} THEN <<>>
  ELSE <<a.salt>> \o [n \in 1..a.salt |-> 1]
BucketPart(a) == [b \in DOMAIN a.buckets |-> BucketHeader(a, b)]
EntryPart(a) == [e \in DOMAIN Written(a) |-> EntryOf(a, e)]
EncryptionPart(a) == [e \in DOMAIN Written(a) |-> EncryptionOf(a, e)]

LEMMA WriteParts ==
  ASSUME NEW a
  PROVE  /\ Write(a).order = a.order /\ Write(a).has_crypto = a.has_crypto
         /\ Write(a).words = FirstWords(a) \o OffsetWords(a) \o SaltWords(a)
              \o FlattenSeq(BucketPart(a)) \o FlattenSeq(EntryPart(a))
              \o FlattenSeq(EncryptionPart(a)) \o Zeros(a.padding)
BY DEF Write, FirstWords, OffsetWords, SaltWords, BucketPart, EntryPart, EncryptionPart

LEMMA SmallWords ==
  ASSUME NEW a, IsArchive(a)
  PROVE  /\ 0 \in W32 /\ 1 \in W32 /\ Len(a.buckets) \in W32 /\ BucketsAt(a) \in W32
         /\ BucketsAt(a) \in 0..M64 - 1 /\ Len(a.buckets) \in 0..(M32 \div 2) - 1
         /\ (~IsDs1(a.format) => a.salt \in W32)
<1> DEFINE n == Len(a.buckets)
           x == BucketsAt(a)
           y == BucketWords(a.format)
           f == FileSize(a)
           h == M32 \div 2
<1>1. /\ M32 \in Nat /\ M32 > 1 /\ M32 = 2 * h /\ h \in Nat /\ M64 \in Nat /\ M32 < M64
  BY WidthsAre
<1>2. n \in Nat /\ n >= 1 /\ a.format \in Formats /\ a.salt \in Nat
  BY ArchiveIs
<1>3. y \in Nat /\ y >= 2
  BY <1>2, WordCounts
<1>4. x \in Nat /\ x >= 6 /\ f \in Nat /\ f < M32 /\ x + y * n <= f
  <2>1. f \in W32 /\ f >= EncryptionStart(a) /\ EncryptionStart(a) >= EntriesAt(a)
        /\ EntriesAt(a) = x + y * n /\ x \in Nat /\ x >= 6 /\ EntriesAt(a) \in Nat
        /\ EncryptionStart(a) \in Nat
    BY PlacesAre
  <2> HIDE DEF x, y, n, f
  <2> QED
    BY <1>1, <2>1 DEF W32
<1>5. ~IsDs1(a.format) => x = 7 + a.salt
  BY <1>2 DEF BucketsAt, IsDs1, Formats
<1> HIDE DEF n, x, y, f, h
<1>6. y * n \in Nat /\ y * n >= 2 * n
  BY <1>2, <1>3
<1>7. x < M32 /\ n < h /\ x < M64 /\ n < M32
  <2> DEFINE yn == y * n
  <2>1. yn \in Nat /\ yn >= 2 * n /\ x + yn <= f
    BY <1>4, <1>6
  <2> HIDE DEF yn
  <2> QED
    BY <1>1, <1>2, <1>4, <2>1
<1>8. 0 \in W32 /\ 1 \in W32 /\ n \in W32 /\ x \in W32 /\ x \in 0..M64 - 1 /\ n \in 0..h - 1
  BY <1>1, <1>2, <1>4, <1>7 DEF W32
<1>9. ~IsDs1(a.format) => a.salt \in W32
  <2>1. SUFFICES ASSUME x = 7 + a.salt PROVE a.salt \in W32
    BY <1>5
  <2> QED
    BY <1>1, <1>2, <1>7, <2>1 DEF W32
<1> QED
  BY <1>8, <1>9 DEF n, x, h

LEMMA FirstPart ==
  ASSUME NEW a, IsArchive(a)
  PROVE  LET u == FirstWords(a) \o OffsetWords(a) \o SaltWords(a)
         IN  /\ u \in Seq(W32) /\ Len(u) = BucketsAt(a) /\ At(u, 0, FirstWords(a))
             /\ FirstWords(a) \in Seq(W32)
             /\ IF a.format = "DarkSoulsRemastered"
                THEN u[6] = 0 /\ At(u, 6, Words64(a, BucketsAt(a))) ELSE u[6] = BucketsAt(a)
             /\ ~IsDs1(a.format) => u[7] = a.salt
<1> DEFINE p == FirstWords(a)
           q == OffsetWords(a)
           r == SaltWords(a)
           v == p \o q
           u == v \o r
           x == BucketsAt(a)
           w == Words64(a, x)
<1>1. /\ 0 \in W32 /\ 1 \in W32 /\ Len(a.buckets) \in W32 /\ x \in W32 /\ x \in 0..M64 - 1
      /\ (~IsDs1(a.format) => a.salt \in W32) /\ FileSize(a) \in W32
  BY SmallWords, PlacesAre
<1>2. a.format \in Formats /\ a.salt \in Nat
  BY ArchiveIs
<1>3. p \in Seq(W32) /\ Len(p) = 5
  <2> HIDE DEF W32
  <2> QED
    BY <1>1 DEF FirstWords
<1>4. w \in Seq(W32) /\ Len(w) = 2
  BY <1>1, Words64Are
<1>5. CASE a.format = "DarkSoulsRemastered"
  <2> DEFINE z == <<0>>
  <2>1. q = z \o w /\ r = <<>> /\ x = 8 /\ IsDs1(a.format)
    BY <1>5 DEF OffsetWords, SaltWords, BucketsAt, IsDs1
  <2>2. z \in Seq(W32) /\ Len(z) = 1 /\ z[1] = 0
    <3> HIDE DEF W32
    <3> QED
      BY <1>1
  <2> HIDE DEF p, w, z, x
  <2>3. /\ z \o w \in Seq(W32) /\ Len(z \o w) = Len(z) + Len(w) /\ Behind(z \o w, z, w)
        /\ At(z \o w, Len(z), w)
    BY <1>4, <2>2, OneMore, ConcatAt
  <2>4. q \in Seq(W32) /\ Len(q) = 3 /\ q[1] = 0 /\ At(q, 1, w)
    BY <1>4, <2>1, <2>2, <2>3 DEF Behind
  <2> HIDE DEF q
  <2>5. /\ v \in Seq(W32) /\ Len(v) = Len(p) + Len(q) /\ Behind(v, p, q)
        /\ \A o \in Nat : \A t \in Seq(W32) : At(p, o, t) => At(v, o, t)
    BY <1>3, <2>4, OneMore, ConcatAt
  <2>6. v[6] = 0
    <3>1. \A n \in 1..Len(q) : v[Len(p) + n] = q[n]
      BY <2>5 DEF Behind
    <3> HIDE DEF v
    <3> QED
      BY <1>3, <2>4, <3>1
  <2>7. At(v, 0, p)
    <3>1. At(p, 0, p)
      BY <1>3, AtAll
    <3> HIDE DEF v
    <3> QED
      BY <1>3, <2>5, <3>1
  <2>8. At(v, 6, w)
    <3>1. PICK o \in Nat : o = 1
      OBVIOUS
    <3>2. At(q, o, w)
      BY <2>4, <3>1
    <3>3. At(v, Len(p) + o, w)
      BY <1>3, <1>4, <2>4, <3>2, AtRight
    <3> HIDE DEF v
    <3> QED
      BY <1>3, <3>1, <3>3
  <2>9. u = v
    <3> HIDE DEF v
    <3> QED
      BY <2>1, <2>5
  <2>10. Len(v) = x
    <3> HIDE DEF v
    <3> QED
      BY <1>3, <2>1, <2>4, <2>5
  <2> HIDE DEF v, u
  <2>11. /\ u \in Seq(W32) /\ Len(u) = x /\ At(u, 0, p) /\ p \in Seq(W32)
         /\ u[6] = 0 /\ At(u, 6, w)
    BY <1>3, <2>5, <2>6, <2>7, <2>8, <2>9, <2>10
  <2> QED
    BY <1>5, <2>1, <2>11 DEF u, v, p, q, r, x, w
<1>6. CASE a.format # "DarkSoulsRemastered"
  <2>1. q = <<x>>
    BY <1>6 DEF OffsetWords
  <2>2. q \in Seq(W32) /\ Len(q) = 1 /\ q[1] = x
    <3> HIDE DEF W32, x
    <3> QED
      BY <1>1, <2>1
  <2> HIDE DEF p, q
  <2>3. /\ v \in Seq(W32) /\ Len(v) = Len(p) + Len(q) /\ Behind(v, p, q)
        /\ \A o \in Nat : \A t \in Seq(W32) : At(p, o, t) => At(v, o, t)
    BY <1>3, <2>2, OneMore, ConcatAt
  <2>4. v[6] = x /\ Len(v) = 6
    <3>1. \A n \in 1..Len(q) : v[Len(p) + n] = q[n]
      BY <2>3 DEF Behind
    <3> HIDE DEF v, x
    <3> QED
      BY <1>3, <2>2, <2>3, <3>1
  <2>5. At(v, 0, p)
    <3>1. At(p, 0, p)
      BY <1>3, AtAll
    <3> HIDE DEF v
    <3> QED
      BY <1>3, <2>3, <3>1
  <2> HIDE DEF v
  <2>6. /\ r \in Seq(W32) /\ Len(r) = x - 6 /\ (~IsDs1(a.format) => r # <<>> /\ r[1] = a.salt)
    <3>1. CASE a.format = "DarkSouls"
      BY <3>1 DEF SaltWords, IsDs1, BucketsAt
    <3>2. CASE a.format # "DarkSouls"
      <4> DEFINE s1 == <<a.salt>>
                 s2 == [n \in 1..a.salt |-> 1]
      <4>1. r = s1 \o s2 /\ x = 7 + a.salt /\ ~IsDs1(a.format)
        BY <1>2, <1>6, <3>2 DEF SaltWords, IsDs1, BucketsAt, Formats
      <4>2. s1 \in Seq(W32) /\ Len(s1) = 1 /\ s1[1] = a.salt
        <5> HIDE DEF W32
        <5> QED
          BY <1>1, <4>1
      <4>3. s2 \in Seq(W32) /\ Len(s2) = a.salt
        <5> HIDE DEF W32
        <5>1. s2 = [n \in 1..a.salt |-> s2[n]] /\ \A n \in 1..a.salt : s2[n] \in W32
          BY <1>1
        <5> HIDE DEF s2
        <5> QED
          BY <1>2, <5>1, IsSeqOf
      <4> HIDE DEF s1, s2
      <4>4. s1 \o s2 \in Seq(W32) /\ Behind(s1 \o s2, s1, s2)
        BY <4>2, <4>3, ConcatAt
      <4>5. Len(s1 \o s2) = 1 + a.salt /\ (s1 \o s2)[1] = a.salt
        BY <4>2, <4>3, <4>4 DEF Behind
      <4>6. 1 + a.salt = x - 6 /\ x \in Nat
        BY <1>2, <4>1
      <4> HIDE DEF r, x
      <4>7. r # <<>>
        BY <1>2, <4>1, <4>5
      <4> QED
        BY <4>1, <4>4, <4>5, <4>6, <4>7
    <3> QED
      BY <3>1, <3>2
  <2> HIDE DEF r
  <2>7. /\ u \in Seq(W32) /\ Len(u) = Len(v) + Len(r) /\ Behind(u, v, r)
        /\ \A o \in Nat : \A t \in Seq(W32) : At(v, o, t) => At(u, o, t)
    BY <2>3, <2>6, OneMore, ConcatAt
  <2> HIDE DEF u
  <2>8. Len(u) = x /\ At(u, 0, p)
    <3>1. x \in Nat
      BY PlacesAre
    <3>2. Len(r) = x - 6
      BY <2>6
    <3> HIDE DEF x
    <3>3. Len(u) = x
      BY <2>4, <2>7, <3>1, <3>2
    <3> QED
      BY <1>3, <2>5, <2>7, <3>3
  <2>9. u[6] = x
    <3>1. \A n \in 1..Len(v) : u[n] = v[n]
      BY <2>7 DEF Behind
    <3> HIDE DEF x
    <3> QED
      BY <2>4, <3>1
  <2>10. ~IsDs1(a.format) => u[7] = a.salt
    <3> SUFFICES ASSUME ~IsDs1(a.format) PROVE u[7] = a.salt
      OBVIOUS
    <3>1. \A n \in 1..Len(r) : u[Len(v) + n] = r[n]
      BY <2>7 DEF Behind
    <3>2. r \in Seq(W32) /\ r # <<>> /\ r[1] = a.salt
      BY <2>6
    <3>3. 1 \in 1..Len(r)
      BY <3>2
    <3>4. u[Len(v) + 1] = r[1]
      BY <3>1, <3>3
    <3> QED
      BY <2>4, <3>2, <3>4
  <2>11. /\ u \in Seq(W32) /\ Len(u) = x /\ At(u, 0, p) /\ p \in Seq(W32) /\ u[6] = x
    BY <1>3, <2>7, <2>8, <2>9
  <2> QED
    BY <1>6, <2>10, <2>11 DEF u, v, p, q, r, x
<1> QED
  BY <1>5, <1>6

BucketHeaderAt(a, b) == BucketsAt(a) + BucketWords(a.format) * (b - 1)
EntryAt(a, e) == EntriesAt(a) + EntryWords(a.format) * (e - 1)

(* What is where in a header that was written.                               *)
Layout(a, f) ==
  /\ f.order = a.order /\ f.has_crypto = a.has_crypto
  /\ f.words \in Seq(W32) /\ Len(f.words) = FileSize(a) + a.padding
  /\ f.words[3] = 1 /\ f.words[4] = FileSize(a) /\ f.words[5] = Len(a.buckets)
  /\ IF a.format = "DarkSoulsRemastered"
     THEN f.words[6] = 0 /\ At(f.words, 6, Words64(a, BucketsAt(a)))
     ELSE f.words[6] = BucketsAt(a)
  /\ ~IsDs1(a.format) => f.words[7] = a.salt
  /\ \A b \in 1..Len(a.buckets) : At(f.words, BucketHeaderAt(a, b), BucketHeader(a, b))
  /\ \A e \in 1..Count(a) : At(f.words, EntryAt(a, e), EntryOf(a, e))
  /\ \A e \in 1..Count(a) : At(f.words, EncryptionAt(a, e), EncryptionOf(a, e))
  /\ \A x \in 1..a.padding : f.words[FileSize(a) + x] = 0

(* A part, flattened, behind what is before it.                              *)
LEMMA PartBehind ==
  ASSUME NEW u \in Seq(W32), NEW ss \in Seq(Seq(W32))
  PROVE  /\ u \o FlattenSeq(ss) \in Seq(W32)
         /\ Len(u \o FlattenSeq(ss)) = Len(u) + SumOf(Lens(ss), Len(ss))
         /\ \A n \in 1..Len(ss) :
              /\ ss[n] \in Seq(W32) /\ SumOf(Lens(ss), n - 1) \in Nat
              /\ At(u \o FlattenSeq(ss), Len(u) + SumOf(Lens(ss), n - 1), ss[n])
         /\ \A o \in Nat : \A t \in Seq(W32) : At(u, o, t) => At(u \o FlattenSeq(ss), o, t)
         /\ \A n \in 1..Len(u) : (u \o FlattenSeq(ss))[n] = u[n]
<1> DEFINE v == FlattenSeq(ss)
<1>1. v \in Seq(W32) /\ Len(v) = SumOf(Lens(ss), Len(ss))
  BY FlattenIs DEF PartsUpTo
<1>2. \A n \in 1..Len(ss) :
        ss[n] \in Seq(W32) /\ SumOf(Lens(ss), n - 1) \in Nat /\ At(v, SumOf(Lens(ss), n - 1), ss[n])
  BY AtPart
<1> HIDE DEF v
<1>3. /\ u \o v \in Seq(W32) /\ Len(u \o v) = Len(u) + Len(v) /\ Behind(u \o v, u, v)
      /\ \A o \in Nat : \A t \in Seq(W32) : At(u, o, t) => At(u \o v, o, t)
  BY <1>1, OneMore, ConcatAt
<1>4. \A n \in 1..Len(ss) : At(u \o v, Len(u) + SumOf(Lens(ss), n - 1), ss[n])
  BY <1>1, <1>2, AtRight
<1>5. \A n \in 1..Len(u) : (u \o v)[n] = u[n]
  BY <1>3 DEF Behind
<1> QED
  BY <1>1, <1>2, <1>3, <1>4, <1>5 DEF v

LEMMA PartsAre ==
  ASSUME NEW a, IsArchive(a)
  PROVE  /\ BucketPart(a) \in Seq(Seq(W32)) /\ Len(BucketPart(a)) = Len(a.buckets)
         /\ \A b \in 1..Len(a.buckets) : BucketPart(a)[b] = BucketHeader(a, b)
         /\ \A m \in 0..Len(a.buckets) : SumOf(Lens(BucketPart(a)), m) = BucketWords(a.format) * m
         /\ EntryPart(a) \in Seq(Seq(W32)) /\ Len(EntryPart(a)) = Count(a)
         /\ \A e \in 1..Count(a) : EntryPart(a)[e] = EntryOf(a, e)
         /\ \A m \in 0..Count(a) : SumOf(Lens(EntryPart(a)), m) = EntryWords(a.format) * m
         /\ EncryptionPart(a) \in Seq(Seq(W32)) /\ Len(EncryptionPart(a)) = Count(a)
         /\ \A e \in 1..Count(a) : EncryptionPart(a)[e] = EncryptionOf(a, e)
         /\ Lens(EncryptionPart(a)) = EncW(a)
<1> DEFINE n == Len(a.buckets)
           c == Count(a)
           y == BucketWords(a.format)
           z == EntryWords(a.format)
           p == BucketPart(a)
           q == EntryPart(a)
           r == EncryptionPart(a)
<1>1. n \in Nat /\ c \in Nat /\ a.format \in Formats /\ DOMAIN a.buckets = 1..n
      /\ DOMAIN Written(a) = 1..c
  <2>1. a.buckets \in Seq(Seq(Entry))
    BY ArchiveIs
  <2> QED
    BY <2>1, ArchiveIs, WrittenIs
<1>2. y \in Nat /\ z \in Nat
  BY <1>1, WordCounts
<1>3. p = [b \in 1..n |-> p[b]] /\ q = [e \in 1..c |-> q[e]] /\ r = [e \in 1..c |-> r[e]]
  BY <1>1 DEF BucketPart, EntryPart, EncryptionPart
<1>4. \A b \in 1..n : p[b] = BucketHeader(a, b) /\ p[b] \in Seq(W32) /\ Len(p[b]) = y
  BY <1>1, BucketHeaderIs DEF BucketPart
<1>5. \A e \in 1..c : q[e] = EntryOf(a, e) /\ q[e] \in Seq(W32) /\ Len(q[e]) = z
  BY <1>1, EntryOfIs DEF EntryPart
<1>6. \A e \in 1..c : r[e] = EncryptionOf(a, e) /\ r[e] \in Seq(W32) /\ Len(r[e]) = EncW(a)[e]
  BY <1>1, EncryptionOfIs DEF EncryptionPart
<1> HIDE DEF n, c, y, z, p, q, r
<1>7. /\ p \in Seq(Seq(W32)) /\ Len(p) = n /\ q \in Seq(Seq(W32)) /\ Len(q) = c
      /\ r \in Seq(Seq(W32)) /\ Len(r) = c
  <2> DEFINE V == Seq(W32)
  <2>1. /\ \A b \in 1..n : p[b] \in V
        /\ \A e \in 1..c : q[e] \in V /\ r[e] \in V
    BY <1>4, <1>5, <1>6
  <2> HIDE DEF V
  <2>2. p \in Seq(V) /\ Len(p) = n
    BY <1>1, <1>3, <2>1, IsSeqOf
  <2>3. q \in Seq(V) /\ Len(q) = c
    BY <1>1, <1>3, <2>1, IsSeqOf
  <2>4. r \in Seq(V) /\ Len(r) = c
    BY <1>1, <1>3, <2>1, IsSeqOf
  <2> QED
    BY <2>2, <2>3, <2>4 DEF V
<1>8. ASSUME NEW m \in 0..n PROVE SumOf(Lens(p), m) = y * m
  <2>1. Lens(p) \in [1..n -> Nat] /\ \A b \in 1..n : Lens(p)[b] = y
    BY <1>4, <1>7, LensAreNat
  <2> QED
    BY <1>1, <1>2, <2>1, SumOfEquals
<1>9. ASSUME NEW m \in 0..c PROVE SumOf(Lens(q), m) = z * m
  <2>1. Lens(q) \in [1..c -> Nat] /\ \A b \in 1..c : Lens(q)[b] = z
    BY <1>5, <1>7, LensAreNat
  <2> QED
    BY <1>1, <1>2, <2>1, SumOfEquals
<1>10. Lens(r) = EncW(a)
  <2>1. Lens(r) \in [1..c -> Nat] /\ \A e \in 1..c : Lens(r)[e] = Len(r[e])
    BY <1>7, LensAreNat
  <2>2. EncW(a) \in [1..c -> Nat]
    BY EncWIs DEF c
  <2>3. \A e \in 1..c : Lens(r)[e] = EncW(a)[e]
    BY <1>6, <2>1
  <2> DEFINE A == Lens(r)
             B == EncW(a)
  <2> HIDE DEF c, A, B
  <2>4. A \in [1..c -> Nat] /\ B \in [1..c -> Nat] /\ \A e \in 1..c : A[e] = B[e]
    BY <2>1, <2>2, <2>3 DEF A, B
  <2>6. A = [e \in 1..c |-> A[e]] /\ B = [e \in 1..c |-> B[e]]
    BY <2>4
  <2>7. [e \in 1..c |-> A[e]] = [e \in 1..c |-> B[e]]
    BY <2>4, Zenon
  <2>5. A = B
    BY <2>6, <2>7, Zenon
  <2> QED
    BY <2>5 DEF A, B
<1> QED
  BY <1>4, <1>5, <1>6, <1>7, <1>8, <1>9, <1>10 DEF n, c, y, z, p, q, r

LEMMA WriteIsLaidOut ==
  ASSUME NEW a, IsArchive(a)
  PROVE  Layout(a, Write(a))
<1> DEFINE u == FirstWords(a) \o OffsetWords(a) \o SaltWords(a)
           p == BucketPart(a)
           q == EntryPart(a)
           r == EncryptionPart(a)
           z == Zeros(a.padding)
           u1 == u \o FlattenSeq(p)
           u2 == u1 \o FlattenSeq(q)
           u3 == u2 \o FlattenSeq(r)
           u4 == u3 \o z
           n == Len(a.buckets)
           c == Count(a)
           f == FirstWords(a)
           w == Words64(a, BucketsAt(a))
           x == BucketsAt(a)
           y == BucketWords(a.format)
           g == EntryWords(a.format)
<1>1. /\ u \in Seq(W32) /\ Len(u) = x /\ At(u, 0, f) /\ f \in Seq(W32)
      /\ IF a.format = "DarkSoulsRemastered" THEN u[6] = 0 /\ At(u, 6, w) ELSE u[6] = x
      /\ ~IsDs1(a.format) => u[7] = a.salt
  BY FirstPart
<1>2. /\ Write(a).order = a.order /\ Write(a).has_crypto = a.has_crypto /\ Write(a).words = u4
  BY WriteParts
<1>3. /\ p \in Seq(Seq(W32)) /\ Len(p) = n /\ \A b \in 1..n : p[b] = BucketHeader(a, b)
      /\ \A m \in 0..n : SumOf(Lens(p), m) = y * m
      /\ q \in Seq(Seq(W32)) /\ Len(q) = c /\ \A e \in 1..c : q[e] = EntryOf(a, e)
      /\ \A m \in 0..c : SumOf(Lens(q), m) = g * m
      /\ r \in Seq(Seq(W32)) /\ Len(r) = c /\ \A e \in 1..c : r[e] = EncryptionOf(a, e)
      /\ Lens(r) = EncW(a)
  BY PartsAre
<1>4. /\ x \in Nat /\ x >= 6 /\ EntriesAt(a) = x + y * n /\ EntriesAt(a) \in Nat
      /\ EncryptionStart(a) = EntriesAt(a) + g * c /\ EncryptionStart(a) \in Nat
      /\ FileSize(a) = EncryptionStart(a) + SumOf(EncW(a), c) /\ FileSize(a) \in Nat
      /\ x \in 0..M64 - 1 /\ (~IsDs1(a.format) => x >= 7) /\ 0 \in W32
      /\ (a.format = "DarkSoulsRemastered" => x = 8)
  <2>1. ~IsDs1(a.format) => x >= 7
    <3>1. a.format \in Formats /\ a.salt \in Nat
      BY ArchiveIs
    <3> QED
      BY <3>1 DEF BucketsAt, IsDs1, Formats
  <2>2. a.format = "DarkSoulsRemastered" => x = 8
    BY DEF BucketsAt
  <2> QED
    BY <2>1, <2>2, PlacesAre, SmallWords DEF EncryptionStart
<1>5. n \in Nat /\ c \in Nat /\ a.padding \in Nat
  BY ArchiveIs, WrittenIs
<1>6. w \in Seq(W32)
  BY <1>4, Words64Are
<1>7. Len(f) = 5 /\ f[3] = 1 /\ f[4] = FileSize(a) /\ f[5] = n
  BY DEF FirstWords
<1>8. z \in Seq(W32) /\ Len(z) = a.padding /\ \A m \in 1..a.padding : z[m] = 0
  <2>1. z = [m \in 1..a.padding |-> z[m]] /\ \A m \in 1..a.padding : z[m] = 0
    BY DEF Zeros
  <2>2. \A m \in 1..a.padding : z[m] \in W32
    BY <1>4, <2>1
  <2> HIDE DEF z, u, u1, u2, u3, u4, p, q, r
  <2>3. z \in Seq(W32) /\ Len(z) = a.padding
    BY <1>5, <2>1, <2>2, IsSeqOf
  <2> QED
    BY <2>1, <2>3
<1> HIDE DEF u, p, q, r, z, n, c, f, w, x, y, g
<1>9. /\ u1 \in Seq(W32) /\ Len(u1) = Len(u) + SumOf(Lens(p), Len(p))
      /\ \A b \in 1..Len(p) : /\ p[b] \in Seq(W32)
                              /\ At(u1, Len(u) + SumOf(Lens(p), b - 1), p[b])
      /\ \A o \in Nat : \A t \in Seq(W32) : At(u, o, t) => At(u1, o, t)
      /\ \A m \in 1..Len(u) : u1[m] = u[m]
  BY <1>1, <1>3, PartBehind
<1> HIDE DEF u1
<1>10. /\ u2 \in Seq(W32) /\ Len(u2) = Len(u1) + SumOf(Lens(q), Len(q))
       /\ \A b \in 1..Len(q) : /\ q[b] \in Seq(W32)
                               /\ At(u2, Len(u1) + SumOf(Lens(q), b - 1), q[b])
       /\ \A o \in Nat : \A t \in Seq(W32) : At(u1, o, t) => At(u2, o, t)
       /\ \A m \in 1..Len(u1) : u2[m] = u1[m]
  BY <1>3, <1>9, PartBehind
<1> HIDE DEF u2
<1>11. /\ u3 \in Seq(W32) /\ Len(u3) = Len(u2) + SumOf(Lens(r), Len(r))
       /\ \A b \in 1..Len(r) : /\ r[b] \in Seq(W32)
                               /\ At(u3, Len(u2) + SumOf(Lens(r), b - 1), r[b])
       /\ \A o \in Nat : \A t \in Seq(W32) : At(u2, o, t) => At(u3, o, t)
       /\ \A m \in 1..Len(u2) : u3[m] = u2[m]
  BY <1>3, <1>10, PartBehind
<1> HIDE DEF u3
<1>12. /\ u4 \in Seq(W32) /\ Len(u4) = Len(u3) + Len(z) /\ Behind(u4, u3, z)
       /\ \A o \in Nat : \A t \in Seq(W32) : At(u3, o, t) => At(u4, o, t)
  BY <1>8, <1>11, OneMore, ConcatAt
<1> HIDE DEF u4
<1>13. Len(u1) = EntriesAt(a) /\ Len(u2) = EncryptionStart(a) /\ Len(u3) = FileSize(a)
  <2>1. n \in 0..n /\ c \in 0..c
    BY <1>5
  <2>2. SumOf(Lens(p), n) = y * n /\ SumOf(Lens(q), c) = g * c
    BY <1>3, <2>1
  <2> QED
    BY <1>1, <1>3, <1>4, <1>9, <1>10, <1>11, <2>2
<1>14. Len(u4) = FileSize(a) + a.padding
  BY <1>8, <1>12, <1>13
<1>15. ASSUME NEW o \in Nat, NEW t \in Seq(W32), At(u, o, t) PROVE At(u4, o, t)
  BY <1>9, <1>10, <1>11, <1>12, <1>15
<1>16. At(u4, 0, f)
  BY <1>1, <1>15
<1>17. u4[3] = 1 /\ u4[4] = FileSize(a) /\ u4[5] = n
  <2>1. \A m \in 1..5 : u4[0 + m] = f[m]
    BY <1>7, <1>16 DEF At
  <2> QED
    BY <1>7, <2>1
<1>18. ASSUME NEW m \in 1..Len(u) PROVE u4[m] = u[m]
  <2>1. m \in 1..x /\ At(u, 0, u)
    BY <1>1, AtAll
  <2>2. At(u4, 0, u)
    BY <1>1, <1>15, <2>1
  <2>3. u4[0 + m] = u[m] /\ 0 + m = m
    BY <2>2 DEF At
  <2> QED
    BY <2>3
<1>19. IF a.format = "DarkSoulsRemastered" THEN u4[6] = 0 /\ At(u4, 6, w) ELSE u4[6] = x
  <2>1. 6 \in 1..Len(u)
    BY <1>1, <1>4
  <2>2. u4[6] = u[6]
    BY <1>18, <2>1
  <2> QED
    BY <1>1, <1>6, <1>15, <2>2
<1>20. ~IsDs1(a.format) => u4[7] = a.salt
  <2> SUFFICES ASSUME ~IsDs1(a.format) PROVE u4[7] = a.salt
    OBVIOUS
  <2>1. 7 \in 1..Len(u)
    BY <1>1, <1>4
  <2> QED
    BY <1>1, <1>18, <2>1
<1>21. ASSUME NEW b \in 1..n PROVE At(u4, BucketHeaderAt(a, b), BucketHeader(a, b))
  <2>1. b - 1 \in 0..n /\ b \in 1..Len(p)
    BY <1>3, <1>5
  <2>2. p[b] \in Seq(W32) /\ At(u1, Len(u) + SumOf(Lens(p), b - 1), p[b])
    BY <1>9, <2>1
  <2>3. SumOf(Lens(p), b - 1) = y * (b - 1) /\ p[b] = BucketHeader(a, b)
    BY <1>3, <2>1
  <2> DEFINE o == BucketHeaderAt(a, b)
  <2>4. o = Len(u) + SumOf(Lens(p), b - 1)
    BY <1>1, <2>3 DEF BucketHeaderAt, x, y
  <2>5. o \in Nat
    <3>1. SumOf(Lens(p), b - 1) \in Nat
      BY <1>3, <2>1, AtPart
    <3> QED
      BY <1>1, <1>4, <2>4, <3>1
  <2> HIDE DEF o
  <2>6. At(u1, o, p[b])
    BY <2>2, <2>4
  <2>7. At(u4, o, p[b])
    BY <1>10, <1>11, <1>12, <2>2, <2>5, <2>6
  <2> QED
    BY <2>3, <2>7 DEF o
<1>22. ASSUME NEW e \in 1..c PROVE At(u4, EntryAt(a, e), EntryOf(a, e))
  <2>1. e - 1 \in 0..c /\ e \in 1..Len(q)
    BY <1>3, <1>5
  <2>2. q[e] \in Seq(W32) /\ At(u2, Len(u1) + SumOf(Lens(q), e - 1), q[e])
    BY <1>10, <2>1
  <2>3. SumOf(Lens(q), e - 1) = g * (e - 1) /\ q[e] = EntryOf(a, e)
    BY <1>3, <2>1
  <2> DEFINE o == EntryAt(a, e)
  <2>4. o = Len(u1) + SumOf(Lens(q), e - 1)
    BY <1>13, <2>3 DEF EntryAt, g
  <2>5. o \in Nat
    <3>1. SumOf(Lens(q), e - 1) \in Nat
      BY <1>3, <2>1, AtPart
    <3> QED
      BY <1>4, <1>13, <2>4, <3>1
  <2> HIDE DEF o
  <2>6. At(u2, o, q[e])
    BY <2>2, <2>4
  <2>7. At(u4, o, q[e])
    BY <1>11, <1>12, <2>2, <2>5, <2>6
  <2> QED
    BY <2>3, <2>7 DEF o
<1>23. ASSUME NEW e \in 1..c PROVE At(u4, EncryptionAt(a, e), EncryptionOf(a, e))
  <2>1. e - 1 \in 0..c /\ e \in 1..Len(r)
    BY <1>3, <1>5
  <2>2. r[e] \in Seq(W32) /\ At(u3, Len(u2) + SumOf(Lens(r), e - 1), r[e])
    BY <1>11, <2>1
  <2> DEFINE o == EncryptionAt(a, e)
  <2>4. o = Len(u2) + SumOf(Lens(r), e - 1) /\ o \in Nat
    <3>1. e \in 1..Count(a)
      BY DEF c
    <3>2. o = EncryptionStart(a) + SumOf(EncW(a), e - 1) /\ o \in Nat
      BY <3>1, EncryptionIsAt
    <3> QED
      BY <1>3, <1>13, <3>2
  <2> HIDE DEF o
  <2>6. At(u3, o, r[e])
    BY <2>2, <2>4
  <2>7. At(u4, o, r[e])
    BY <1>12, <2>2, <2>4, <2>6
  <2>8. r[e] = EncryptionOf(a, e)
    BY <1>3
  <2> QED
    BY <2>7, <2>8 DEF o
<1>24. \A m \in 1..a.padding : u4[FileSize(a) + m] = 0
  BY <1>8, <1>12, <1>13 DEF Behind
<1> QED
  BY <1>2, <1>12, <1>14, <1>17, <1>19, <1>20, <1>21, <1>22, <1>23, <1>24
     DEF Layout, n, c, x, w

-----------------------------------------------------------------------------
(* What is read from a header that was written.                              *)
IsSalted(g) == g \in {"DarkSouls3", "DarkSouls2", "EldenRing"}

LEMMA HeaderIsRead ==
  ASSUME NEW a, IsArchive(a), NEW f, Layout(a, f)
  PROVE  /\ \A o \in {"LE", "BE"} : IsHeader(f, o) <=> o = a.order
         /\ file_size(f) = FileSize(a)
         /\ is_dsr_format(f) <=> a.format = "DarkSoulsRemastered"
         /\ bucket_count(f) = Len(a.buckets)
         /\ bucket_offset(f) = BucketsAt(a)
<1> DEFINE x == BucketsAt(a)
<1>1. /\ f.words \in Seq(W32) /\ Len(f.words) = FileSize(a) + a.padding /\ f.order = a.order
      /\ f.words[3] = 1 /\ f.words[4] = FileSize(a) /\ f.words[5] = Len(a.buckets)
      /\ IF a.format = "DarkSoulsRemastered"
         THEN f.words[6] = 0 /\ At(f.words, 6, Words64(a, x)) ELSE f.words[6] = x
  BY DEF Layout
<1>2. /\ FileSize(a) \in Nat /\ FileSize(a) >= EncryptionStart(a)
      /\ EncryptionStart(a) >= EntriesAt(a) /\ EntriesAt(a) >= 8 /\ EntriesAt(a) \in Nat
      /\ EncryptionStart(a) \in Nat /\ x \in Nat /\ x >= 6
  BY PlacesAre
<1>3. a.padding \in Nat
  BY ArchiveIs
<1>4. Len(a.buckets) \in 0..(M32 \div 2) - 1 /\ x \in 0..M64 - 1
  BY SmallWords
<1> HIDE DEF x
<1>5. Word(f, 2) = 1 /\ Word(f, 3) = FileSize(a) /\ Word(f, 4) = Len(a.buckets)
  BY <1>1 DEF Word
<1>6. Word(f, 5) = f.words[6]
  BY DEF Word
<1>7. InBytes(f, 0, HeaderWords)
  <2>1. 0 + 8 <= Len(f.words)
    BY <1>1, <1>2, <1>3
  <2> QED
    BY <2>1 DEF InBytes, HeaderWords
<1>8. \A o \in {"LE", "BE"} : IsHeader(f, o) <=> o = a.order
  BY <1>1, <1>5, <1>7 DEF IsHeader
<1>9. is_dsr_format(f) <=> a.format = "DarkSoulsRemastered"
  BY <1>1, <1>2, <1>6 DEF is_dsr_format
<1>10. bucket_count(f) = Len(a.buckets)
  <2>1. I32(f, 4) = Len(a.buckets)
    BY <1>4, <1>5, ReadI32
  <2>2. Len(a.buckets) >= 0
    BY <1>4, WidthsAre
  <2> QED
    BY <2>1, <2>2 DEF bucket_count
<1>11. bucket_offset(f) = x
  <2>1. CASE a.format = "DarkSoulsRemastered"
    <3>1. PICK o \in Nat : o = 6
      OBVIOUS
    <3>2. At(f.words, o, Words64(a, x))
      BY <1>1, <2>1, <3>1
    <3>3. U64(f, o) = x
      BY <1>1, <1>4, <3>2, ReadU64
    <3> QED
      BY <1>9, <2>1, <3>1, <3>3 DEF bucket_offset
  <2>2. CASE a.format # "DarkSoulsRemastered"
    BY <1>1, <1>6, <1>9, <2>2 DEF bucket_offset
  <2> QED
    BY <2>1, <2>2
<1>12. file_size(f) = FileSize(a)
  BY <1>5 DEF file_size
<1> QED
  BY <1>8, <1>9, <1>10, <1>11, <1>12 DEF x

LEMMA FormatsAre ==
  ASSUME NEW a, IsArchive(a), NEW f, Layout(a, f),
         a.format = "DarkSouls" => a.buckets[1] # <<>>
  PROVE  FormatsOf(f) = IF IsSalted(a.format) THEN <<"DarkSouls3", "DarkSouls2", "EldenRing">>
                        ELSE <<a.format>>
<1>1. is_dsr_format(f) <=> a.format = "DarkSoulsRemastered"
  BY HeaderIsRead
<1>2. a.format \in Formats /\ a.salt \in Nat /\ a.buckets \in Seq(Seq(Entry)) /\ Len(a.buckets) >= 1
      /\ Len(a.buckets) \in Nat
  BY ArchiveIs
<1>3. CASE IsSalted(a.format)
  <2>1. ~IsDs1(a.format) /\ a.format # "DarkSoulsRemastered" /\ BucketsAt(a) = 7 + a.salt
    BY <1>3 DEF IsSalted, IsDs1, BucketsAt
  <2>2. Word(f, 6) = a.salt /\ Word(f, 5) = 7 + a.salt
    BY <2>1 DEF Layout, Word
  <2>3. HasSalt(f)
    BY <1>1, <1>2, <2>1, <2>2 DEF HasSalt, SALT_OFFSET
  <2> QED
    BY <1>3, <2>3 DEF FormatsOf
<1>4. CASE a.format = "DarkSoulsRemastered"
  BY <1>1, <1>4 DEF FormatsOf, HasSalt, IsSalted
<1>5. CASE a.format = "DarkSouls"
  <2>1. BucketsAt(a) = 6 /\ Word(f, 5) = 6
    BY <1>5 DEF Layout, Word, BucketsAt
  <2>2. 1 \in 1..Len(a.buckets)
    BY <1>2
  <2>3. Len(a.buckets[1]) \in Nat /\ Len(a.buckets[1]) # 0
    <3>1. a.buckets[1] \in Seq(Entry)
      BY <1>2, <2>2, SeqAt
    <3> QED
      BY <1>5, <3>1
  <2>4. Word(f, 6) = Len(a.buckets[1])
    <3>1. PICK b : b = 1
      OBVIOUS
    <3>2. b \in 1..Len(a.buckets)
      BY <2>2, <3>1
    <3>3. At(f.words, BucketHeaderAt(a, b), BucketHeader(a, b))
      BY <3>2 DEF Layout
    <3>4. BucketHeader(a, b)[1] = Len(a.buckets[b]) /\ Len(BucketHeader(a, b)) = BucketWords(a.format)
      BY <3>2, BucketHeaderIs
    <3>5. BucketWords(a.format) = 2
      BY <1>5 DEF BucketWords
    <3>6. BucketHeaderAt(a, b) = 6
      BY <2>1, <3>1, <3>5 DEF BucketHeaderAt
    <3>7. f.words[6 + 1] = BucketHeader(a, b)[1]
      BY <3>3, <3>4, <3>5, <3>6 DEF At
    <3> QED
      BY <3>1, <3>4, <3>7 DEF Word
  <2>5. ~HasSalt(f)
    BY <2>1, <2>3, <2>4 DEF HasSalt, SALT_OFFSET
  <2> QED
    BY <1>1, <1>5, <2>5 DEF FormatsOf, IsSalted
<1> QED
  BY <1>2, <1>3, <1>4, <1>5 DEF Formats, IsSalted

(* The bucket headers, read as the written format or any other that has no   *)
(* others.                                                                   *)
ReadAs(a, g) == g \in Formats /\ (g = a.format \/ (IsSalted(g) /\ IsSalted(a.format)))

LEMMA ReadAsIs ==
  ASSUME NEW a, NEW g, ReadAs(a, g)
  PROVE  /\ BucketWords(g) = BucketWords(a.format)
         /\ (g = "DarkSoulsRemastered" <=> a.format = "DarkSoulsRemastered")
         /\ g \in Formats
BY DEF ReadAs, IsSalted, BucketWords

LEMMA BucketsAreRead ==
  ASSUME NEW a, IsArchive(a), NEW f, Layout(a, f), NEW g, ReadAs(a, g)
  PROVE  /\ BucketsInBytes(f, g)
         /\ \A b \in 1..Len(a.buckets) :
              Buckets(f, g)[b] = [count |-> Len(a.buckets[b]), at |-> BucketAt(a, b)]
<1> DEFINE n == Len(a.buckets)
           y == BucketWords(a.format)
           x == BucketsAt(a)
<1>1. bucket_count(f) = n /\ bucket_offset(f) = x
  BY HeaderIsRead
<1>2. BucketWords(g) = y /\ (g = "DarkSoulsRemastered" <=> a.format = "DarkSoulsRemastered")
  BY ReadAsIs
<1>3. /\ n \in Nat /\ a.format \in Formats /\ a.padding \in Nat /\ a.buckets \in Seq(Seq(Entry))
  BY ArchiveIs
<1>4. /\ y \in Nat /\ y >= 2 /\ y = (IF a.format = "DarkSoulsRemastered" THEN 4 ELSE 2)
  BY <1>3, WordCounts
<1>5. /\ x \in Nat /\ x + y * n <= Len(f.words) /\ f.words \in Seq(W32) /\ f.order = a.order
  <2>1. /\ x \in Nat /\ EntriesAt(a) = x + y * n /\ EntriesAt(a) \in Nat
        /\ EncryptionStart(a) \in Nat /\ EncryptionStart(a) >= EntriesAt(a)
        /\ FileSize(a) \in Nat /\ FileSize(a) >= EncryptionStart(a)
    BY PlacesAre
  <2>2. /\ Len(f.words) = FileSize(a) + a.padding /\ f.words \in Seq(W32) /\ f.order = a.order
    BY DEF Layout
  <2>3. x + y * n <= Len(f.words)
    <3> HIDE DEF x, y, n
    <3> QED
      BY <1>3, <2>1, <2>2
  <2> QED
    BY <2>1, <2>2, <2>3
<1>6. ASSUME NEW b \in 1..n
      PROVE  /\ BucketHeaderAt(a, b) = x + y * (b - 1) /\ BucketHeaderAt(a, b) \in Nat
             /\ Word(f, BucketHeaderAt(a, b)) = Len(a.buckets[b])
             /\ IF a.format = "DarkSoulsRemastered"
                THEN /\ Word(f, BucketHeaderAt(a, b) + 1) = 1
                     /\ U64(f, BucketHeaderAt(a, b) + 2) = BucketAt(a, b)
                ELSE Word(f, BucketHeaderAt(a, b) + 1) = BucketAt(a, b)
             /\ I32(f, BucketHeaderAt(a, b)) = Len(a.buckets[b])
  <2> DEFINE o == BucketHeaderAt(a, b)
             t == BucketHeader(a, b)
  <2>1. o = x + y * (b - 1)
    BY DEF BucketHeaderAt
  <2>2. o \in Nat
    <3>1. b - 1 \in Nat
      BY <1>3
    <3> HIDE DEF x, y, o
    <3>2. y * (b - 1) \in Nat
      BY <1>4, <3>1
    <3> QED
      BY <1>5, <2>1, <3>2
  <2>3. At(f.words, o, t)
    BY DEF Layout
  <2>4. /\ t \in Seq(W32) /\ Len(t) = y /\ t[1] = Len(a.buckets[b])
        /\ IF a.format = "DarkSoulsRemastered"
           THEN t[2] = 1 /\ At(t, 2, Words64(a, BucketAt(a, b))) ELSE t[2] = BucketAt(a, b)
    BY BucketHeaderIs
  <2>5. Len(a.buckets[b]) \in 0..(M32 \div 2) - 1 /\ BucketAt(a, b) \in W32
    BY BucketIsAt
  <2>6. BucketAt(a, b) \in 0..M64 - 1
    BY <2>5, WidthsAre DEF W32
  <2> HIDE DEF o, t
  <2>7. Word(f, o) = t[1] /\ Word(f, o + 1) = t[2]
    <3>1. f.words[o + 1] = t[1] /\ f.words[o + 2] = t[2]
      BY <1>4, <2>3, <2>4 DEF At
    <3>2. (o + 1) + 1 = o + 2
      BY <2>2
    <3> QED
      BY <3>1, <3>2 DEF Word
  <2>8. a.format = "DarkSoulsRemastered" => U64(f, o + 2) = BucketAt(a, b)
    <3> SUFFICES ASSUME a.format = "DarkSoulsRemastered" PROVE U64(f, o + 2) = BucketAt(a, b)
      OBVIOUS
    <3> DEFINE w == Words64(a, BucketAt(a, b))
    <3>1. w \in Seq(W32)
      BY <2>6, Words64Are
    <3>2. PICK z \in Nat : z = 2
      OBVIOUS
    <3>3. At(t, z, w)
      BY <2>4, <3>2
    <3> HIDE DEF w
    <3>4. At(f.words, o + z, w)
      BY <1>5, <2>2, <2>3, <2>4, <3>1, <3>3, AtInside
    <3>5. o + z \in Nat
      BY <2>2
    <3>6. U64(f, o + z) = BucketAt(a, b)
      BY <1>5, <2>6, <3>4, <3>5, ReadU64 DEF w
    <3> QED
      BY <3>2, <3>6
  <2>9. I32(f, o) = Len(a.buckets[b])
    BY <2>4, <2>5, <2>7, ReadI32
  <2> QED
    BY <2>1, <2>2, <2>4, <2>7, <2>8, <2>9 DEF o
<1> HIDE DEF n, y, x
<1>7. BucketsInBytes(f, g)
  <2>1. InBytes(f, bucket_offset(f), bucket_count(f) * BucketWords(g))
    <3>1. n * y = y * n /\ n * y >= 0
      BY <1>3, <1>4
    <3> QED
      BY <1>1, <1>2, <1>5, <3>1 DEF InBytes
  <2>2. ASSUME g = "DarkSoulsRemastered", NEW b \in 1..n
        PROVE  Word(f, x + 4 * (b - 1) + 1) = 1
    <3>1. y = 4 /\ a.format = "DarkSoulsRemastered"
      BY <1>2, <1>4, <2>2
    <3>2. Word(f, BucketHeaderAt(a, b) + 1) = 1 /\ BucketHeaderAt(a, b) = x + y * (b - 1)
      BY <1>6, <3>1
    <3> QED
      BY <3>1, <3>2
  <2> QED
    BY <1>1, <2>1, <2>2 DEF BucketsInBytes
<1>8. ASSUME NEW b \in 1..n
      PROVE  Buckets(f, g)[b] = [count |-> Len(a.buckets[b]), at |-> BucketAt(a, b)]
  <2> DEFINE o == BucketHeaderAt(a, b)
  <2>1. o = x + y * (b - 1)
    BY <1>6
  <2>2. Buckets(f, g)[b] =
          [count |-> I32(f, o),
           at |-> IF g = "DarkSoulsRemastered" THEN U64(f, o + 2) ELSE Word(f, o + 1)]
    <3> HIDE DEF o
    <3> QED
      BY <1>1, <1>2, <2>1 DEF Buckets
  <2>3. I32(f, o) = Len(a.buckets[b])
        /\ (IF g = "DarkSoulsRemastered" THEN U64(f, o + 2) ELSE Word(f, o + 1)) = BucketAt(a, b)
    BY <1>2, <1>6
  <2> HIDE DEF o
  <2> QED
    BY <2>2, <2>3
<1> QED
  BY <1>7, <1>8 DEF n

(* The entries are those of one bucket after another.                        *)
SlotAt(a, b, g, e) == BucketAt(a, b) + EntryWords(g) * (e - 1)

LEMMA EntriesAreRead ==
  ASSUME NEW a, IsArchive(a), NEW f, Layout(a, f), NEW g, ReadAs(a, g)
  PROVE  /\ DOMAIN Entries(f, g) = 1..Count(a) /\ IsSeq(Entries(f, g))
         /\ \A b \in 1..Len(a.buckets) : \A e \in 1..Len(a.buckets[b]) :
              /\ SumOf(Lens(a.buckets), b - 1) + e \in 1..Count(a)
              /\ Entries(f, g)[SumOf(Lens(a.buckets), b - 1) + e] =
                   FileEntry(f, g, SlotAt(a, b, g, e))
<1> DEFINE n == Len(a.buckets)
           In(b) == [e \in 1..Len(a.buckets[b]) |-> FileEntry(f, g, SlotAt(a, b, g, e))]
           ss == [b \in 1..n |-> In(b)]
           S == {FileEntry(f, g, o) : o \in Int}
           w == Lens(a.buckets)
<1>1. bucket_count(f) = n
  BY HeaderIsRead
<1>2. \A b \in 1..n : Buckets(f, g)[b] = [count |-> Len(a.buckets[b]), at |-> BucketAt(a, b)]
  BY BucketsAreRead
<1>3. Entries(f, g) = FlattenSeq(ss)
  <2> DEFINE tt == [b \in 1..n |->
               LET bucket == Buckets(f, g)[b]
               IN  [e \in 1..bucket.count |->
                     FileEntry(f, g, bucket.at + EntryWords(g) * (e - 1))]]
  <2>1. Entries(f, g) = FlattenSeq(tt)
    BY <1>1 DEF Entries
  <2>2. ASSUME NEW b \in 1..n PROVE tt[b] = ss[b]
    <3> HIDE DEF tt, ss, n
    <3>0. Buckets(f, g)[b] = [count |-> Len(a.buckets[b]), at |-> BucketAt(a, b)]
      BY <1>2
    <3>1. Buckets(f, g)[b].count = Len(a.buckets[b]) /\ Buckets(f, g)[b].at = BucketAt(a, b)
      BY <3>0
    <3> USE DEF tt, ss
    <3>2. tt[b] = [e \in 1..Buckets(f, g)[b].count |->
                     FileEntry(f, g, Buckets(f, g)[b].at + EntryWords(g) * (e - 1))]
      OBVIOUS
    <3>3. ss[b] = [e \in 1..Len(a.buckets[b]) |->
                     FileEntry(f, g, BucketAt(a, b) + EntryWords(g) * (e - 1))]
      BY DEF SlotAt
    <3> HIDE DEF tt, ss
    <3> QED
      BY <3>1, <3>2, <3>3
  <2>3. tt = [b \in 1..n |-> tt[b]] /\ ss = [b \in 1..n |-> ss[b]]
    OBVIOUS
  <2> HIDE DEF tt, ss
  <2>4. tt = ss
    <3>1. [b \in 1..n |-> tt[b]] = [b \in 1..n |-> ss[b]]
      BY <2>2, Zenon
    <3> QED
      BY <2>3, <3>1, Zenon
  <2> QED
    BY <2>1, <2>4
<1>4. /\ a.buckets \in Seq(Seq(Entry)) /\ n \in Nat /\ a.format \in Formats
  BY ArchiveIs
<1>5. /\ w \in [1..n -> Nat] /\ \A b \in 1..n : w[b] = Len(a.buckets[b]) /\ Len(a.buckets[b]) \in Nat
  <2>1. /\ w \in [1..n -> Nat] /\ \A b \in 1..n : w[b] = Len(a.buckets[b])
    BY <1>4, LensAreNat
  <2> HIDE DEF w
  <2>2. \A b \in 1..n : w[b] \in Nat
    BY <2>1
  <2> QED
    BY <2>1, <2>2
<1>6. EntryWords(g) \in Nat
  <2>1. g \in Formats
    BY ReadAsIs
  <2> QED
    BY <2>1, WordCounts
<1>7. ASSUME NEW b \in 1..n
      PROVE  /\ ss[b] \in Seq(S) /\ Len(ss[b]) = Len(a.buckets[b])
             /\ \A e \in 1..Len(a.buckets[b]) : ss[b][e] = FileEntry(f, g, SlotAt(a, b, g, e))
  <2> DEFINE c == Len(a.buckets[b])
             t == ss[b]
  <2>1. t = In(b) /\ c \in Nat
    BY <1>5
  <2>2. t = [e \in 1..c |-> t[e]] /\ \A e \in 1..c : t[e] = FileEntry(f, g, SlotAt(a, b, g, e))
    <3> HIDE DEF ss, t
    <3> QED
      BY <2>1
  <2>3. ASSUME NEW e \in 1..c PROVE t[e] \in S
    <3>1. SlotAt(a, b, g, e) \in Int
      <4>1. BucketAt(a, b) \in Nat
        BY BucketIsAt
      <4>2. e - 1 \in Int
        BY <2>1
      <4>3. EntryWords(g) * (e - 1) \in Int
        BY <1>6, <4>2
      <4> QED
        BY <4>1, <4>3 DEF SlotAt
    <3>2. FileEntry(f, g, SlotAt(a, b, g, e)) \in S
      BY <3>1
    <3> QED
      BY <2>2, <3>2
  <2> HIDE DEF t, c, S, ss
  <2>4. t \in Seq(S) /\ Len(t) = c
    <3>1. c \in Nat
      BY <2>1
    <3>2. t = [e \in 1..c |-> t[e]]
      BY <2>2, Zenon
    <3>3. \A e \in 1..c : t[e] \in S
      BY <2>3, Zenon
    <3> QED
      BY <3>1, <3>2, <3>3, IsSeqOf, Zenon
  <2> QED
    BY <2>2, <2>4 DEF t, c
<1>8. ss = [b \in 1..n |-> ss[b]]
  OBVIOUS
<1> HIDE DEF ss, S
<1>9. ss \in Seq(Seq(S)) /\ Len(ss) = n
  <2> DEFINE V == Seq(S)
  <2>1. \A b \in 1..n : ss[b] \in V
    BY <1>7
  <2> HIDE DEF V
  <2>2. ss \in Seq(V) /\ Len(ss) = n
    BY <1>4, <1>8, <2>1, IsSeqOf
  <2> QED
    BY <2>2 DEF V
<1>10. Lens(ss) = w
  <2> DEFINE A == Lens(ss)
  <2>1. A \in [1..n -> Nat] /\ \A b \in 1..n : A[b] = Len(ss[b])
    BY <1>9, LensAreNat
  <2> HIDE DEF A, w
  <2>2. \A b \in 1..n : A[b] = w[b]
    BY <1>5, <1>7, <2>1
  <2>3. A = [b \in 1..n |-> A[b]] /\ w = [b \in 1..n |-> w[b]]
    BY <1>5, <2>1
  <2>4. [b \in 1..n |-> A[b]] = [b \in 1..n |-> w[b]]
    BY <2>2, Zenon
  <2>5. A = w
    BY <2>3, <2>4, Zenon
  <2> QED
    BY <2>5 DEF A
<1> DEFINE es == FlattenSeq(ss)
<1>11. es \in Seq(S) /\ PartsUpTo(ss, n, es)
  BY <1>9, FlattenIs
<1> HIDE DEF es
<1>12. Len(es) = SumOf(w, n) /\ Count(a) = SumOf(w, n)
  <2>1. PartsUpTo(a.buckets, n, Written(a))
    BY WrittenIs
  <2> QED
    BY <1>10, <1>11, <2>1 DEF PartsUpTo, Count
<1>13. DOMAIN es = 1..Count(a) /\ IsSeq(es)
  <2>1. DOMAIN es = 1..Len(es) /\ Len(es) \in Nat /\ es = [m \in 1..Len(es) |-> es[m]]
    BY <1>11
  <2> QED
    BY <1>12, <2>1 DEF IsSeq
<1>14. ASSUME NEW b \in 1..n, NEW e \in 1..Len(a.buckets[b])
       PROVE  /\ SumOf(w, b - 1) + e \in 1..Count(a)
              /\ es[SumOf(w, b - 1) + e] = FileEntry(f, g, SlotAt(a, b, g, e))
  <2>1. /\ SumOf(w, b - 1) \in Nat /\ Len(a.buckets[b]) \in Nat
        /\ SumOf(w, b - 1) + Len(a.buckets[b]) <= Count(a)
    BY BucketIsAt
  <2>2. Count(a) \in Nat
    BY WrittenIs
  <2>3. SumOf(w, b - 1) + e \in 1..Count(a)
    <3> DEFINE x == SumOf(w, b - 1)
               c == Len(a.buckets[b])
               d == Count(a)
    <3>1. x \in Nat /\ c \in Nat /\ x + c <= d /\ d \in Nat /\ e \in 1..c
      BY <2>1, <2>2
    <3> HIDE DEF x, c, d
    <3>2. x + e \in 1..d
      BY <3>1
    <3> QED
      BY <3>2 DEF x, d
  <2>4. e \in 1..Len(ss[b]) /\ ss[b][e] = FileEntry(f, g, SlotAt(a, b, g, e))
    BY <1>7
  <2>5. es[SumOf(Lens(ss), b - 1) + e] = ss[b][e]
    BY <1>11, <2>4 DEF PartsUpTo
  <2> QED
    BY <1>10, <2>3, <2>4, <2>5
<1> QED
  BY <1>3, <1>13, <1>14 DEF es, n, w

(* Every entry of the archive is one of a bucket.                            *)
LEMMA EntryIsInBucket ==
  ASSUME NEW a, IsArchive(a), NEW m \in 1..Count(a)
  PROVE  \E b \in 1..Len(a.buckets) : \E e \in 1..Len(a.buckets[b]) :
           /\ m = SumOf(Lens(a.buckets), b - 1) + e
           /\ Written(a)[m] = a.buckets[b][e]
           /\ SlotAt(a, b, a.format, e) = EntryAt(a, m)
<1>1. a.buckets \in Seq(Seq(Entry)) /\ a.format \in Formats
  BY ArchiveIs
<1>2. Count(a) = SumOf(Lens(a.buckets), Len(a.buckets))
  BY WrittenIs DEF PartsUpTo, Count
<1>3a. PICK b \in 1..Len(a.buckets) : \E e \in 1..Len(a.buckets[b]) :
         m = SumOf(Lens(a.buckets), b - 1) + e
  <2>1. m \in 1..SumOf(Lens(a.buckets), Len(a.buckets))
    BY <1>2, Zenon
  <2> QED
    BY <1>1, <2>1, PlaceIsIn, Zenon
<1>3. PICK e \in 1..Len(a.buckets[b]) : m = SumOf(Lens(a.buckets), b - 1) + e
  BY <1>3a
<1>4. Written(a)[m] = a.buckets[b][e]
  BY <1>3, WrittenIs DEF PartsUpTo
<1>5. SlotAt(a, b, a.format, e) = EntryAt(a, m)
  <2> DEFINE p == SumOf(Lens(a.buckets), b - 1)
             y == EntryWords(a.format)
             s == EntriesAt(a)
  <2>1. p \in Nat /\ y \in Nat /\ s \in Nat /\ e \in Nat
    <3>1. Len(a.buckets[b]) \in Nat /\ p \in Nat
      BY BucketIsAt
    <3> QED
      BY <1>1, <3>1, WordCounts, PlacesAre
  <2>2. SlotAt(a, b, a.format, e) = s + y * p + y * (e - 1) /\ EntryAt(a, m) = s + y * ((p + e) - 1)
    BY <1>3 DEF SlotAt, EntryAt, BucketAt
  <2> HIDE DEF p, y, s
  <2>3. y * ((p + e) - 1) = y * p + y * (e - 1)
    BY <2>1
  <2>4. y * p \in Int /\ y * (e - 1) \in Int
    BY <2>1
  <2> QED
    BY <2>1, <2>2, <2>3, <2>4
<1> QED
  BY <1>3, <1>4, <1>5

LEMMA OwnEntriesAreRead ==
  ASSUME NEW a, IsArchive(a), NEW f, Layout(a, f), NEW m \in 1..Count(a)
  PROVE  Entries(f, a.format)[m] = FileEntry(f, a.format, EntryAt(a, m))
<1>1. ReadAs(a, a.format)
  BY ArchiveIs DEF ReadAs
<1>2a. PICK b \in 1..Len(a.buckets) : \E e \in 1..Len(a.buckets[b]) :
         /\ m = SumOf(Lens(a.buckets), b - 1) + e
         /\ SlotAt(a, b, a.format, e) = EntryAt(a, m)
  BY EntryIsInBucket
<1>2. PICK e \in 1..Len(a.buckets[b]) :
        /\ m = SumOf(Lens(a.buckets), b - 1) + e
        /\ SlotAt(a, b, a.format, e) = EntryAt(a, m)
  BY <1>2a
<1>3. Entries(f, a.format)[SumOf(Lens(a.buckets), b - 1) + e] =
        FileEntry(f, a.format, SlotAt(a, b, a.format, e))
  BY <1>1, EntriesAreRead
<1> QED
  BY <1>2, <1>3

(* What a field holds is what is read where the field is.                    *)
LEMMA FieldIsRead ==
  ASSUME NEW f, NEW a, f.order = a.order, f.words \in Seq(W32), NEW o \in Nat,
         NEW t \in Seq(W32), At(f.words, o, t)
  PROVE  /\ \A d \in Nat : \A n \in 0..M64 - 1 : At(t, d, Words64(a, n)) => U64(f, o + d) = n
         /\ \A d \in Nat : \A x \in W32 : \A y \in W32 : At(t, d, <<x, y>>) =>
              Word(f, o + d) = x /\ Word(f, o + (d + 1)) = y
<1>1. ASSUME NEW d \in Nat, NEW n \in 0..M64 - 1, At(t, d, Words64(a, n))
      PROVE  U64(f, o + d) = n
  <2> DEFINE w == Words64(a, n)
  <2>1. w \in Seq(W32)
    BY Words64Are
  <2>2. At(t, d, w)
    BY <1>1
  <2> HIDE DEF w
  <2>3. At(f.words, o + d, w)
    BY <2>1, <2>2, AtInside
  <2>4. o + d \in Nat
    OBVIOUS
  <2> QED
    BY <2>3, <2>4, ReadU64 DEF w
<1>2. ASSUME NEW d \in Nat, NEW x \in W32, NEW y \in W32, At(t, d, <<x, y>>)
      PROVE  Word(f, o + d) = x /\ Word(f, o + (d + 1)) = y
  <2> DEFINE w == <<x, y>>
             V == W32
  <2> HIDE DEF V
  <2>1. w \in Seq(V) /\ Len(w) = 2 /\ w[1] = x /\ w[2] = y
    BY DEF V
  <2>2. At(t, d, w)
    BY <1>2
  <2> HIDE DEF w
  <2>3. At(f.words, o + d, w)
    BY <2>1, <2>2, AtInside DEF V
  <2>4. o + d \in Nat
    OBVIOUS
  <2> DEFINE p == o + d
  <2>5. f.words[p + 1] = x /\ f.words[p + 2] = y
    <3> HIDE DEF p
    <3>1. At(f.words, p, w)
      BY <2>3 DEF p
    <3> QED
      BY <2>1, <3>1 DEF At
  <2>6. (o + (d + 1)) + 1 = p + 2
    OBVIOUS
  <2> QED
    BY <2>5, <2>6 DEF Word
<1> QED
  BY <1>1, <1>2

(* The fields of an entry that was written.                                  *)
FieldsAre(a, f, e, o) ==
  IF U64_HASH(a.format)
  THEN /\ U64(f, o + 0) = Written(a)[e].hash
       /\ Word(f, o + 2) = Written(a)[e].size /\ Word(f, o + (2 + 1)) = Written(a)[e].unpadded
       /\ U64(f, o + 4) = Written(a)[e].offset
       /\ U64(f, o + 6) = CryptoAt(a, e) /\ U64(f, o + 8) = CryptoAt(a, e)
  ELSE /\ Word(f, o + 0) = Written(a)[e].hash /\ Word(f, o + (0 + 1)) = Written(a)[e].size
       /\ U64(f, o + 2) = Written(a)[e].offset
       /\ ~IsDs1(a.format) => U64(f, o + 4) = CryptoAt(a, e) /\ U64(f, o + 6) = CryptoAt(a, e)
       /\ a.format = "DarkSouls3" =>
            Word(f, o + 8) = Written(a)[e].unpadded /\ Word(f, o + (8 + 1)) = 0

LEMMA EntryPlace ==
  ASSUME NEW a, IsArchive(a), NEW e \in 1..Count(a)
  PROVE  /\ EntryAt(a, e) \in Nat /\ EntryAt(a, e) >= 8
         /\ EntryAt(a, e) + EntryWords(a.format) <= EncryptionStart(a)
<1> DEFINE y == EntryWords(a.format)
           s == EntriesAt(a)
           c == Count(a)
<1>1. y \in Nat /\ s \in Nat /\ s >= 8 /\ c \in Nat /\ e \in 1..c
  BY ArchiveIs, WordCounts, PlacesAre, WrittenIs
<1>2. EntryAt(a, e) = s + y * (e - 1) /\ EncryptionStart(a) = s + y * c
  BY DEF EntryAt, EncryptionStart
<1> HIDE DEF y, s, c
<1>3. y * (e - 1) \in Nat /\ y * (e - 1) + y = y * e
  BY <1>1
<1>4. y * e <= y * c /\ y * c \in Nat /\ y * e \in Nat
  BY <1>1
<1> QED
  BY <1>1, <1>2, <1>3, <1>4 DEF y

LEMMA FieldsAreRead ==
  ASSUME NEW a, IsArchive(a), NEW f, Layout(a, f), NEW e \in 1..Count(a)
  PROVE  FieldsAre(a, f, e, EntryAt(a, e))
<1> DEFINE en == Written(a)[e]
           o == EntryAt(a, e)
           t == EntryOf(a, e)
           C == CryptoAt(a, e)
<1>1. /\ en.hash \in 0..M64 - 1 /\ en.offset \in 0..M64 - 1
      /\ en.size \in 0..(M32 \div 2) - 1 /\ en.unpadded \in 0..(M32 \div 2) - 1
      /\ EntryFits(a, en)
  BY WrittenIs, EntryIs
<1>2. C \in 0..M64 - 1
  BY CryptoIsWord
<1>3. en.size \in W32 /\ en.unpadded \in W32 /\ 0 \in W32 /\ (~U64_HASH(a.format) => en.hash \in W32)
  <2>1. M32 \in Nat /\ M32 > 1 /\ M32 = 2 * (M32 \div 2) /\ (M32 \div 2) \in Nat /\ M64 \in Nat
    BY WidthsAre
  <2>2. ~U64_HASH(a.format) => en.hash < M32
    BY <1>1 DEF EntryFits
  <2> HIDE DEF en
  <2> QED
    BY <1>1, <2>1, <2>2 DEF W32
<1>4. f.words \in Seq(W32) /\ f.order = a.order /\ At(f.words, o, t)
  BY DEF Layout
<1>5. t \in Seq(W32) /\ EntryFields(a, e, t)
  BY EntryOfIs
<1>6. o \in Nat
  BY EntryPlace
<1> HIDE DEF o, t
<1>7. \A d \in Nat : \A n \in 0..M64 - 1 : At(t, d, Words64(a, n)) => U64(f, o + d) = n
  BY <1>4, <1>5, <1>6, FieldIsRead
<1>8. \A d \in Nat : \A x \in W32 : \A y \in W32 : At(t, d, <<x, y>>) =>
         Word(f, o + d) = x /\ Word(f, o + (d + 1)) = y
  BY <1>4, <1>5, <1>6, FieldIsRead
<1>9. 0 \in Nat /\ 2 \in Nat /\ 4 \in Nat /\ 6 \in Nat /\ 8 \in Nat
  OBVIOUS
<1> DEFINE D == 0..M64 - 1
<1>10. en.hash \in D /\ en.offset \in D /\ C \in D
  BY <1>1, <1>2
<1>11. \A d \in Nat : \A n \in D : At(t, d, Words64(a, n)) => U64(f, o + d) = n
  BY <1>7
<1> HIDE DEF D
<1>12. CASE U64_HASH(a.format)
  <2>1. /\ At(t, 0, Words64(a, en.hash)) /\ At(t, 2, <<en.size, en.unpadded>>)
        /\ At(t, 4, Words64(a, en.offset)) /\ At(t, 6, Words64(a, C)) /\ At(t, 8, Words64(a, C))
    BY <1>5, <1>12 DEF EntryFields
  <2> HIDE DEF en, C
  <2>2. U64(f, o + 0) = en.hash /\ U64(f, o + 4) = en.offset /\ U64(f, o + 6) = C /\ U64(f, o + 8) = C
    BY <1>9, <1>10, <1>11, <2>1, Zenon
  <2>3. Word(f, o + 2) = en.size /\ Word(f, o + (2 + 1)) = en.unpadded
    BY <1>3, <1>8, <1>9, <2>1, Zenon
  <2> QED
    BY <1>12, <2>2, <2>3 DEF FieldsAre, en, C, o
<1>13. CASE ~U64_HASH(a.format)
  <2>1. /\ At(t, 0, <<en.hash, en.size>>) /\ At(t, 2, Words64(a, en.offset))
        /\ ~IsDs1(a.format) => At(t, 4, Words64(a, C)) /\ At(t, 6, Words64(a, C))
        /\ a.format = "DarkSouls3" => At(t, 8, <<en.unpadded, 0>>)
    BY <1>5, <1>13 DEF EntryFields
  <2> HIDE DEF en, C
  <2>2. U64(f, o + 2) = en.offset
    BY <1>9, <1>10, <1>11, <2>1, Zenon
  <2>3. ~IsDs1(a.format) => U64(f, o + 4) = C /\ U64(f, o + 6) = C
    BY <1>9, <1>10, <1>11, <2>1, Zenon
  <2>4. Word(f, o + 0) = en.hash /\ Word(f, o + (0 + 1)) = en.size
    BY <1>3, <1>8, <1>9, <1>13, <2>1, Zenon
  <2>5. a.format = "DarkSouls3" => Word(f, o + 8) = en.unpadded /\ Word(f, o + (8 + 1)) = 0
    BY <1>3, <1>8, <1>9, <2>1, Zenon
  <2> QED
    BY <1>13, <2>2, <2>3, <2>4, <2>5 DEF FieldsAre, en, C, o
<1> QED
  BY <1>12, <1>13

(* Read as what it was written as, an entry is the one written.              *)
IsEntry(a, e, r) ==
  LET en == Written(a)[e]
  IN  /\ r.hash = en.hash /\ r.size = en.size /\ r.unpadded = en.unpadded
      /\ r.offset = en.offset /\ r.hash_offset = CryptoAt(a, e)
      /\ r.encryption_offset = CryptoAt(a, e)

LEMMA OwnEntryIsRead ==
  ASSUME NEW a, IsArchive(a), NEW f, Layout(a, f), NEW e \in 1..Count(a)
  PROVE  IsEntry(a, e, FileEntry(f, a.format, EntryAt(a, e)))
<1> DEFINE en == Written(a)[e]
           o == EntryAt(a, e)
           C == CryptoAt(a, e)
           g == a.format
           r == FileEntry(f, g, o)
<1>1. FieldsAre(a, f, e, o)
  BY FieldsAreRead
<1>2. /\ en.size \in 0..(M32 \div 2) - 1 /\ en.unpadded \in 0..(M32 \div 2) - 1
      /\ EntryFits(a, en)
  BY WrittenIs, EntryIs
<1>3. o \in Nat /\ g \in Formats
  BY EntryPlace, ArchiveIs
<1>4. IsDs1(g) => C = 0
  BY <1>2 DEF EntryFits, CryptoAt
<1>5. g \notin {"DarkSouls3", "EldenRing"} => en.unpadded = 0
  <2>1. (M32 \div 2) \in Nat
    BY WidthsAre
  <2>2. g \notin {"DarkSouls3", "EldenRing"} => en.unpadded <= 0
    BY <1>2 DEF EntryFits
  <2> HIDE DEF en
  <2> QED
    BY <1>2, <2>1, <2>2
<1> HIDE DEF o
<1>6. o + 0 = o /\ o + (0 + 1) = o + 1 /\ o + (2 + 1) = o + 3 /\ o + (8 + 1) = o + 9
  BY <1>3
<1>7. CASE U64_HASH(g)
  <2>1. /\ U64(f, o) = en.hash
       /\ Word(f, o + 2) = en.size /\ Word(f, o + 3) = en.unpadded
       /\ U64(f, o + 4) = en.offset
       /\ U64(f, o + 6) = C /\ U64(f, o + 8) = C
    BY <1>1, <1>6, <1>7 DEF FieldsAre
  <2>2. I32(f, o + 2) = en.size /\ I32(f, o + 3) = en.unpadded
    BY <1>2, <2>1, ReadI32
  <2>3. r = [hash |-> U64(f, o), size |-> I32(f, o + 2),
        unpadded |-> I32(f, o + 3), offset |-> U64(f, o + 4),
        hash_offset |-> U64(f, o + 6), encryption_offset |-> U64(f, o + 8)]
    BY <1>7 DEF FileEntry
  <2> HIDE DEF r, en, C, g
  <2>4. /\ r.hash = en.hash /\ r.size = en.size /\ r.unpadded = en.unpadded
        /\ r.offset = en.offset /\ r.hash_offset = C /\ r.encryption_offset = C
    BY <2>1, <2>2, <2>3
  <2> QED
    BY <2>4 DEF IsEntry, r, en, C, g, o
<1>8. CASE ~U64_HASH(g)
  <2>1. /\ Word(f, o) = en.hash /\ Word(f, o + 1) = en.size /\ U64(f, o + 2) = en.offset
        /\ ~IsDs1(g) => U64(f, o + 4) = C /\ U64(f, o + 6) = C
        /\ g = "DarkSouls3" => Word(f, o + 8) = en.unpadded
    BY <1>1, <1>6, <1>8 DEF FieldsAre
  <2>2. I32(f, o + 1) = en.size /\ (g = "DarkSouls3" => I32(f, o + 8) = en.unpadded)
    BY <1>2, <2>1, ReadI32
  <2>3. r = [hash |-> Word(f, o), size |-> I32(f, o + 1),
        offset |-> U64(f, o + 2),
        unpadded |-> IF g = "DarkSouls3" THEN I32(f, o + 8) ELSE 0,
        hash_offset |-> IF IsDs1(g) THEN 0 ELSE U64(f, o + 4),
        encryption_offset |-> IF IsDs1(g) THEN 0 ELSE U64(f, o + 6)]
    BY <1>8 DEF FileEntry
  <2>4. g # "DarkSouls3" => en.unpadded = 0
    BY <1>3, <1>5, <1>8 DEF Formats, U64_HASH
  <2> HIDE DEF r, en, C, g
  <2>5. /\ r.hash = en.hash /\ r.size = en.size /\ r.unpadded = en.unpadded
        /\ r.offset = en.offset /\ r.hash_offset = C /\ r.encryption_offset = C
    BY <1>4, <2>1, <2>2, <2>3, <2>4
  <2> QED
    BY <2>5 DEF IsEntry, r, en, C, g, o
<1> QED
  BY <1>7, <1>8

LEMMA EncryptionIsRead ==
  ASSUME NEW a, IsArchive(a), NEW f, Layout(a, f), NEW e \in 1..Count(a), Written(a)[e].encrypted
  PROVE  /\ EncryptionInBytes(f, EncryptionAt(a, e))
         /\ Ranges(f, EncryptionAt(a, e)) = Written(a)[e].ranges
<1> DEFINE q == EncryptionAt(a, e)
           t == EncryptionOf(a, e)
           rs == Written(a)[e].ranges
           l == Len(rs)
           R == [start : 0..M64 - 1, end : 0..M64 - 1]
<1>1. rs \in Seq(R)
  BY WrittenIs, EntryIs
<1>2. l \in Nat /\ EncW(a)[e] = 5 + 4 * l /\ l \in 0..(M32 \div 2) - 1
  BY EncWIs, EncryptionOfIs
<1>3. t \in Seq(W32) /\ Len(t) = 5 + 4 * l
  BY <1>2, EncryptionOfIs
<1>4. /\ t[5] = l
      /\ \A r \in 1..l : /\ At(t, 5 + 4 * (r - 1), Words64(a, rs[r].start))
                         /\ At(t, 5 + 4 * (r - 1) + 2, Words64(a, rs[r].end))
  BY EncryptionOfIs DEF EncryptionFields
<1>5. f.words \in Seq(W32) /\ f.order = a.order /\ At(f.words, q, t)
  BY DEF Layout
<1>6. q \in Nat
  BY EncryptionIsAt
<1>7. ASSUME NEW r \in 1..l PROVE rs[r].start \in 0..M64 - 1 /\ rs[r].end \in 0..M64 - 1
  <2> HIDE DEF R
  <2>1. rs[r] \in R
    BY <1>1, SeqAt
  <2> QED
    BY <2>1, RangeIs DEF R
<1>8. rs = [r \in 1..l |-> [start |-> rs[r].start, end |-> rs[r].end]]
  <2>1. rs = [r \in 1..l |-> rs[r]]
    BY <1>1
  <2>2. ASSUME NEW r \in 1..l PROVE rs[r] = [start |-> rs[r].start, end |-> rs[r].end]
    <3>1. rs[r] \in R
      <4> HIDE DEF R
      <4> QED
        BY <1>1, SeqAt
    <3> DEFINE x == rs[r]
    <3>2. x \in R
      BY <3>1
    <3> HIDE DEF x
    <3>3. x = [start |-> x.start, end |-> x.end]
      BY <3>2
    <3> QED
      BY <3>3 DEF x
  <2> HIDE DEF rs, l
  <2>3. [r \in 1..l |-> rs[r]] = [r \in 1..l |-> [start |-> rs[r].start, end |-> rs[r].end]]
    BY <2>2, Zenon
  <2> QED
    BY <2>1, <2>3, Zenon
<1> HIDE DEF q, t, rs, l
<1>9. q + Len(t) <= Len(f.words) /\ f.words[q + 5] = t[5]
  <2>1. 5 \in 1..Len(t)
    BY <1>2, <1>3
  <2> QED
    BY <1>5, <2>1 DEF At
<1>10. I32(f, q + KeyWords) = l
  <2>1. Word(f, q + KeyWords) = l
    <3>1. (q + 4) + 1 = q + 5
      BY <1>6
    <3> QED
      BY <1>4, <1>9, <3>1 DEF Word, KeyWords
  <2> QED
    BY <1>2, <2>1, ReadI32
<1>11. EncryptionInBytes(f, q)
  <2>1. /\ q + (4 + 1) <= Len(f.words) /\ l >= 0 /\ 4 + 1 + 4 * l >= 0
        /\ q + (4 + 1 + 4 * l) <= Len(f.words)
    BY <1>2, <1>3, <1>5, <1>6, <1>9
  <2> QED
    BY <1>10, <2>1 DEF EncryptionInBytes, InBytes, KeyWords
<1>12. ASSUME NEW r \in 1..l
       PROVE  /\ U64(f, q + KeyWords + 1 + 4 * (r - 1)) = rs[r].start
              /\ U64(f, q + KeyWords + 1 + 4 * (r - 1) + 2) = rs[r].end
  <2> DEFINE d == 5 + 4 * (r - 1)
             n1 == rs[r].start
             n2 == rs[r].end
  <2>1. d \in Nat /\ d + 2 \in Nat
    BY <1>2
  <2>2. At(t, d, Words64(a, n1)) /\ At(t, d + 2, Words64(a, n2))
    BY <1>4
  <2>3. n1 \in 0..M64 - 1 /\ n2 \in 0..M64 - 1
    BY <1>7
  <2>4. q + KeyWords + 1 + 4 * (r - 1) = q + d /\ q + KeyWords + 1 + 4 * (r - 1) + 2 = q + (d + 2)
    BY <1>2, <1>6 DEF KeyWords
  <2> HIDE DEF d, n1, n2
  <2>5. U64(f, q + d) = n1 /\ U64(f, q + (d + 2)) = n2
    <3>1. \A x \in Nat : \A n \in 0..M64 - 1 : At(t, x, Words64(a, n)) => U64(f, q + x) = n
      BY <1>3, <1>5, <1>6, FieldIsRead
    <3> QED
      BY <2>1, <2>2, <2>3, <3>1, Zenon
  <2> QED
    BY <2>4, <2>5 DEF n1, n2
<1>13. Ranges(f, q) = rs
  <2>1. Ranges(f, q) = [r \in 1..l |-> [start |-> U64(f, q + KeyWords + 1 + 4 * (r - 1)),
                                        end |-> U64(f, q + KeyWords + 1 + 4 * (r - 1) + 2)]]
    BY <1>10 DEF Ranges
  <2>2. [r \in 1..l |-> [start |-> U64(f, q + KeyWords + 1 + 4 * (r - 1)),
                                        end |-> U64(f, q + KeyWords + 1 + 4 * (r - 1) + 2)]]
        = [r \in 1..l |-> [start |-> rs[r].start, end |-> rs[r].end]]
    BY <1>12, Zenon
  <2> QED
    BY <1>8, <2>1, <2>2, Zenon
<1> QED
  BY <1>11, <1>13 DEF q, rs

LEMMA EntryWithEncryption ==
  ASSUME NEW a, IsArchive(a), NEW f, Layout(a, f), NEW e \in 1..Count(a), NEW r, IsEntry(a, e, r)
  PROVE  /\ WithEncryption(f, r) = Written(a)[e]
         /\ r.encryption_offset # 0 => EncryptionInBytes(f, r.encryption_offset)
<1> DEFINE en == Written(a)[e]
           c == r.encryption_offset
<1>1. en \in Entry /\ EntryFits(a, en)
  BY WrittenIs
<1>2. /\ r.hash = en.hash /\ r.size = en.size /\ r.unpadded = en.unpadded
      /\ r.offset = en.offset /\ c = CryptoAt(a, e)
  BY DEF IsEntry
<1>3. en.encrypted \in BOOLEAN
  BY <1>1, EntryIs
<1>4. en = [hash |-> en.hash, offset |-> en.offset, size |-> en.size, unpadded |-> en.unpadded,
            encrypted |-> en.encrypted, ranges |-> en.ranges]
  <2> HIDE DEF en
  <2> QED
    BY <1>1 DEF Entry
<1>5. WithEncryption(f, r) =
         [hash |-> en.hash, offset |-> en.offset, size |-> en.size, unpadded |-> en.unpadded,
          encrypted |-> c # 0, ranges |-> IF c = 0 THEN <<>> ELSE Ranges(f, c)]
  BY <1>2 DEF WithEncryption
<1>6. CASE en.encrypted
  <2>1. c = EncryptionAt(a, e) /\ c # 0
    BY <1>2, <1>6, CryptoIsWord DEF CryptoAt
  <2>2. EncryptionInBytes(f, c) /\ Ranges(f, c) = en.ranges
    BY <1>6, <2>1, EncryptionIsRead
  <2>3. en.encrypted = TRUE
    BY <1>3, <1>6
  <2> HIDE DEF en, c
  <2>4. (c # 0) = TRUE /\ (IF c = 0 THEN <<>> ELSE Ranges(f, c)) = en.ranges
    BY <2>1, <2>2
  <2>5. WithEncryption(f, r) = en
    BY <1>4, <1>5, <2>3, <2>4, Zenon
  <2> QED
    BY <2>2, <2>5 DEF en, c
<1>7. CASE ~en.encrypted
  <2>1. c = 0 /\ en.ranges = <<>>
    BY <1>1, <1>2, <1>7 DEF CryptoAt, EntryFits
  <2>2. en.encrypted = FALSE
    BY <1>3, <1>7
  <2> HIDE DEF en, c
  <2>3. (c # 0) = FALSE /\ (IF c = 0 THEN <<>> ELSE Ranges(f, c)) = en.ranges
    BY <2>1
  <2>4. WithEncryption(f, r) = en
    BY <1>4, <1>5, <2>2, <2>3, Zenon
  <2> QED
    BY <2>1, <2>4 DEF en, c
<1> QED
  BY <1>6, <1>7

(* Where every entry is read as what was written, all of it is.              *)
LEMMA EntriesAsWritten ==
  ASSUME NEW a, IsArchive(a), NEW f, Layout(a, f), NEW g, ReadAs(a, g),
         \A e \in 1..Count(a) : IsEntry(a, e, Entries(f, g)[e])
  PROVE  /\ EntriesAs(f, g) = Written(a)
         /\ \A e \in DOMAIN Entries(f, g) : Entries(f, g)[e].encryption_offset # 0 =>
              EncryptionInBytes(f, Entries(f, g)[e].encryption_offset)
<1> DEFINE es == Entries(f, g)
           D == 1..Count(a)
<1>1. DOMAIN es = D
  BY EntriesAreRead
<1>2. ASSUME NEW e \in D
      PROVE  /\ WithEncryption(f, es[e]) = Written(a)[e]
             /\ es[e].encryption_offset # 0 => EncryptionInBytes(f, es[e].encryption_offset)
  <2>1. IsEntry(a, e, es[e])
    OBVIOUS
  <2> HIDE DEF es
  <2> QED
    BY <2>1, EntryWithEncryption
<1>3. Written(a) = [e \in D |-> Written(a)[e]]
  <2>1. Written(a) \in Seq(Entry) /\ DOMAIN Written(a) = D
    BY WrittenIs
  <2> QED
    BY <2>1
<1>4. EntriesAs(f, g) = [e \in D |-> WithEncryption(f, es[e])]
  BY <1>1 DEF EntriesAs
<1> HIDE DEF es, D
<1>5. [e \in D |-> WithEncryption(f, es[e])] = [e \in D |-> Written(a)[e]]
  BY <1>2, Zenon
<1>6. EntriesAs(f, g) = Written(a)
  BY <1>3, <1>4, <1>5, Zenon
<1> QED
  BY <1>1, <1>2, <1>6 DEF es

LEMMA OneAtMost ==
  ASSUME NEW S, \A x, y \in S : x = y
  PROVE  Cardinality(S) <= 1
<1>1. CASE S = {}
  <2>1. Cardinality(S) = 0
    BY <1>1, FS_EmptySet
  <2> QED
    BY <2>1
<1>2. CASE S # {}
  <2>1. PICK x : x \in S
    BY <1>2
  <2>2. S = {x}
    BY <2>1
  <2>3. Cardinality({x}) = 1
    BY FS_Singleton
  <2> QED
    BY <2>2, <2>3
<1> QED
  BY <1>1, <1>2

LEMMA OwnEntriesAreValid ==
  ASSUME NEW a, IsArchive(a), NEW f, Layout(a, f)
  PROVE  /\ \A e \in 1..Count(a) : IsEntry(a, e, Entries(f, a.format)[e])
         /\ AllValid(f, a.format)
<1> DEFINE es == Entries(f, a.format)
           g == a.format
<1>1. DOMAIN es = 1..Count(a)
  BY EntriesAreRead, ArchiveIs DEF ReadAs
<1>2. ASSUME NEW e \in 1..Count(a) PROVE IsEntry(a, e, es[e])
  BY OwnEntriesAreRead, OwnEntryIsRead
<1>3. f.has_crypto = a.has_crypto /\ file_size(f) = FileSize(a)
  BY HeaderIsRead DEF Layout
<1>4. (M32 \div 2) \in Nat
  BY WidthsAre
<1> HIDE DEF es
<1>5. ASSUME NEW e \in 1..Count(a) PROVE is_valid(f, g, es[e])
  <2> DEFINE en == Written(a)[e]
             r == es[e]
  <2>1. /\ en.size \in 0..(M32 \div 2) - 1 /\ en.unpadded \in 0..(M32 \div 2) - 1
        /\ EntryFits(a, en)
    BY WrittenIs, EntryIs
  <2>2. CryptoAt(a, e) < FileSize(a)
    BY CryptoIsWord
  <2>3. /\ r.size = en.size /\ r.unpadded = en.unpadded
        /\ r.hash_offset = CryptoAt(a, e) /\ r.encryption_offset = CryptoAt(a, e)
    BY <1>2 DEF IsEntry
  <2>4. ~a.has_crypto => CryptoAt(a, e) = 0
    BY <2>1 DEF EntryFits, CryptoAt
  <2>5. en.unpadded <= en.size
    <3>1. en.unpadded <= (IF a.format \in {"DarkSouls3", "EldenRing"} THEN en.size ELSE 0)
      BY <2>1 DEF EntryFits
    <3> HIDE DEF en
    <3> QED
      BY <1>4, <2>1, <3>1
  <2>6. r.size >= 0 /\ r.unpadded >= 0 /\ r.size >= r.unpadded
    <3> HIDE DEF en, r
    <3> QED
      BY <1>4, <2>1, <2>3, <2>5
  <2> HIDE DEF en, r
  <2>7. is_valid(f, g, r)
    BY <1>3, <2>2, <2>3, <2>4, <2>6 DEF is_valid
  <2> QED
    BY <2>7 DEF r
<1>6. Cardinality({e \in DOMAIN es : es[e].offset = 0}) <= 1
  <2> DEFINE S == {e \in DOMAIN es : es[e].offset = 0}
  <2>1. \A x, y \in S : x = y
    <3>1. DOMAIN Written(a) = 1..Count(a)
      BY WrittenIs
    <3>2. \A e \in 1..Count(a) : es[e].offset = Written(a)[e].offset
      BY <1>2 DEF IsEntry
    <3>3. \A d, e \in DOMAIN Written(a) : Written(a)[d].offset = 0 /\ Written(a)[e].offset = 0 => d = e
      BY DEF IsArchive
    <3> QED
      BY <1>1, <3>1, <3>2, <3>3
  <2> HIDE DEF S
  <2>2. Cardinality(S) <= 1
    BY <2>1, OneAtMost
  <2> QED
    BY <2>2 DEF S
<1>7. AllValid(f, g)
  BY <1>1, <1>5, <1>6 DEF AllValid, es
<1> QED
  BY <1>2, <1>7 DEF es

(* The entries of a bucket are in the header, where it was written so.       *)
LEMMA OwnBucketsAreInBytes ==
  ASSUME NEW a, IsArchive(a), NEW f, Layout(a, f), NEW b \in 1..Len(a.buckets)
  PROVE  BucketInBytes(f, a.format, Buckets(f, a.format)[b])
<1> DEFINE g == a.format
           l == Len(a.buckets[b])
           y == EntryWords(g)
           bk == Buckets(f, g)[b]
           q == BucketAt(a, b)
<1>1. ReadAs(a, g)
  BY ArchiveIs DEF ReadAs
<1>2. bk = [count |-> l, at |-> q]
  BY <1>1, BucketsAreRead
<1>3. /\ q \in Nat /\ l \in Nat /\ q + y * l <= EncryptionStart(a)
  BY BucketIsAt
<1>4. y \in Nat
  BY ArchiveIs, WordCounts
<1>5. /\ EncryptionStart(a) \in Nat /\ FileSize(a) \in Nat /\ EncryptionStart(a) <= FileSize(a)
  BY PlacesAre
<1>6. Len(f.words) = FileSize(a) + a.padding /\ a.padding \in Nat
  BY ArchiveIs DEF Layout
<1>7. g = "DarkSouls3" => \A e \in 1..l : Word(f, q + 10 * (e - 1) + 9) = 0
  <2> SUFFICES ASSUME g = "DarkSouls3", NEW e \in 1..l PROVE Word(f, q + 10 * (e - 1) + 9) = 0
    OBVIOUS
  <2> DEFINE m == SumOf(Lens(a.buckets), b - 1) + e
  <2>1. m \in 1..Count(a)
    BY <1>1, EntriesAreRead
  <2>2. EntryAt(a, m) = q + 10 * (e - 1) /\ EntryAt(a, m) \in Nat
    <3> DEFINE p == SumOf(Lens(a.buckets), b - 1)
               s == EntriesAt(a)
    <3>1. p \in Nat /\ s \in Nat
      BY BucketIsAt, PlacesAre
    <3>2. y = 10
      BY ArchiveIs, WordCounts
    <3>3. EntryAt(a, m) = s + y * ((p + e) - 1) /\ q = s + y * p
      BY DEF EntryAt, BucketAt
    <3>4. EntryAt(a, m) \in Nat
      BY <2>1, EntryPlace
    <3>5. e \in Nat
      BY <1>3
    <3> HIDE DEF p, s, y, q
    <3> QED
      BY <3>1, <3>2, <3>3, <3>4, <3>5
  <2> HIDE DEF m
  <2>3. FieldsAre(a, f, m, EntryAt(a, m))
    BY <2>1, FieldsAreRead
  <2>4. Word(f, EntryAt(a, m) + (8 + 1)) = 0
    BY <2>3 DEF FieldsAre, U64_HASH
  <2> QED
    BY <2>2, <2>4
<1> HIDE DEF l, y, bk, q
<1>8. InBytes(f, q, l * y)
  <2>1. l * y = y * l /\ l * y >= 0 /\ y * l \in Nat
    BY <1>3, <1>4
  <2>2. q + l * y <= Len(f.words)
    BY <1>3, <1>5, <1>6, <2>1
  <2> QED
    BY <2>1, <2>2 DEF InBytes
<1>9. bk.count = l /\ bk.at = q
  BY <1>2
<1>10. l >= 0
  BY <1>3
<1>11. BucketInBytes(f, g, bk)
  BY <1>7, <1>8, <1>9, <1>10 DEF BucketInBytes, y
<1> QED
  BY <1>11 DEF bk

(* The header of an archive can be read as what it was written as, and this  *)
(* gives the entries that were written.                                      *)
LEMMA RoundTrip ==
  ASSUME NEW a, IsArchive(a), NEW f, Layout(a, f)
  PROVE  CanRef(f, a.format) /\ EntriesAs(f, a.format) = Written(a)
<1>1. ReadAs(a, a.format)
  BY ArchiveIs DEF ReadAs
<1>2. bucket_count(f) = Len(a.buckets)
  BY HeaderIsRead
<1>3. /\ EntriesAs(f, a.format) = Written(a)
      /\ \A e \in DOMAIN Entries(f, a.format) : Entries(f, a.format)[e].encryption_offset # 0 =>
              EncryptionInBytes(f, Entries(f, a.format)[e].encryption_offset)
  BY <1>1, OwnEntriesAreValid, EntriesAsWritten
<1>4. AllValid(f, a.format)
  BY OwnEntriesAreValid
<1>5. \A b \in 1..bucket_count(f) : BucketInBytes(f, a.format, Buckets(f, a.format)[b])
  BY <1>2, OwnBucketsAreInBytes
<1>6. BucketsInBytes(f, a.format)
  BY <1>1, BucketsAreRead
<1> QED
  BY <1>3, <1>4, <1>5, <1>6 DEF CanRef

(* The header of every archive, in each of the five formats and both byte    *)
(* orders, passes the checks of the format it was written in, and its        *)
(* entries are read back whole: their fields, wherever the format has them,  *)
(* and the ranges of their encryption (format.rs:198-278).                   *)
THEOREM HeadersAreReadBack ==
  ASSUME NEW a, IsArchive(a)
  PROVE  CanRef(Write(a), a.format) /\ EntriesAs(Write(a), a.format) = Written(a)
BY WriteIsLaidOut, RoundTrip

-----------------------------------------------------------------------------
(* The formats that are tried before the one an archive was written in.      *)
LEMMA FirstBucket ==
  ASSUME NEW a, IsArchive(a), Count(a) >= 1
  PROVE  \E b \in 1..Len(a.buckets) : /\ Len(a.buckets[b]) \in Nat /\ Len(a.buckets[b]) >= 1
                                      /\ SumOf(Lens(a.buckets), b - 1) + 1 = 1
                                      /\ BucketAt(a, b) = EntriesAt(a)
<1>0. Count(a) \in Nat
  BY WrittenIs
<1>1. PICK m \in 1..Count(a) : m = 1
  BY <1>0
<1>2. PICK b \in 1..Len(a.buckets) : \E e \in 1..Len(a.buckets[b]) :
        m = SumOf(Lens(a.buckets), b - 1) + e
  BY EntryIsInBucket
<1>3. PICK e \in 1..Len(a.buckets[b]) : m = SumOf(Lens(a.buckets), b - 1) + e
  BY <1>2
<1> DEFINE p == SumOf(Lens(a.buckets), b - 1)
           l == Len(a.buckets[b])
           s == EntriesAt(a)
           y == EntryWords(a.format)
<1>4. p \in Nat /\ l \in Nat /\ s \in Nat /\ y \in Nat /\ e \in 1..l /\ m = p + e
  BY <1>3, BucketIsAt, PlacesAre, ArchiveIs, WordCounts
<1>5. BucketAt(a, b) = s + y * p
  BY DEF BucketAt
<1> HIDE DEF p, l, s, y
<1>6. p = 0 /\ l >= 1 /\ p + 1 = 1
  BY <1>1, <1>4
<1>7. y * p = 0
  BY <1>4, <1>6
<1>8. BucketAt(a, b) = s
  BY <1>4, <1>5, <1>7
<1> QED
  BY <1>4, <1>6, <1>8 DEF p, l, s

(* A Dark Souls 2 archive of two files or more, none of them empty, is not   *)
(* read as one of Dark Souls 3: the word that has to be zero is a size.      *)
LEMMA SizesAreNotPadding ==
  ASSUME NEW a, IsArchive(a), NEW f, Layout(a, f), a.format = "DarkSouls2",
         \A e \in 1..Count(a) : Written(a)[e].size # 0, Count(a) >= 2
  PROVE  ~CanRef(f, "DarkSouls3")
<1> DEFINE g == "DarkSouls3"
           s == EntriesAt(a)
<1>0. Count(a) \in Nat
  BY WrittenIs
<1>1. PICK b \in 1..Len(a.buckets) : /\ Len(a.buckets[b]) \in Nat /\ Len(a.buckets[b]) >= 1
                                     /\ BucketAt(a, b) = s
  BY <1>0, FirstBucket
<1>2. ReadAs(a, g)
  BY ArchiveIs DEF ReadAs, IsSalted, Formats
<1>3. Buckets(f, g)[b] = [count |-> Len(a.buckets[b]), at |-> s] /\ bucket_count(f) = Len(a.buckets)
  BY <1>1, <1>2, BucketsAreRead, HeaderIsRead
<1>4. PICK m \in 1..Count(a) : m = 2
  BY <1>0
<1>5. FieldsAre(a, f, m, EntryAt(a, m)) /\ EntryAt(a, m) \in Nat
  BY FieldsAreRead, EntryPlace
<1>6. EntryAt(a, m) = s + 8 /\ s \in Nat
  <2>1. EntryWords(a.format) = 8
    BY ArchiveIs, WordCounts
  <2>2. s \in Nat
    BY PlacesAre
  <2> QED
    BY <1>4, <2>1, <2>2 DEF EntryAt
<1>7. Word(f, EntryAt(a, m) + (0 + 1)) = Written(a)[m].size
  BY <1>5 DEF FieldsAre, U64_HASH
<1> HIDE DEF s
<1>8. Word(f, s + 10 * (1 - 1) + 9) # 0
  <2>1. s + 10 * (1 - 1) + 9 = (s + 8) + (0 + 1)
    BY <1>6
  <2> QED
    BY <1>6, <1>7, <2>1
<1>9. SUFFICES ASSUME CanRef(f, g) PROVE FALSE
  OBVIOUS
<1>10. BucketInBytes(f, g, Buckets(f, g)[b])
  BY <1>3, <1>9 DEF CanRef
<1>11. Buckets(f, g)[b].count = Len(a.buckets[b]) /\ Buckets(f, g)[b].at = s
  BY <1>3
<1>12. \A e \in 1..Len(a.buckets[b]) : Word(f, s + 10 * (e - 1) + 9) = 0
  BY <1>10, <1>11 DEF BucketInBytes
<1>13. 1 \in 1..Len(a.buckets[b])
  BY <1>1
<1> QED
  BY <1>8, <1>12, <1>13

(* One of one file is, if zeros follow its entry, and is the same.           *)
LEMMA OneEntryIsTheSame ==
  ASSUME NEW a, IsArchive(a), NEW f, Layout(a, f), a.format = "DarkSouls2",
         CanRef(f, "DarkSouls3"), NEW m \in 1..Count(a), m = 1, Count(a) = 1
  PROVE  IsEntry(a, m, Entries(f, "DarkSouls3")[m])
<1> DEFINE g == "DarkSouls3"
           s == EntriesAt(a)
           en == Written(a)[m]
           C == CryptoAt(a, m)
           r == FileEntry(f, g, s)
<1>1. PICK b \in 1..Len(a.buckets) : /\ Len(a.buckets[b]) \in Nat /\ Len(a.buckets[b]) >= 1
                                     /\ SumOf(Lens(a.buckets), b - 1) + 1 = 1
                                     /\ BucketAt(a, b) = s
  BY FirstBucket
<1>2. ReadAs(a, g)
  BY ArchiveIs DEF ReadAs, IsSalted, Formats
<1>3. Buckets(f, g)[b] = [count |-> Len(a.buckets[b]), at |-> s] /\ bucket_count(f) = Len(a.buckets)
  BY <1>1, <1>2, BucketsAreRead, HeaderIsRead
<1>4. EntryAt(a, m) = s /\ s \in Nat /\ EncryptionStart(a) = s + 8
  <2>1. EntryWords(a.format) = 8
    BY ArchiveIs, WordCounts
  <2>2. s \in Nat
    BY PlacesAre
  <2> QED
    BY <2>1, <2>2 DEF EntryAt, EncryptionStart
<1>5. Entries(f, g)[m] = r
  <2>1. 1 \in 1..Len(a.buckets[b])
    BY <1>1
  <2>2. Entries(f, g)[SumOf(Lens(a.buckets), b - 1) + 1] = FileEntry(f, g, SlotAt(a, b, g, 1))
    BY <1>2, <2>1, EntriesAreRead
  <2>3. SlotAt(a, b, g, 1) = s
    <3>1. EntryWords(g) \in Nat
      BY WordCounts DEF Formats
    <3>2. EntryWords(g) * (1 - 1) = 0
      BY <3>1
    <3> QED
      BY <1>1, <1>4, <3>2 DEF SlotAt
  <2> QED
    BY <1>1, <2>2, <2>3
<1>6. s + 10 <= Len(f.words)
  <2>1. BucketInBytes(f, g, Buckets(f, g)[b])
    BY <1>3 DEF CanRef
  <2>2. Buckets(f, g)[b].count = Len(a.buckets[b]) /\ Buckets(f, g)[b].at = s
    BY <1>3
  <2>3. InBytes(f, s, Len(a.buckets[b]) * EntryWords(g))
    BY <2>1, <2>2 DEF BucketInBytes
  <2>4. EntryWords(g) = 10
    BY WordCounts DEF Formats
  <2>5. s + Len(a.buckets[b]) * 10 <= Len(f.words)
    BY <2>3, <2>4 DEF InBytes
  <2>6. Len(f.words) \in Nat
    BY DEF Layout
  <2> HIDE DEF s
  <2> QED
    BY <1>1, <1>4, <2>5, <2>6
<1>7. FieldsAre(a, f, m, s)
  BY <1>4, FieldsAreRead
<1>8. en \in Entry /\ EntryFits(a, en) /\ en.size \in 0..(M32 \div 2) - 1
      /\ en.unpadded \in 0..(M32 \div 2) - 1
  BY WrittenIs, EntryIs
<1>9. en.unpadded = 0 /\ 0 \in 0..(M32 \div 2) - 1
  <2>1. (M32 \div 2) \in Nat
    BY WidthsAre
  <2>2. en.unpadded <= 0
    BY <1>8 DEF EntryFits
  <2> HIDE DEF en
  <2> QED
    BY <1>8, <2>1, <2>2
<1>10. f.words[(s + 8) + 1] = 0
  <2> DEFINE w == EncW(a)
             c == Count(a)
  <2>1. c \in Nat /\ w \in [1..c -> Nat] /\ c = 1
    <3>1. w \in [1..c -> Nat]
      BY EncWIs
    <3> QED
      BY <3>1
  <2>2. SumOf(w, 0) = 0 /\ SumOf(w, 1) = SumOf(w, 1 - 1) + w[1] /\ w[1] \in Nat
    <3> HIDE DEF w, c
    <3>1. 1 \in 1..c
      BY <2>1
    <3> QED
      BY <2>1, <3>1, SumStep
  <2>3. SumOf(w, 1) = w[1]
    <3>1. 1 - 1 = 0
      OBVIOUS
    <3>2. SumOf(w, 1 - 1) = 0
      BY <2>2, <3>1
    <3> HIDE DEF w
    <3> QED
      BY <2>2, <3>2
  <2>4. CASE en.encrypted
    <3> DEFINE t == EncryptionOf(a, m)
    <3>1. EncryptionAt(a, m) = s + 8
      <4>1. EncryptionAt(a, m) = EncryptionStart(a) + SumOf(w, m - 1)
        BY EncryptionIsAt
      <4>2. m - 1 = 0
        OBVIOUS
      <4>3. SumOf(w, m - 1) = 0
        BY <2>2, <4>2
      <4> HIDE DEF w, s
      <4> QED
        BY <1>4, <4>1, <4>3
    <3>2. At(f.words, s + 8, t)
      BY <3>1 DEF Layout
    <3>3. t[1] = 0 /\ Len(t) = w[m] /\ w[m] = 5 + 4 * Len(en.ranges) /\ Len(en.ranges) \in Nat
      <4>1. EncryptionFields(a, en.ranges, t) /\ Len(t) = w[m]
        BY <2>4, EncryptionOfIs
      <4>2. 1 \in 1..4
        OBVIOUS
      <4>3. t[1] = 0
        BY <4>1, <4>2 DEF EncryptionFields
      <4>4. Len(en.ranges) \in Nat /\ w[m] = 5 + 4 * Len(en.ranges)
        BY <2>4, EncWIs
      <4> QED
        BY <4>1, <4>3, <4>4
    <3> HIDE DEF t, s, w
    <3>4. 1 \in 1..Len(t)
      BY <3>3
    <3> QED
      BY <3>2, <3>3, <3>4 DEF At
  <2>5. CASE ~en.encrypted
    <3>1. w[1] = 0
      BY <2>5, EncWIs
    <3>2. FileSize(a) = EncryptionStart(a) + SumOf(w, c)
      BY PlacesAre
    <3>3. FileSize(a) = s + 8
      <4> HIDE DEF w, s, c
      <4>1. SumOf(w, c) = 0
        BY <2>1, <2>3, <3>1
      <4> QED
        BY <1>4, <3>2, <4>1
    <3>4. Len(f.words) = FileSize(a) + a.padding /\ a.padding \in Nat
      BY ArchiveIs DEF Layout
    <3>5. 1 \in 1..a.padding
      <4> HIDE DEF s
      <4> QED
        BY <1>4, <1>6, <3>3, <3>4
    <3> QED
      BY <3>3, <3>5 DEF Layout
  <2> QED
    BY <2>4, <2>5
<1> HIDE DEF s
<1>11. I32(f, s + 8) = 0
  <2>1. Word(f, s + 8) = 0
    BY <1>10 DEF Word
  <2> QED
    BY <1>9, <2>1, ReadI32
<1>12. /\ Word(f, s) = en.hash /\ Word(f, s + 1) = en.size /\ U64(f, s + 2) = en.offset
       /\ U64(f, s + 4) = C /\ U64(f, s + 6) = C
  <2>1. s + 0 = s /\ s + (0 + 1) = s + 1
    BY <1>4
  <2> QED
    BY <1>7, <2>1 DEF FieldsAre, U64_HASH, IsDs1
<1>13. I32(f, s + 1) = en.size
  BY <1>8, <1>12, ReadI32
<1>14. r = [hash |-> Word(f, s), size |-> I32(f, s + 1), offset |-> U64(f, s + 2),
            unpadded |-> I32(f, s + 8), hash_offset |-> U64(f, s + 4),
            encryption_offset |-> U64(f, s + 6)]
  BY DEF FileEntry, U64_HASH, IsDs1
<1> HIDE DEF r, en, C
<1>15. /\ r.hash = en.hash /\ r.size = en.size /\ r.unpadded = en.unpadded
       /\ r.offset = en.offset /\ r.hash_offset = C /\ r.encryption_offset = C
  BY <1>9, <1>11, <1>12, <1>13, <1>14
<1> QED
  BY <1>5, <1>15 DEF IsEntry, en, C

LEMMA DarkSouls2AsDarkSouls3 ==
  ASSUME NEW a, IsArchive(a), NEW f, Layout(a, f), a.format = "DarkSouls2",
         \A e \in 1..Count(a) : Written(a)[e].size # 0, CanRef(f, "DarkSouls3")
  PROVE  EntriesAs(f, "DarkSouls3") = Written(a)
<1>0. Count(a) \in Nat
  BY WrittenIs
<1>1. ~(Count(a) >= 2)
  BY SizesAreNotPadding
<1>2. ReadAs(a, "DarkSouls3")
  BY ArchiveIs DEF ReadAs, IsSalted, Formats
<1>3. ASSUME NEW e \in 1..Count(a) PROVE IsEntry(a, e, Entries(f, "DarkSouls3")[e])
  <2>1. e = 1 /\ Count(a) = 1
    BY <1>0, <1>1
  <2> QED
    BY <2>1, OneEntryIsTheSame
<1> QED
  BY <1>2, <1>3, EntriesAsWritten

(* An Elden Ring archive with a file that is beyond all offsets of           *)
(* encryption among the first two of a bucket is not read as any other.      *)
FarFile(a) ==
  \E b \in DOMAIN a.buckets : \E e \in DOMAIN a.buckets[b] :
    /\ e <= 2
    /\ a.buckets[b][e].offset >= IF a.has_crypto THEN FileSize(a) ELSE 1

LEMMA EldenRingAsOther ==
  ASSUME NEW a, IsArchive(a), NEW f, Layout(a, f), a.format = "EldenRing", FarFile(a),
         NEW g \in {"DarkSouls3", "DarkSouls2"}
  PROVE  ~CanRef(f, g)
<1>1. a.buckets \in Seq(Seq(Entry)) /\ Len(a.buckets) \in Nat
  BY ArchiveIs
<1>2. PICK b \in 1..Len(a.buckets) : \E e \in DOMAIN a.buckets[b] :
        /\ e <= 2
        /\ a.buckets[b][e].offset >= IF a.has_crypto THEN FileSize(a) ELSE 1
  <2>1. DOMAIN a.buckets = 1..Len(a.buckets)
    BY <1>1
  <2> QED
    BY <2>1 DEF FarFile
<1>3. a.buckets[b] \in Seq(Entry)
  <2> DEFINE V == Seq(Entry)
  <2>1. a.buckets \in Seq(V)
    BY <1>1
  <2> HIDE DEF V
  <2>2. a.buckets[b] \in V
    BY <2>1, SeqAt
  <2> QED
    BY <2>2 DEF V
<1>4. PICK e \in 1..Len(a.buckets[b]) :
        /\ e <= 2
        /\ a.buckets[b][e].offset >= IF a.has_crypto THEN FileSize(a) ELSE 1
  <2>1. DOMAIN a.buckets[b] = 1..Len(a.buckets[b])
    BY <1>3
  <2> QED
    BY <1>2, <2>1
<1> DEFINE p == SumOf(Lens(a.buckets), b - 1)
           m == p + e
           q == BucketAt(a, b)
           x == a.buckets[b][e].offset
           o == SlotAt(a, b, g, e)
           r == FileEntry(f, g, o)
<1>5. ReadAs(a, g) /\ ReadAs(a, a.format)
  BY ArchiveIs DEF ReadAs, IsSalted, Formats
<1>6. /\ m \in 1..Count(a) /\ Entries(f, g)[m] = r /\ DOMAIN Entries(f, g) = 1..Count(a)
  BY <1>5, EntriesAreRead
<1>7. p \in Nat /\ q \in Nat /\ q = EntriesAt(a) + EntryWords(a.format) * p /\ EntriesAt(a) \in Nat
  BY BucketIsAt, PlacesAre DEF BucketAt
<1>8. EntryWords(a.format) = 10 /\ EntryWords(g) = (IF g = "DarkSouls2" THEN 8 ELSE 10)
  <2>1. g \in Formats /\ a.format \in Formats
    BY DEF Formats
  <2> QED
    BY <2>1, WordCounts
<1>9. Written(a)[m].offset = x
  <2>1. PartsUpTo(a.buckets, Len(a.buckets), Written(a))
    BY WrittenIs
  <2>2. Written(a)[p + e] = a.buckets[b][e]
    BY <2>1 DEF PartsUpTo
  <2> QED
    BY <2>2
<1>10. e = 1 \/ e = 2
  <2>1. Len(a.buckets[b]) \in Nat
    BY BucketIsAt
  <2> QED
    BY <1>4, <2>1
<1>11. EntryAt(a, m) = q + 10 * (e - 1)
  <2>1. EntryAt(a, m) = EntriesAt(a) + 10 * ((p + e) - 1)
    BY <1>8 DEF EntryAt
  <2> HIDE DEF p, q
  <2> QED
    BY <1>7, <1>8, <1>10, <2>1
<1>12. FieldsAre(a, f, m, EntryAt(a, m))
  BY <1>6, FieldsAreRead
<1>13. U64(f, EntryAt(a, m) + 4) = x
  BY <1>9, <1>12 DEF FieldsAre, U64_HASH
<1>14. r.hash_offset = U64(f, o + 4) /\ r.encryption_offset = U64(f, o + 6)
  <2>1. ~U64_HASH(g) /\ ~IsDs1(g)
    BY DEF U64_HASH, IsDs1
  <2>2. r = [hash |-> Word(f, o), size |-> I32(f, o + 1),
        offset |-> U64(f, o + 2),
        unpadded |-> IF g = "DarkSouls3" THEN I32(f, o + 8) ELSE 0,
        hash_offset |-> IF IsDs1(g) THEN 0 ELSE U64(f, o + 4),
        encryption_offset |-> IF IsDs1(g) THEN 0 ELSE U64(f, o + 6)]
    BY <2>1 DEF FileEntry
  <2> HIDE DEF r, o
  <2> QED
    BY <2>1, <2>2
<1>15. o = q + EntryWords(g) * (e - 1)
  BY DEF SlotAt
<1> HIDE DEF o, q, p, r, x, m
<1>16. r.hash_offset = x \/ r.encryption_offset = x
  <2>1. CASE g = "DarkSouls2" /\ e = 2
    <3>1. o + 6 = (q + 10 * (e - 1)) + 4
      BY <1>7, <1>8, <1>15, <2>1
    <3> QED
      BY <1>11, <1>13, <1>14, <3>1
  <2>2. CASE ~(g = "DarkSouls2" /\ e = 2)
    <3>1. o + 4 = (q + 10 * (e - 1)) + 4
      <4>1. CASE e = 1
        <5>1. EntryWords(g) \in Nat
          BY <1>8
        <5>2. EntryWords(g) * (e - 1) = 0
          BY <4>1, <5>1
        <5> QED
          BY <1>7, <1>15, <4>1, <5>2
      <4>2. CASE e = 2
        BY <1>7, <1>8, <1>15, <2>2, <4>2
      <4> QED
        BY <1>10, <4>1, <4>2
    <3> QED
      BY <1>11, <1>13, <1>14, <3>1
  <2> QED
    BY <2>1, <2>2
<1>17. x >= IF a.has_crypto THEN FileSize(a) ELSE 1
  BY <1>4 DEF x
<1>18. x \in Nat /\ FileSize(a) \in Nat
  <2>1. Written(a)[m].offset \in 0..M64 - 1
    BY <1>6, WrittenIs, EntryIs
  <2> QED
    BY <1>9, <2>1, PlacesAre, WidthsAre
<1>19. f.has_crypto = a.has_crypto /\ file_size(f) = FileSize(a) /\ a.has_crypto \in BOOLEAN
  BY HeaderIsRead, ArchiveIs DEF Layout
<1>20. ~is_valid(f, g, r)
  <2>1. ~IsDs1(g)
    BY DEF IsDs1
  <2>2. CASE a.has_crypto
    <3>1. ~(x < file_size(f))
      BY <1>17, <1>18, <1>19, <2>2
    <3> QED
      BY <1>16, <1>19, <2>1, <2>2, <3>1 DEF is_valid
  <2>3. CASE ~a.has_crypto
    <3>1. x # 0
      BY <1>17, <1>18, <2>3
    <3> QED
      BY <1>16, <1>19, <2>1, <2>3, <3>1 DEF is_valid
  <2> QED
    BY <2>2, <2>3
<1>21. ~AllValid(f, g)
  BY <1>6, <1>20 DEF AllValid
<1> QED
  BY <1>21 DEF CanRef

-----------------------------------------------------------------------------
(* Whatever the words of a header are, and whatever it is read as: where it  *)
(* can be read, its entries have the fields of entries.                      *)
LEMMA WordIs ==
  ASSUME NEW f, f.words \in Seq(W32), NEW o \in Nat, o + 1 <= Len(f.words)
  PROVE  Word(f, o) \in W32
<1>1. o + 1 \in 1..Len(f.words)
  OBVIOUS
<1> HIDE DEF W32
<1> QED
  BY <1>1, SeqAt DEF Word

LEMMA I32Is ==
  ASSUME NEW f, f.words \in Seq(W32), NEW o \in Nat, o + 1 <= Len(f.words)
  PROVE  I32(f, o) \in Int /\ (I32(f, o) >= 0 => I32(f, o) \in 0..(M32 \div 2) - 1)
<1> DEFINE w == Word(f, o)
           h == M32 \div 2
<1>1. w \in 0..M32 - 1
  BY WordIs DEF W32
<1>2. h \in Nat /\ M32 = 2 * h /\ M32 \in Nat
  BY WidthsAre
<1>3. I32(f, o) = IF w < h THEN w ELSE w - M32
  BY DEF I32
<1> HIDE DEF w, h
<1>4. I32(f, o) \in Int /\ (I32(f, o) >= 0 => I32(f, o) \in 0..h - 1)
  BY <1>1, <1>2, <1>3
<1> QED
  BY <1>4 DEF h

LEMMA TwoWords ==
  ASSUME NEW x \in W32, NEW y \in W32
  PROVE  x + M32 * y \in 0..M64 - 1
<1> DEFINE m == M32
<1>1. m \in Nat /\ m > 1 /\ x \in 0..m - 1 /\ y \in 0..m - 1 /\ M64 = m * m
  BY WidthsAre DEF W32
<1> HIDE DEF m
<1>2. m * y + m <= m * m /\ m * y \in Nat /\ m * m \in Nat
  <2>1. m * y + m = m * (y + 1) /\ y + 1 <= m /\ y + 1 \in Nat
    BY <1>1
  <2>2. m * (y + 1) <= m * m
    BY <1>1, <2>1
  <2> QED
    BY <1>1, <2>1, <2>2
<1>3. x + m * y \in 0..(m * m) - 1
  BY <1>1, <1>2
<1> QED
  BY <1>1, <1>3 DEF m

LEMMA U64Is ==
  ASSUME NEW f, f.words \in Seq(W32), NEW o \in Nat, o + 2 <= Len(f.words)
  PROVE  U64(f, o) \in 0..M64 - 1
<1>1. Len(f.words) \in Nat
  OBVIOUS
<1>2. o + 1 \in Nat /\ o + 1 <= Len(f.words) /\ (o + 1) + 1 <= Len(f.words)
  BY <1>1
<1>3. Word(f, o) \in W32 /\ Word(f, o + 1) \in W32
  BY <1>2, WordIs
<1>4. /\ Word(f, o) + M32 * Word(f, o + 1) \in 0..M64 - 1
      /\ Word(f, o + 1) + M32 * Word(f, o) \in 0..M64 - 1
  BY <1>3, TwoWords
<1> QED
  BY <1>4 DEF U64

(* Where an entry may be, and the entries there.                             *)
Slots(f, g) == {o \in Nat : o + EntryWords(g) <= Len(f.words)}
Raw(f, g) == {FileEntry(f, g, o) : o \in Slots(f, g)}

LEMMA HeaderIsTyped ==
  ASSUME NEW f, f.words \in Seq(W32), Len(f.words) >= 8
  PROVE  bucket_count(f) \in Nat /\ bucket_offset(f) \in Nat
<1>1. Len(f.words) \in Nat
  OBVIOUS
<1>2. PICK o \in Nat : o = 4
  OBVIOUS
<1>3. I32(f, o) \in Int
  BY <1>1, <1>2, I32Is
<1>4. PICK p \in Nat : p = 6
  OBVIOUS
<1>5. U64(f, p) \in 0..M64 - 1
  BY <1>1, <1>4, U64Is
<1>6. PICK q \in Nat : q = 5
  OBVIOUS
<1>7. Word(f, q) \in 0..M32 - 1
  BY <1>1, <1>6, WordIs DEF W32
<1>8. M32 \in Nat /\ M64 \in Nat
  BY WidthsAre
<1> QED
  BY <1>2, <1>3, <1>4, <1>5, <1>6, <1>7, <1>8 DEF bucket_count, bucket_offset

LEMMA BucketIsTyped ==
  ASSUME NEW f, f.words \in Seq(W32), Len(f.words) >= 8, NEW g \in Formats, CanRef(f, g),
         NEW b \in 1..bucket_count(f)
  PROVE  /\ Buckets(f, g)[b].count \in Nat /\ Buckets(f, g)[b].at \in Nat
         /\ Buckets(f, g)[b].at + EntryWords(g) * Buckets(f, g)[b].count <= Len(f.words)
<1> DEFINE y == BucketWords(g)
           x == bucket_offset(f)
           n == bucket_count(f)
           o == x + y * (b - 1)
           bk == Buckets(f, g)[b]
           L == Len(f.words)
<1>1. x \in Nat /\ n \in Nat /\ L \in Nat
  BY HeaderIsTyped
<1>2. y \in Nat /\ y >= 2 /\ (g = "DarkSoulsRemastered" => y = 4)
  BY DEF BucketWords
<1>3. x + n * y <= L
  BY DEF CanRef, BucketsInBytes, InBytes
<1>4. o \in Nat /\ o + y <= L
  <2>1. b \in 1..n
    OBVIOUS
  <2> HIDE DEF x, y, n, L
  <2>2. b - 1 \in Nat /\ y * (b - 1) \in Nat /\ y * (b - 1) + y = y * b
    BY <1>1, <1>2, <2>1
  <2>3. y * b <= n * y /\ y * b \in Nat /\ n * y \in Nat
    BY <1>1, <1>2, <2>1
  <2> QED
    BY <1>1, <1>2, <1>3, <2>2, <2>3
<1>5. bk = [count |-> I32(f, o),
            at |-> IF g = "DarkSoulsRemastered" THEN U64(f, o + 2) ELSE Word(f, o + 1)]
  BY DEF Buckets
<1> HIDE DEF o, y, L
<1>6. I32(f, o) \in Int /\ Word(f, o + 1) \in Nat
  <2>1. o + 1 <= L /\ o + 1 \in Nat /\ (o + 1) + 1 <= L
    BY <1>1, <1>2, <1>4
  <2>2. Word(f, o + 1) \in W32 /\ I32(f, o) \in Int
    BY <1>4, <2>1, WordIs, I32Is DEF L
  <2> QED
    BY <2>2, WidthsAre DEF W32
<1>7. g = "DarkSoulsRemastered" => U64(f, o + 2) \in Nat
  <2> SUFFICES ASSUME g = "DarkSoulsRemastered" PROVE U64(f, o + 2) \in Nat
    OBVIOUS
  <2>1. o + 2 \in Nat /\ (o + 2) + 2 <= L
    BY <1>1, <1>2, <1>4
  <2>2. U64(f, o + 2) \in 0..M64 - 1
    BY <2>1, U64Is DEF L
  <2> QED
    BY <2>2, WidthsAre
<1>8. BucketInBytes(f, g, bk)
  BY DEF CanRef
<1> HIDE DEF bk
<1>9. bk.count = I32(f, o) /\ bk.at = (IF g = "DarkSoulsRemastered" THEN U64(f, o + 2) ELSE Word(f, o + 1))
  BY <1>5
<1>10. bk.count \in Int /\ bk.at \in Nat
  BY <1>6, <1>7, <1>9
<1>11. bk.count >= 0 /\ bk.at + bk.count * EntryWords(g) <= L
  BY <1>8 DEF BucketInBytes, InBytes, L
<1>12. EntryWords(g) \in Nat
  BY WordCounts
<1>13. bk.count * EntryWords(g) = EntryWords(g) * bk.count
  BY <1>10, <1>12
<1> QED
  BY <1>10, <1>11, <1>13 DEF bk, L

LEMMA EntriesAreRaw ==
  ASSUME NEW f, f.words \in Seq(W32), Len(f.words) >= 8, NEW g \in Formats, CanRef(f, g)
  PROVE  Entries(f, g) \in Seq(Raw(f, g))
<1> DEFINE n == bucket_count(f)
           y == EntryWords(g)
           L == Len(f.words)
           S == Raw(f, g)
           In(b) == [e \in 1..Buckets(f, g)[b].count |->
                      FileEntry(f, g, Buckets(f, g)[b].at + y * (e - 1))]
           ss == [b \in 1..n |-> In(b)]
<1>1. n \in Nat /\ y \in Nat /\ L \in Nat
  BY HeaderIsTyped, WordCounts
<1>2. ASSUME NEW b \in 1..n PROVE ss[b] \in Seq(S)
  <2> DEFINE c == Buckets(f, g)[b].count
             q == Buckets(f, g)[b].at
             t == ss[b]
  <2>1. c \in Nat /\ q \in Nat /\ q + y * c <= L
    BY BucketIsTyped
  <2>2. t = [e \in 1..c |-> FileEntry(f, g, q + y * (e - 1))]
    OBVIOUS
  <2> HIDE DEF t, c, q, ss
  <2>3. t = [e \in 1..c |-> t[e]]
    BY <2>2
  <2>4. ASSUME NEW e \in 1..c PROVE t[e] \in S
    <3> DEFINE o == q + y * (e - 1)
    <3>1. t[e] = FileEntry(f, g, o)
      BY <2>2
    <3>2. o \in Nat /\ o + y <= L
      <4> HIDE DEF y, L
      <4>1. y * (e - 1) \in Nat /\ y * (e - 1) + y = y * e
        BY <1>1, <2>1
      <4>2. y * e <= y * c /\ y * e \in Nat /\ y * c \in Nat
        BY <1>1, <2>1
      <4> QED
        BY <1>1, <2>1, <4>1, <4>2
    <3> HIDE DEF o
    <3>3. o \in Slots(f, g)
      BY <3>2 DEF Slots
    <3> QED
      BY <3>1, <3>3 DEF Raw
  <2> HIDE DEF S
  <2>5. t \in Seq(S)
    BY <2>1, <2>3, <2>4, IsSeqOf
  <2> QED
    BY <2>5 DEF t
<1>3. ss = [b \in 1..n |-> ss[b]]
  OBVIOUS
<1>4. Entries(f, g) = FlattenSeq(ss)
  BY DEF Entries
<1> HIDE DEF ss, S, n
<1>5. ss \in Seq(Seq(S))
  <2> DEFINE V == Seq(S)
  <2>1. \A b \in 1..n : ss[b] \in V
    BY <1>2
  <2> HIDE DEF V
  <2>2. ss \in Seq(V)
    BY <1>1, <1>3, <2>1, IsSeqOf
  <2> QED
    BY <2>2 DEF V
<1>6. FlattenSeq(ss) \in Seq(S)
  BY <1>5, FlattenIs
<1> QED
  BY <1>4, <1>6 DEF S

(* The fields of an entry, whichever of them the format has.                 *)
RawIs(f, r) ==
  /\ r.hash \in 0..M64 - 1 /\ r.offset \in 0..M64 - 1
  /\ r.size \in Int /\ (r.size >= 0 => r.size \in 0..(M32 \div 2) - 1)
  /\ r.unpadded \in Int /\ (r.unpadded >= 0 => r.unpadded \in 0..(M32 \div 2) - 1)
  /\ r.encryption_offset \in 0..M64 - 1

LEMMA RawIsTyped ==
  ASSUME NEW f, f.words \in Seq(W32), NEW g \in Formats, NEW o \in Slots(f, g)
  PROVE  RawIs(f, FileEntry(f, g, o))
<1> DEFINE L == Len(f.words)
           y == EntryWords(g)
           r == FileEntry(f, g, o)
           D == 0..M64 - 1
           H == 0..(M32 \div 2) - 1
<1>1. L \in Nat /\ o \in Nat /\ o + y <= L
  BY DEF Slots
<1>2. y = (IF g \in {"DarkSouls", "DarkSoulsRemastered"} THEN 4
           ELSE IF g = "DarkSouls2" THEN 8 ELSE 10)
  BY WordCounts
<1>3. ASSUME NEW d \in Nat, d + 1 <= y
      PROVE  /\ Word(f, o + d) \in W32
             /\ I32(f, o + d) \in Int /\ (I32(f, o + d) >= 0 => I32(f, o + d) \in H)
  <2> DEFINE p == o + d
  <2>1. p \in Nat /\ p + 1 <= L
    <3> HIDE DEF L
    <3> QED
      BY <1>1, <1>2, <1>3
  <2> HIDE DEF p
  <2>2. /\ Word(f, p) \in W32
        /\ I32(f, p) \in Int /\ (I32(f, p) >= 0 => I32(f, p) \in H)
    BY <2>1, WordIs, I32Is
  <2> QED
    BY <2>2 DEF p
<1>4. ASSUME NEW d \in Nat, d + 2 <= y PROVE U64(f, o + d) \in D
  <2> DEFINE p == o + d
  <2>1. p \in Nat /\ p + 2 <= L
    <3> HIDE DEF L
    <3> QED
      BY <1>1, <1>2, <1>4
  <2> HIDE DEF p
  <2>2. U64(f, p) \in D
    BY <2>1, U64Is
  <2> QED
    BY <2>2 DEF p
<1>5. ASSUME NEW x \in W32 PROVE x \in D
  BY WidthsAre DEF W32
<1>6. 0 \in D /\ 0 \in H /\ 0 \in Int
  <2>1. M64 \in Nat /\ M64 > 1
    BY WidthsAre
  <2>2. M32 \in Nat /\ M32 > 1 /\ (M32 \div 2) \in Nat /\ M32 = 2 * (M32 \div 2)
    BY WidthsAre
  <2> QED
    BY <2>1, <2>2
<1> HIDE DEF D, H, L
<1>7. o + 0 = o
  BY <1>1
<1>8. 0 \in Nat /\ 1 \in Nat /\ 2 \in Nat /\ 3 \in Nat /\ 4 \in Nat /\ 6 \in Nat /\ 8 \in Nat
  OBVIOUS
<1>9. CASE U64_HASH(g)
  <2>1. y = 10
    BY <1>2, <1>9 DEF U64_HASH
  <2>2. 0 + 2 <= y /\ 2 + 1 <= y /\ 3 + 1 <= y /\ 4 + 2 <= y /\ 8 + 2 <= y
    BY <2>1
  <2>3. U64(f, o + 0) \in D /\ U64(f, o + 4) \in D /\ U64(f, o + 8) \in D
    BY <1>4, <1>8, <2>2, Zenon
  <2>4. /\ I32(f, o + 2) \in Int /\ (I32(f, o + 2) >= 0 => I32(f, o + 2) \in H)
        /\ I32(f, o + 3) \in Int /\ (I32(f, o + 3) >= 0 => I32(f, o + 3) \in H)
    BY <1>3, <1>8, <2>2, Zenon
  <2>5. r = [hash |-> U64(f, o), size |-> I32(f, o + 2),
        unpadded |-> I32(f, o + 3), offset |-> U64(f, o + 4),
        hash_offset |-> U64(f, o + 6), encryption_offset |-> U64(f, o + 8)]
    BY <1>9 DEF FileEntry
  <2> HIDE DEF r
  <2>6. /\ r.hash = U64(f, o + 0) /\ r.size = I32(f, o + 2) /\ r.unpadded = I32(f, o + 3)
        /\ r.offset = U64(f, o + 4) /\ r.encryption_offset = U64(f, o + 8)
    BY <1>7, <2>5
  <2>7. RawIs(f, r)
    BY <2>3, <2>4, <2>6, Zenon DEF RawIs, D, H
  <2> QED
    BY <2>7 DEF r
<1>10. CASE ~U64_HASH(g)
  <2>1. y >= 4 /\ (~IsDs1(g) => y >= 8) /\ (g = "DarkSouls3" => y >= 9) /\ y \in Nat
    BY <1>2 DEF IsDs1
  <2>2. 0 + 1 <= y /\ 1 + 1 <= y /\ 2 + 2 <= y /\ (~IsDs1(g) => 6 + 2 <= y)
        /\ (g = "DarkSouls3" => 8 + 1 <= y)
    BY <2>1
  <2>3. U64(f, o + 2) \in D /\ (~IsDs1(g) => U64(f, o + 6) \in D)
    BY <1>4, <1>8, <2>2, Zenon
  <2>4. /\ Word(f, o + 0) \in W32
        /\ I32(f, o + 1) \in Int /\ (I32(f, o + 1) >= 0 => I32(f, o + 1) \in H)
        /\ (g = "DarkSouls3" => I32(f, o + 8) \in Int /\ (I32(f, o + 8) >= 0 => I32(f, o + 8) \in H))
    BY <1>3, <1>8, <2>2, Zenon
  <2>5. Word(f, o + 0) \in D
    BY <1>5, <2>4
  <2>6. r = [hash |-> Word(f, o), size |-> I32(f, o + 1),
        offset |-> U64(f, o + 2),
        unpadded |-> IF g = "DarkSouls3" THEN I32(f, o + 8) ELSE 0,
        hash_offset |-> IF IsDs1(g) THEN 0 ELSE U64(f, o + 4),
        encryption_offset |-> IF IsDs1(g) THEN 0 ELSE U64(f, o + 6)]
    BY <1>10 DEF FileEntry
  <2> HIDE DEF r
  <2>7. /\ r.hash = Word(f, o + 0) /\ r.size = I32(f, o + 1) /\ r.offset = U64(f, o + 2)
        /\ r.unpadded = (IF g = "DarkSouls3" THEN I32(f, o + 8) ELSE 0)
        /\ r.encryption_offset = (IF IsDs1(g) THEN 0 ELSE U64(f, o + 6))
    BY <1>7, <2>6
  <2>8. r.encryption_offset \in D
    BY <1>6, <2>3, <2>7, Zenon
  <2>9. r.unpadded \in Int /\ (r.unpadded >= 0 => r.unpadded \in H)
    <3>1. CASE g = "DarkSouls3"
      BY <2>4, <2>7, <3>1, Zenon
    <3>2. CASE g # "DarkSouls3"
      <4>1. r.unpadded = 0
        BY <2>7, <3>2, Zenon
      <4> QED
        BY <1>6, <4>1, Zenon
    <3> QED
      BY <3>1, <3>2
  <2>10. RawIs(f, r)
    BY <2>3, <2>4, <2>5, <2>7, <2>8, <2>9, Zenon DEF RawIs, D, H
  <2> QED
    BY <2>10 DEF r
<1> QED
  BY <1>9, <1>10

LEMMA RangesAreTyped ==
  ASSUME NEW f, f.words \in Seq(W32), NEW o \in Nat, EncryptionInBytes(f, o)
  PROVE  Ranges(f, o) \in Seq([start : 0..M64 - 1, end : 0..M64 - 1])
<1> DEFINE L == Len(f.words)
           n == I32(f, o + KeyWords)
           R == [start : 0..M64 - 1, end : 0..M64 - 1]
           rs == Ranges(f, o)
           P(r) == o + KeyWords + 1 + 4 * (r - 1)
<1>1. L \in Nat /\ o + (4 + 1) <= L /\ n >= 0 /\ o + (4 + 1 + 4 * n) <= L
  BY DEF EncryptionInBytes, InBytes, KeyWords
<1>2. n \in Nat
  <2> DEFINE p == o + 4
  <2>1. p \in Nat /\ p + 1 <= Len(f.words)
    BY <1>1
  <2> HIDE DEF p
  <2>2. I32(f, p) \in Int
    BY <2>1, I32Is
  <2> QED
    BY <1>1, <2>2 DEF p, KeyWords
<1>3. rs = [r \in 1..n |-> [start |-> U64(f, P(r)), end |-> U64(f, P(r) + 2)]]
  BY DEF Ranges
<1> HIDE DEF rs, n, L
<1>4. rs = [r \in 1..n |-> rs[r]]
  BY <1>3
<1>5. ASSUME NEW r \in 1..n PROVE rs[r] \in R
  <2> DEFINE p == P(r)
  <2>1. p \in Nat /\ p + 2 <= L /\ p + 2 \in Nat /\ (p + 2) + 2 <= L
    BY <1>1, <1>2 DEF KeyWords
  <2>2. rs[r] = [start |-> U64(f, p), end |-> U64(f, p + 2)]
    BY <1>3
  <2> HIDE DEF p
  <2>3. U64(f, p) \in 0..M64 - 1
    BY <2>1, U64Is DEF L
  <2>4. U64(f, p + 2) \in 0..M64 - 1
    BY <2>1, U64Is DEF L
  <2> QED
    BY <2>2, <2>3, <2>4
<1> HIDE DEF R
<1>6. rs \in Seq(R)
  BY <1>2, <1>4, <1>5, IsSeqOf
<1> QED
  BY <1>6 DEF rs, R

LEMMA EntriesAreTyped ==
  ASSUME NEW f, f.words \in Seq(W32), Len(f.words) >= 8, NEW g \in Formats, CanRef(f, g)
  PROVE  EntriesAs(f, g) \in Seq(Entry)
<1> DEFINE es == Entries(f, g)
           t == EntriesAs(f, g)
           c == Len(es)
           R == [start : 0..M64 - 1, end : 0..M64 - 1]
<1>1. es \in Seq(Raw(f, g))
  BY EntriesAreRaw
<1>2. c \in Nat /\ DOMAIN es = 1..c
  BY <1>1
<1>3. t = [e \in 1..c |-> WithEncryption(f, es[e])]
  BY <1>2 DEF EntriesAs
<1>4. ASSUME NEW e \in 1..c PROVE WithEncryption(f, es[e]) \in Entry
  <2> DEFINE r == es[e]
             E == r.encryption_offset
             rs == IF E = 0 THEN <<>> ELSE Ranges(f, E)
             H == 0..(M32 \div 2) - 1
  <2>1. r \in Raw(f, g)
    BY <1>1, SeqAt
  <2>2. PICK o \in Slots(f, g) : r = FileEntry(f, g, o)
    BY <2>1 DEF Raw
  <2>3. RawIs(f, r)
    BY <2>2, RawIsTyped
  <2>4. /\ is_valid(f, g, r) /\ (E # 0 => EncryptionInBytes(f, E))
    BY <1>2 DEF CanRef, AllValid
  <2> HIDE DEF r
  <2>5. r.size \in H /\ r.unpadded \in H
    BY <2>3, <2>4 DEF is_valid, RawIs
  <2>6. rs \in Seq(R)
    <3>1. CASE E = 0
      BY <3>1
    <3>2. CASE E # 0
      <4>1. E \in Nat
        BY <2>3, WidthsAre DEF RawIs
      <4>2. Ranges(f, E) \in Seq(R)
        BY <2>4, <3>2, <4>1, RangesAreTyped
      <4> QED
        BY <3>2, <4>2
    <3> QED
      BY <3>1, <3>2
  <2>7. WithEncryption(f, r) =
          [hash |-> r.hash, offset |-> r.offset, size |-> r.size, unpadded |-> r.unpadded,
           encrypted |-> E # 0, ranges |-> rs]
    BY DEF WithEncryption
  <2>8. (E # 0) \in BOOLEAN
    OBVIOUS
  <2> DEFINE B == (E # 0)
             V == Seq(R)
             D == 0..M64 - 1
  <2>9. B \in BOOLEAN /\ rs \in V /\ r.hash \in D /\ r.offset \in D
    BY <2>3, <2>6, <2>8 DEF RawIs
  <2>10. Entry = [hash : D, offset : D, size : H, unpadded : H, encrypted : BOOLEAN, ranges : V]
    BY DEF Entry
  <2>11. WithEncryption(f, r) = [hash |-> r.hash, offset |-> r.offset, size |-> r.size,
           unpadded |-> r.unpadded, encrypted |-> B, ranges |-> rs]
    BY <2>7
  <2> HIDE DEF B, V, D, H, rs, E
  <2>12. WithEncryption(f, r) \in Entry
    BY <2>5, <2>9, <2>10, <2>11
  <2> QED
    BY <2>12 DEF r
<1> HIDE DEF es, t, c
<1>5. t = [e \in 1..c |-> t[e]] /\ \A e \in 1..c : t[e] \in Entry
  BY <1>3, <1>4
<1>6. t \in Seq(Entry)
  BY <1>2, <1>5, IsSeqOf
<1> QED
  BY <1>6 DEF t

LEMMA WordsOfWrite ==
  ASSUME NEW a, IsArchive(a)
  PROVE  Write(a).words \in Seq(W32) /\ Len(Write(a).words) >= 8
<1>1. /\ Write(a).words \in Seq(W32) /\ Len(Write(a).words) = FileSize(a) + a.padding
  BY WriteIsLaidOut DEF Layout
<1>2. /\ FileSize(a) \in Nat /\ FileSize(a) >= EncryptionStart(a)
      /\ EncryptionStart(a) \in Nat /\ EncryptionStart(a) >= EntriesAt(a)
      /\ EntriesAt(a) >= 8 /\ EntriesAt(a) \in Nat /\ a.padding \in Nat
  BY PlacesAre, ArchiveIs
<1> QED
  BY <1>1, <1>2

-----------------------------------------------------------------------------
(* A sequence of members of some set is a sequence, and the other way round. *)
LEMMA SeqIsSeq ==
  ASSUME NEW S, NEW s \in Seq(S)
  PROVE  IsSeq(s)
BY DEF IsSeq

LEMMA IsSeqInSeq ==
  ASSUME NEW s, IsSeq(s), NEW S, \A n \in 1..Len(s) : s[n] \in S
  PROVE  s \in Seq(S)
BY DEF IsSeq

(* Append keeps what there is.                                               *)
LEMMA AppendKeeps ==
  ASSUME NEW s, IsSeq(s), NEW x
  PROVE  /\ IsSeq(Append(s, x))
         /\ Len(Append(s, x)) = Len(s) + 1
         /\ \A n \in 1..Len(s) : Append(s, x)[n] = s[n]
         /\ Append(s, x)[Len(s) + 1] = x
<1> DEFINE S == {s[n] : n \in 1..Len(s)} \cup {x}
<1>1. s \in Seq(S)
  BY IsSeqInSeq
<1>2. x \in S
  OBVIOUS
<1>3. Append(s, x) \in Seq(S)
  BY <1>1, <1>2
<1> HIDE DEF S
<1>4. IsSeq(Append(s, x))
  BY <1>3, SeqIsSeq
<1>5. /\ Len(Append(s, x)) = Len(s) + 1
      /\ \A n \in 1..Len(s) : Append(s, x)[n] = s[n]
      /\ Append(s, x)[Len(s) + 1] = x
  BY <1>1, <1>2
<1> QED
  BY <1>4, <1>5

(* So does putting one sequence behind another.                              *)
LEMMA ConcatKeeps ==
  ASSUME NEW s, IsSeq(s), NEW t, IsSeq(t)
  PROVE  /\ IsSeq(s \o t)
         /\ Len(s \o t) = Len(s) + Len(t)
         /\ \A n \in 1..Len(s) : (s \o t)[n] = s[n]
         /\ \A n \in 1..Len(t) : (s \o t)[Len(s) + n] = t[n]
<1> DEFINE S == {s[n] : n \in 1..Len(s)} \cup {t[n] : n \in 1..Len(t)}
<1>1. s \in Seq(S) /\ t \in Seq(S)
  BY IsSeqInSeq
<1> HIDE DEF S
<1>2. s \o t \in Seq(S)
  BY <1>1
<1>3. IsSeq(s \o t)
  BY <1>2, SeqIsSeq
<1>4. /\ Len(s \o t) = Len(s) + Len(t)
      /\ \A n \in 1..Len(s) : (s \o t)[n] = s[n]
      /\ \A n \in 1..Len(t) : (s \o t)[Len(s) + n] = t[n]
  BY <1>1
<1> QED
  BY <1>3, <1>4

(* What Store does to the store: a header cell and the cells of the ranges   *)
(* go behind what there is.                                                  *)
LEMMA StoreGains ==
  ASSUME NEW s, IsSeq(s), NEW x, NEW t, IsSeq(t)
  PROVE  LET more == Append(s, x) \o t
         IN  /\ IsSeq(more) /\ Len(more) = Len(s) + 1 + Len(t)
             /\ \A n \in 1..Len(s) : more[n] = s[n]
             /\ more[Len(s) + 1] = x
             /\ \A n \in 1..Len(t) : more[Len(s) + 1 + n] = t[n]
<1> DEFINE before == Append(s, x)
           more == before \o t
<1>1. /\ IsSeq(before) /\ Len(before) = Len(s) + 1 /\ Len(s) \in Nat
      /\ \A n \in 1..Len(s) : before[n] = s[n]
      /\ before[Len(s) + 1] = x
  BY AppendKeeps DEF IsSeq
<1> HIDE DEF before
<1>2. /\ IsSeq(more) /\ Len(more) = Len(before) + Len(t)
      /\ \A n \in 1..Len(before) : more[n] = before[n]
      /\ \A n \in 1..Len(t) : more[Len(before) + n] = t[n]
  <2>1. IsSeq(before)
    BY <1>1
  <2> QED
    BY <2>1, ConcatKeeps
<1> HIDE DEF more
<1>3. \A n \in 1..Len(s) : more[n] = s[n]
  BY <1>1, <1>2
<1>4. more[Len(s) + 1] = x /\ Len(more) = Len(s) + 1 + Len(t)
  BY <1>1, <1>2
<1> QED
  BY <1>1, <1>2, <1>3, <1>4 DEF more, before

(* Sorting gives a sequence of the same length, whatever the order.          *)
LEMMA SortedIsSeq ==
  ASSUME NEW s, IsSeq(s)
  PROVE  IsSeq(Sorted(s)) /\ Len(Sorted(s)) = Len(s)
<1>1. Len(s) \in Nat /\ DOMAIN s = 1..Len(s)
  BY DEF IsSeq
<1>2. PICK f : Sorted(s) = [n \in 1..Len(s) |-> f[n]]
  <2> DEFINE f == [n \in 1..Len(s) |-> s[CHOOSE m \in DOMAIN s : Rank(s, m) = n]]
  <2>1. Sorted(s) = [n \in 1..Len(s) |-> f[n]]
    BY <1>1 DEF Sorted
  <2> QED
    BY <2>1
<1> QED
  BY <1>1, <1>2 DEF IsSeq

(* A range as the store has it.                                              *)
StoredRange == [start : Nat, blocks : Nat]

(* The order of the ends, those equal as they were, is strict and total, and *)
(* a range that comes before another has fewer before it.                    *)
LEMMA EndsAreInts ==
  ASSUME NEW r \in StoredRange
  PROVE  EndOffset(r) \in Int
<1>1. r.start \in Int /\ r.blocks \in Int /\ Block \in Int /\ M32 \in Int /\ M32 > 0
  BY UintsAssumption, StoreEncryptionAssumption DEF StoredRange
<1>2. r.start + r.blocks * Block \in Int
  BY <1>1
<1> HIDE DEF StoredRange
<1> QED
  BY <1>1, <1>2 DEF EndOffset

LEMMA RankIsPosition ==
  ASSUME NEW s \in Seq(StoredRange), NEW n \in DOMAIN s
  PROVE  /\ IsFiniteSet({l \in DOMAIN s : Before(s, l, n)})
         /\ Rank(s, n) \in DOMAIN s
<1> DEFINE P == {l \in DOMAIN s : Before(s, l, n)}
<1>1. DOMAIN s = 1..Len(s) /\ Len(s) \in Nat
  OBVIOUS
<1>2. n \in 1..Len(s) /\ EndOffset(s[n]) \in Int
  BY EndsAreInts
<1>3. n \notin P
  BY <1>1, <1>2 DEF Before
<1>4. IsFiniteSet(DOMAIN s) /\ Cardinality(DOMAIN s) = Len(s)
  <2> DEFINE L == Len(s)
  <2>1. L \in Nat /\ DOMAIN s = 1..L
    BY <1>1
  <2> HIDE DEF L
  <2>2. /\ IsFiniteSet(1..L)
        /\ Cardinality(1..L) = IF 1 > L THEN 0 ELSE L - 1 + 1
    BY <2>1, FS_Interval
  <2>3. IsFiniteSet(1..L) /\ Cardinality(1..L) = L
    BY <2>1, <2>2
  <2> QED
    BY <2>1, <2>3 DEF L
<1>5. /\ IsFiniteSet(P) /\ Cardinality(P) <= Len(s)
      /\ Cardinality(P) = Len(s) => P = DOMAIN s
  BY <1>4, FS_Subset
<1>6. Cardinality(P) \in Nat
  BY <1>5, FS_CardinalityType
<1>7. Cardinality(P) # Len(s)
  BY <1>3, <1>5
<1>8. Rank(s, n) = Cardinality(P) + 1
  BY DEF Rank
<1> HIDE DEF P
<1>9. Rank(s, n) \in DOMAIN s
  BY <1>1, <1>5, <1>6, <1>7, <1>8
<1> QED
  BY <1>5, <1>9 DEF P

LEMMA BeforeIsLower ==
  ASSUME NEW s \in Seq(StoredRange), NEW m \in DOMAIN s, NEW n \in DOMAIN s,
         Before(s, m, n)
  PROVE  Rank(s, m) < Rank(s, n)
<1> DEFINE P(x) == {l \in DOMAIN s : Before(s, l, x)}
<1>1. \A x \in DOMAIN s : EndOffset(s[x]) \in Int /\ x \in Int
  BY EndsAreInts
<1>2. P(m) \subseteq P(n) /\ m \in P(n) /\ m \notin P(m)
  BY <1>1 DEF Before
<1>3. IsFiniteSet(P(m)) /\ IsFiniteSet(P(n))
  BY RankIsPosition
<1>4. Cardinality(P(m)) \in Nat /\ Cardinality(P(n)) \in Nat
  BY <1>3, FS_CardinalityType
<1>5. Cardinality(P(m)) <= Cardinality(P(n)) /\ Cardinality(P(m)) # Cardinality(P(n))
  BY <1>2, <1>3, FS_Subset
<1>6. Rank(s, m) = Cardinality(P(m)) + 1 /\ Rank(s, n) = Cardinality(P(n)) + 1
  BY DEF Rank
<1> HIDE DEF P
<1> QED
  BY <1>4, <1>5, <1>6

LEMMA RanksDiffer ==
  ASSUME NEW s \in Seq(StoredRange), NEW m \in DOMAIN s, NEW n \in DOMAIN s,
         Rank(s, m) = Rank(s, n)
  PROVE  m = n
<1>0. DOMAIN s = 1..Len(s) /\ Len(s) \in Nat
  OBVIOUS
<1>1. \A x \in DOMAIN s : EndOffset(s[x]) \in Int /\ x \in Int /\ Rank(s, x) \in Int
  <2> SUFFICES ASSUME NEW x \in DOMAIN s
               PROVE  EndOffset(s[x]) \in Int /\ x \in Int /\ Rank(s, x) \in Int
    OBVIOUS
  <2>1. s[x] \in StoredRange
    BY <1>0
  <2>2. Rank(s, x) \in DOMAIN s
    BY RankIsPosition
  <2> QED
    BY <1>0, <2>1, <2>2, EndsAreInts
<1>2. ASSUME m # n PROVE FALSE
  <2>1. Before(s, m, n) \/ Before(s, n, m)
    BY <1>1, <1>2 DEF Before
  <2> QED
    BY <1>1, <2>1, BeforeIsLower
<1> QED
  BY <1>2

(* Every position is the rank of one range.                                  *)
LEMMA PositionIsRank ==
  ASSUME NEW s \in Seq(StoredRange), NEW p \in DOMAIN s
  PROVE  \E n \in DOMAIN s : Rank(s, n) = p
<1> DEFINE f == [n \in DOMAIN s |-> Rank(s, n)]
<1>1. DOMAIN s = 1..Len(s) /\ Len(s) \in Nat
  OBVIOUS
<1>2. IsFiniteSet(DOMAIN s)
  BY <1>1, FS_Interval
<1>3. f \in Injection(DOMAIN s, DOMAIN s)
  BY RankIsPosition, RanksDiffer DEF Injection, IsInjective
<1>4. f \in Surjection(DOMAIN s, DOMAIN s)
  BY <1>2, <1>3, FS_Injection
<1> QED
  BY <1>4 DEF Surjection

(* What store_encryption's sort gives: the same ranges, as many of them, by  *)
(* their ends.                                                               *)
LEMMA SortedIsByEnds ==
  ASSUME NEW s \in Seq(StoredRange)
  PROVE  /\ Sorted(s) \in Seq(StoredRange) /\ Len(Sorted(s)) = Len(s)
         /\ \A p \in 1..(Len(s) - 1) :
              EndOffset(Sorted(s)[p]) <= EndOffset(Sorted(s)[p + 1])
         /\ {Sorted(s)[p] : p \in 1..Len(s)} = {s[n] : n \in 1..Len(s)}
<1> DEFINE at(p) == CHOOSE n \in DOMAIN s : Rank(s, n) = p
<1>1. DOMAIN s = 1..Len(s) /\ Len(s) \in Nat
  OBVIOUS
<1>2. \A p \in DOMAIN s : at(p) \in DOMAIN s /\ Rank(s, at(p)) = p
  BY PositionIsRank
<1>3. \A n \in DOMAIN s : at(Rank(s, n)) = n
  BY <1>2, RankIsPosition, RanksDiffer
<1>4. Sorted(s) = [p \in DOMAIN s |-> s[at(p)]]
  BY DEF Sorted
<1> HIDE DEF at
<1>5. Sorted(s) \in Seq(StoredRange) /\ Len(Sorted(s)) = Len(s)
  <2>1. \A p \in 1..Len(s) : s[at(p)] \in StoredRange
    BY <1>1, <1>2
  <2> QED
    BY <1>1, <1>4, <2>1
<1>6. ASSUME NEW p \in 1..(Len(s) - 1)
      PROVE  EndOffset(Sorted(s)[p]) <= EndOffset(Sorted(s)[p + 1])
  <2>1. p \in DOMAIN s /\ p + 1 \in DOMAIN s /\ p \in Int
    BY <1>1
  <2>2. /\ at(p) \in DOMAIN s /\ at(p + 1) \in DOMAIN s
        /\ EndOffset(s[at(p)]) \in Int /\ EndOffset(s[at(p + 1)]) \in Int
    BY <1>2, <2>1, EndsAreInts
  <2>3. ~Before(s, at(p + 1), at(p))
    BY <1>2, <2>1, <2>2, BeforeIsLower
  <2>4. EndOffset(s[at(p)]) <= EndOffset(s[at(p + 1)])
    BY <2>2, <2>3 DEF Before
  <2> QED
    BY <1>4, <2>1, <2>4
<1>7. {Sorted(s)[p] : p \in 1..Len(s)} = {s[n] : n \in 1..Len(s)}
  <2>1. ASSUME NEW p \in 1..Len(s) PROVE Sorted(s)[p] \in {s[n] : n \in 1..Len(s)}
    BY <1>1, <1>2, <1>4
  <2>2. ASSUME NEW n \in 1..Len(s) PROVE s[n] \in {Sorted(s)[p] : p \in 1..Len(s)}
    <3>1. Rank(s, n) \in 1..Len(s) /\ at(Rank(s, n)) = n
      BY <1>1, <1>3, RankIsPosition
    <3>2. Sorted(s)[Rank(s, n)] = s[n]
      BY <1>1, <1>4, <3>1
    <3> QED
      BY <3>1, <3>2
  <2> QED
    BY <2>1, <2>2
<1> QED
  BY <1>5, <1>6, <1>7

-----------------------------------------------------------------------------
(* Nothing is stored while the header is parsed; from then on there is an id *)
(* for each entry that was done.                                             *)
IdsAreOfEntriesDone ==
  /\ k \in Nat \ {0} /\ Len(ids) = k - 1
  /\ status = "parsing" => ids = <<>>

(* The id of an encrypted entry is an index into the store, turned round, of *)
(* a header cell of that entry.                                              *)
PointsToHeader(j) ==
  IF entries[j].encrypted
  THEN /\ ids[j] \in 1..M32 - 1
       /\ M32 - ids[j] \in 1..Len(out)
       /\ out[M32 - ids[j]].header = j
  ELSE ids[j] = NoId
IdsPointIntoStore == \A j \in 1..Len(ids) : PointsToHeader(j)

IdsInv ==
  /\ IsSeq(ranges) /\ IsSeq(out) /\ IsSeq(ids)
  /\ IdsAreOfEntriesDone
  /\ IdsPointIntoStore

(* The invariant says that ids find their headers: the complement of the     *)
(* complement of an index is that index (encryption.rs:82-91).               *)
LEMMA IdsInvImplies ==
  ASSUME IdsInv
  PROVE  IdsFindTheirHeader
<1> SUFFICES ASSUME NEW j \in 1..Len(ids)
             PROVE  IF entries[j].encrypted
                    THEN /\ ids[j] # NoId
                         /\ IndexOf(ids[j]) < Len(out)
                         /\ HeaderAt(j).header = j
                    ELSE ids[j] = NoId
  BY DEF IdsFindTheirHeader
<1>1. PointsToHeader(j)
  BY DEF IdsInv, IdsPointIntoStore
<1>2. CASE ~entries[j].encrypted
  BY <1>1, <1>2 DEF PointsToHeader
<1>3. CASE entries[j].encrypted
  <2>1. ids[j] \in 1..M32 - 1 /\ M32 - ids[j] \in 1..Len(out)
    BY <1>1, <1>3 DEF PointsToHeader
  <2>2. ids[j] \in Int /\ M32 \in Int /\ Len(out) \in Int
    BY <2>1, UintsAssumption DEF IdsInv, IsSeq
  <2>3. IndexOf(ids[j]) + 1 = M32 - ids[j]
    BY <2>2 DEF IndexOf
  <2>4. ids[j] # NoId /\ IndexOf(ids[j]) < Len(out)
    BY <2>1, <2>2 DEF IndexOf, NoId
  <2>5. HeaderAt(j).header = j
    BY <1>1, <1>3, <2>3 DEF HeaderAt, PointsToHeader
  <2> QED
    BY <1>3, <2>4, <2>5
<1> QED
  BY <1>2, <1>3

LEMMA IdsInit == Init => IdsInv
BY DEF Init, StoreInit, IdsInv, IdsAreOfEntriesDone, IdsPointIntoStore, IsSeq

(* A step that leaves the store and the entries alone.                       *)
LEMMA IdsUntouched ==
  ASSUME IdsInv, UNCHANGED <<entries, k, out, ids>>, IsSeq(ranges'),
         status' = "parsing" => status = "parsing"
  PROVE  IdsInv'
BY DEF IdsInv, IdsAreOfEntriesDone, IdsPointIntoStore, PointsToHeader, IsSeq

(* What the store and its ids gain goes behind what they have, and an id     *)
(* that is added for entry k is that of entry k.                             *)
LEMMA IdsGrow ==
  ASSUME IdsInv, status = "storing", UNCHANGED <<entries, status>>,
         k' = k + 1, IsSeq(ranges'),
         IsSeq(out'), Len(out) <= Len(out'), \A n \in 1..Len(out) : out'[n] = out[n],
         NEW id, ids' = Append(ids, id),
         IF entries[k].encrypted
         THEN id \in 1..M32 - 1 /\ M32 - id \in 1..Len(out') /\ out'[M32 - id].header = k
         ELSE id = NoId
  PROVE  IdsInv'
<1>1. /\ IsSeq(ids') /\ Len(ids') = Len(ids) + 1
      /\ \A n \in 1..Len(ids) : ids'[n] = ids[n]
      /\ ids'[Len(ids) + 1] = id
  BY AppendKeeps DEF IdsInv
<1>2. k \in Nat \ {0} /\ Len(ids) = k - 1 /\ Len(out) \in Nat /\ Len(out') \in Nat /\ M32 \in Nat
  BY UintsAssumption DEF IdsInv, IdsAreOfEntriesDone, IsSeq
<1>3. IdsAreOfEntriesDone'
  BY <1>1, <1>2 DEF IdsAreOfEntriesDone
<1>4. ASSUME NEW j \in 1..Len(ids')
      PROVE  PointsToHeader(j)'
  <2>1. CASE j = k
    BY <1>1, <1>2, <2>1 DEF PointsToHeader
  <2>2. CASE j # k
    <3>1. j \in 1..Len(ids) /\ ids'[j] = ids[j]
      BY <1>1, <1>2, <2>2
    <3>2. PointsToHeader(j)
      BY <3>1 DEF IdsInv, IdsPointIntoStore
    <3>3. CASE entries[j].encrypted
      <4>1. M32 - ids[j] \in 1..Len(out)
        BY <3>2, <3>3 DEF PointsToHeader
      <4>2. M32 - ids[j] \in 1..Len(out') /\ out'[M32 - ids[j]] = out[M32 - ids[j]]
        BY <1>2, <4>1
      <4> QED
        BY <3>1, <3>2, <3>3, <4>2 DEF PointsToHeader
    <3> QED
      BY <3>1, <3>2, <3>3 DEF PointsToHeader
  <2> QED
    BY <2>1, <2>2
<1>5. IsSeq(ranges)' /\ IsSeq(out)' /\ IsSeq(ids)'
  BY <1>1 DEF IsSeq
<1> QED
  BY <1>3, <1>4, <1>5 DEF IdsInv, IdsPointIntoStore

(* Every step keeps the invariant.                                           *)
LEMMA IdsNext == IdsInv /\ [Next]_vars => IdsInv'
<1> SUFFICES ASSUME IdsInv, [Next]_vars PROVE IdsInv'
  OBVIOUS
<1> USE DEF IdsInv
<1>1. ASSUME HeaderRead \/ HeaderRefused \/ FormatRefused
      PROVE  IdsInv'
  BY <1>1, IdsUntouched
     DEF HeaderRead, HeaderRefused, FormatRefused, NextOrder, KeepStore, Parsing
<1>2. CASE FormatRead
  <2>1. ids = <<>> /\ IsSeq(ids) /\ IsSeq(out) /\ IsSeq(ranges)
    BY <1>2 DEF FormatRead, Parsing, IdsAreOfEntriesDone
  <2>2. UNCHANGED <<k, ids, out, ranges>> /\ status' = "storing"
    BY <1>2 DEF FormatRead
  <2> QED
    BY <2>1, <2>2 DEF IdsAreOfEntriesDone, IdsPointIntoStore, IsSeq
<1>3. CASE SkipEmpty \/ BadRange \/ OobRange \/ TooManyRanges
  BY <1>3, IdsUntouched DEF SkipEmpty, BadRange, OobRange, TooManyRanges
<1>4. CASE AcceptRange
  <2>1. IsSeq(ranges')
    BY <1>4, AppendKeeps DEF AcceptRange
  <2> QED
    BY <1>4, <2>1, IdsUntouched DEF AcceptRange, AtRange, AtEntry
<1>5. CASE NotEncrypted
  <2>1. status = "storing" /\ ~entries[k].encrypted /\ Len(out) \in Nat
    BY <1>5 DEF NotEncrypted, AtEntry, entry, IsSeq
  <2> QED
    BY <1>5, <2>1, IdsGrow DEF NotEncrypted, IsSeq
<1>6. CASE Store
  <2> DEFINE cell == [header |-> k, count |-> Len(ranges)]
  <2>1. /\ status = "storing" /\ UNCHANGED <<entries, status>> /\ entries[k].encrypted
        /\ k' = k + 1 /\ ranges' = <<>> /\ ids' = Append(ids, IdOf(Len(out)))
        /\ out' = Append(out, cell) \o Sorted(ranges) /\ Len(out) < M32 - 1
    BY <1>6 DEF Store, AllAccepted, AtEntry, FitsStore, entry
  <2>2. IsSeq(Sorted(ranges))
    BY SortedIsSeq
  <2>3. /\ IsSeq(out') /\ Len(out') = Len(out) + 1 + Len(Sorted(ranges))
        /\ \A n \in 1..Len(out) : out'[n] = out[n]
        /\ out'[Len(out) + 1] = cell
    BY <2>1, <2>2, StoreGains
  <2>4. Len(out) \in Nat /\ Len(Sorted(ranges)) \in Nat /\ M32 \in Nat
    BY <2>2, UintsAssumption DEF IsSeq
  <2>5. Len(out) <= Len(out') /\ Len(out) + 1 \in 1..Len(out')
    BY <2>3, <2>4
  <2>6. out'[Len(out) + 1].header = k
    BY <2>3
  <2>7. IdOf(Len(out)) \in 1..M32 - 1 /\ M32 - IdOf(Len(out)) = Len(out) + 1
    BY <2>1, <2>4 DEF IdOf
  <2>8. IsSeq(ranges')
    BY <2>1 DEF IsSeq
  <2> QED
    BY <2>1, <2>3, <2>5, <2>6, <2>7, <2>8, IdsGrow
<1>7. CASE Processed
  BY <1>7, IdsUntouched DEF Processed, AllStored
<1>8. CASE UNCHANGED vars
  BY <1>8, IdsUntouched DEF vars, storeVars
<1> QED
  BY <1>1, <1>2, <1>3, <1>4, <1>5, <1>6, <1>7, <1>8 DEF Next, Checked, EntryDone, Ended

(* The id an entry gets while the header is processed finds that entry's     *)
(* header in the store ever after, whatever other entries are stored or      *)
(* refused (encryption.rs:215-272).                                          *)
THEOREM IdsAlwaysFindTheirHeader == Spec => []IdsFindTheirHeader
<1>1. IdsInv => IdsFindTheirHeader
  BY IdsInvImplies
<1> QED
  BY <1>1, IdsInit, IdsNext, PTL DEF Spec

-----------------------------------------------------------------------------
(* The remainders that the widths of the integers bring in.                  *)
LEMMA ModSmall ==
  ASSUME NEW M \in Nat \ {0}, NEW a \in 0..M - 1
  PROVE  a % M = a
OBVIOUS

LEMMA DiffMod ==
  ASSUME NEW M \in Nat \ {0}, NEW a \in 0..M - 1, NEW b \in 0..M - 1
  PROVE  /\ (a - b) % M \in Nat
         /\ a >= b => (a - b) % M = a - b
         /\ (a - b) % M = 0 <=> a = b
<1>1. CASE a >= b
  <2>1. a - b \in 0..M - 1
    BY <1>1
  <2> QED
    BY <1>1, <2>1, ModSmall
<1>2. CASE a < b
  <2>1. a - b + M \in 1..M - 1
    BY <1>2
  <2>2. (a - b) % M = a - b + M
    BY <1>2, <2>1
  <2> QED
    BY <1>2, <2>1, <2>2
<1> QED
  BY <1>1, <1>2

LEMMA Widths ==
  /\ M32 \in Nat \ {0} /\ M64 \in Nat \ {0} /\ M32 <= M64
  /\ M32 \div 2 \in Nat /\ M32 \div 2 <= M32
  /\ Block \in Nat \ {0}
<1>1. M32 \in Nat /\ M32 > 1 /\ Block \in Nat \ {0}
  BY UintsAssumption, StoreEncryptionAssumption
<1>2. M32 * M32 \in Nat \ {0} /\ M32 <= M32 * M32
  BY <1>1
<1> QED
  BY <1>1, <1>2 DEF M64

-----------------------------------------------------------------------------
(* What has been packed of the ranges of an entry that come before a place.  *)
NonemptyOf(e) ==
  {n \in 1..Len(e.ranges) : e.ranges[n].start # e.ranges[n].end}
Taken(e, place) == {n \in NonemptyOf(e) : n < place}
AllInFile(e, places) == \A n \in places : e.ranges[n].end <= e.size

Packs(e, place, rs) ==
  /\ place \in 1..Len(e.ranges) + 1
  /\ Len(rs) = Cardinality(Taken(e, place))
  /\ AllInFile(e, Taken(e, place)) =>
       {rs[n] : n \in 1..Len(rs)} = {AsStored(e.ranges[n]) : n \in Taken(e, place)}

LEMMA RangeTypes ==
  ASSUME NEW e \in Entry
  PROVE  /\ Len(e.ranges) \in Nat
         /\ \A n \in 1..Len(e.ranges) :
              e.ranges[n].start \in 0..M64 - 1 /\ e.ranges[n].end \in 0..M64 - 1
         /\ e.size \in 0..(M32 \div 2) - 1
<1> DEFINE range64 == [start : 0..M64 - 1, end : 0..M64 - 1]
<1>1. e.ranges \in Seq(range64) /\ e.size \in 0..(M32 \div 2) - 1
  BY DEF Entry
<1> HIDE DEF range64
<1>2. Len(e.ranges) \in Nat /\ \A n \in 1..Len(e.ranges) : e.ranges[n] \in range64
  BY <1>1
<1> QED
  BY <1>1, <1>2 DEF range64

LEMMA TakenIsFinite ==
  ASSUME NEW e \in Entry, NEW place
  PROVE  IsFiniteSet(Taken(e, place)) /\ Cardinality(Taken(e, place)) \in Nat
<1>1. Len(e.ranges) \in Int
  BY RangeTypes
<1>2. IsFiniteSet(1..Len(e.ranges))
  BY <1>1, FS_Interval
<1>3. Taken(e, place) \subseteq 1..Len(e.ranges)
  BY DEF Taken, NonemptyOf
<1>4. IsFiniteSet(Taken(e, place))
  BY <1>2, <1>3, FS_Subset
<1> QED
  BY <1>4, FS_CardinalityType

(* An entry begins with nothing packed.                                      *)
LEMMA PackNothing ==
  ASSUME NEW e \in Entry
  PROVE  Packs(e, 1, <<>>)
<1>1. Taken(e, 1) = {}
  BY RangeTypes DEF Taken, NonemptyOf
<1>2. Len(e.ranges) \in Nat
  BY RangeTypes
<1>3. Cardinality({}) = 0
  BY FS_EmptySet
<1> QED
  BY <1>1, <1>2, <1>3 DEF Packs

(* A range that starts where it ends is passed over.                         *)
LEMMA PackSkip ==
  ASSUME NEW e \in Entry, NEW place \in 1..Len(e.ranges), NEW rs,
         e.ranges[place].start = e.ranges[place].end,
         Packs(e, place, rs)
  PROVE  Packs(e, place + 1, rs)
<1>1. Len(e.ranges) \in Nat
  BY RangeTypes
<1>2. Taken(e, place + 1) = Taken(e, place)
  BY <1>1 DEF Taken, NonemptyOf
<1>3. place + 1 \in 1..Len(e.ranges) + 1
  BY <1>1
<1>4. Packs(e, place, rs) <=>
        /\ place \in 1..Len(e.ranges) + 1
        /\ Len(rs) = Cardinality(Taken(e, place + 1))
        /\ AllInFile(e, Taken(e, place + 1)) =>
             {rs[n] : n \in 1..Len(rs)}
               = {AsStored(e.ranges[n]) : n \in Taken(e, place + 1)}
  BY <1>2, Zenon DEF Packs
<1> QED
  BY <1>3, <1>4, Zenon DEF Packs

(* The range as AcceptRange packs it.                                        *)
Packed(r) == [start |-> r.start % M32, blocks |-> (((r.end - r.start) % M64) % M32) \div Block]

LEMMA PackedIsStored ==
  ASSUME NEW e \in Entry, NEW n \in 1..Len(e.ranges),
         e.ranges[n].start <= e.ranges[n].end
  PROVE  /\ Packed(e.ranges[n]) \in StoredRange
         /\ e.ranges[n].end <= e.size => Packed(e.ranges[n]) = AsStored(e.ranges[n])
<1> DEFINE a == e.ranges[n].start
           b == e.ranges[n].end
<1>1. a \in 0..M64 - 1 /\ b \in 0..M64 - 1 /\ e.size \in 0..(M32 \div 2) - 1 /\ a <= b
  BY RangeTypes
<1> HIDE DEF a, b
<1>2. (b - a) % M64 = b - a /\ b - a \in Nat
  BY <1>1, Widths, DiffMod
<1>3. a % M32 \in Nat /\ (b - a) % M32 \in Nat
  BY <1>1, <1>2, Widths
<1>4. ((b - a) % M32) \div Block \in Nat
  BY <1>3, Widths
<1>5. Packed(e.ranges[n]) = [start |-> a % M32, blocks |-> ((b - a) % M32) \div Block]
  BY <1>2 DEF Packed, a, b
<1>6. ASSUME b <= e.size
      PROVE  a % M32 = a /\ (b - a) % M32 = b - a
  <2>1. a \in 0..M32 - 1 /\ b - a \in 0..M32 - 1
    BY <1>1, <1>6, Widths
  <2> QED
    BY <2>1, Widths, ModSmall
<1>7. AsStored(e.ranges[n]) = [start |-> a, blocks |-> (b - a) \div Block]
  BY DEF AsStored, a, b
<1>8. b <= e.size => Packed(e.ranges[n]) = AsStored(e.ranges[n])
  BY <1>5, <1>6, <1>7
<1> QED
  BY <1>3, <1>4, <1>5, <1>8 DEF StoredRange, b

(* An accepted range is packed behind the others.                            *)
LEMMA PackOne ==
  ASSUME NEW e \in Entry, NEW place \in 1..Len(e.ranges),
         NEW rs \in Seq(StoredRange),
         e.ranges[place].start # e.ranges[place].end,
         e.ranges[place].start <= e.ranges[place].end,
         Packs(e, place, rs)
  PROVE  LET more == Append(rs, Packed(e.ranges[place]))
         IN  more \in Seq(StoredRange) /\ Packs(e, place + 1, more)
<1> DEFINE r == e.ranges[place]
           more == Append(rs, Packed(r))
           before == Taken(e, place)
           after == Taken(e, place + 1)
<1>1. Len(e.ranges) \in Nat
  BY RangeTypes
<1>2. after = before \cup {place} /\ place \notin before
  BY <1>1 DEF Taken, NonemptyOf
<1>3. Cardinality(after) = Cardinality(before) + 1 /\ Cardinality(before) \in Nat
  BY <1>2, TakenIsFinite, FS_AddElement
<1>4. Packed(r) \in StoredRange /\ (r.end <= e.size => Packed(r) = AsStored(r))
  BY PackedIsStored
<1>5. /\ more \in Seq(StoredRange) /\ Len(more) = Len(rs) + 1
      /\ \A n \in 1..Len(rs) : more[n] = rs[n]
      /\ more[Len(rs) + 1] = Packed(r)
      /\ Len(rs) \in Nat
  BY <1>4
<1>6. ASSUME AllInFile(e, after)
      PROVE  {more[n] : n \in 1..Len(more)} = {AsStored(e.ranges[n]) : n \in after}
  <2>1. AllInFile(e, before) /\ Packed(r) = AsStored(r)
    BY <1>2, <1>4, <1>6 DEF AllInFile
  <2>2. {rs[n] : n \in 1..Len(rs)} = {AsStored(e.ranges[n]) : n \in before}
    BY <2>1 DEF Packs
  <2>3. {more[n] : n \in 1..Len(more)} = {rs[n] : n \in 1..Len(rs)} \cup {Packed(r)}
    <3> HIDE DEF more
    <3>1. 1..Len(more) = 1..Len(rs) \cup {Len(rs) + 1}
      BY <1>5
    <3> QED
      BY <1>5, <3>1
  <2>4. {AsStored(e.ranges[n]) : n \in after}
          = {AsStored(e.ranges[n]) : n \in before} \cup {AsStored(r)}
    <3> HIDE DEF after, before
    <3> QED
      BY <1>2
  <2> QED
    BY <2>1, <2>2, <2>3, <2>4
<1>7. Len(more) = Cardinality(after)
  BY <1>3, <1>5 DEF Packs
<1>8. place + 1 \in 1..Len(e.ranges) + 1
  BY <1>1
<1>9. Packs(e, place + 1, more)
  BY <1>6, <1>7, <1>8 DEF Packs
<1> QED
  BY <1>5, <1>9

(* What the store says of an entry, see StoredRangesAreTheEntrys.            *)
Describes(s, e) ==
  /\ \A n \in 1..(Len(s) - 1) : EndOffset(s[n]) <= EndOffset(s[n + 1])
  /\ Len(s) = Cardinality(NonemptyOf(e))
  /\ {s[n] : n \in DOMAIN s} = {AsStored(e.ranges[n]) : n \in NonemptyOf(e)}

(* All that was packed, sorted, describes the entry.                         *)
LEMMA PackedDescribes ==
  ASSUME NEW e \in Entry, NEW rs \in Seq(StoredRange),
         Packs(e, Len(e.ranges) + 1, rs), AllInFile(e, NonemptyOf(e))
  PROVE  Describes(Sorted(rs), e)
<1>1. Taken(e, Len(e.ranges) + 1) = NonemptyOf(e)
  BY RangeTypes DEF Taken, NonemptyOf
<1>2. /\ Len(rs) = Cardinality(NonemptyOf(e))
      /\ {rs[n] : n \in 1..Len(rs)} = {AsStored(e.ranges[n]) : n \in NonemptyOf(e)}
  BY <1>1 DEF Packs
<1>3. /\ Sorted(rs) \in Seq(StoredRange) /\ Len(Sorted(rs)) = Len(rs)
      /\ \A p \in 1..(Len(rs) - 1) :
           EndOffset(Sorted(rs)[p]) <= EndOffset(Sorted(rs)[p + 1])
      /\ {Sorted(rs)[p] : p \in 1..Len(rs)} = {rs[n] : n \in 1..Len(rs)}
  BY SortedIsByEnds
<1>4. DOMAIN Sorted(rs) = 1..Len(rs)
  BY <1>3
<1> QED
  BY <1>2, <1>3, <1>4 DEF Describes

-----------------------------------------------------------------------------
(* The file is that of some case and only tried as one of the formats; what  *)
(* is read of it has the fields of the format.                               *)
FieldsAreTyped ==
  /\ \E c \in Cases : file = Write(c.archive)
  /\ formats \in Seq(Formats)
  /\ entries \in Seq(Entry)

(* The ranges accepted are those of the entry at hand.                       *)
AtStart == i = 1 /\ ranges = <<>>
AtEncrypted == AtEntry /\ entry.encrypted
RangesAreTaken ==
  /\ ranges \in Seq(StoredRange)
  /\ AtEncrypted => Packs(entry, i, ranges)
  /\ status \in {"parsing", "storing"} /\ ~AtEncrypted => AtStart

(* The cells of an entry are in the store and describe it.                   *)
Described(j) ==
  entries[j].encrypted =>
    /\ HeaderAt(j).count \in Nat
    /\ M32 - ids[j] + HeaderAt(j).count <= Len(out)
    /\ AllInFile(entries[j], NonemptyOf(entries[j])) => Describes(RangesAt(j), entries[j])
StoreDescribes == \A j \in 1..Len(ids) : Described(j)

RangesInv == FieldsAreTyped /\ RangesAreTaken /\ StoreDescribes

LEMMA RangesInvImplies ==
  ASSUME RangesInv
  PROVE  StoredRangesAreTheEntrys
<1> SUFFICES ASSUME NEW j \in 1..Len(ids), entries[j].encrypted,
                    \A n \in Nonempty(j) : InFile(j, entries[j].ranges[n])
             PROVE  Describes(RangesAt(j), entries[j])
  BY DEF StoredRangesAreTheEntrys, Describes, NonemptyOf, Nonempty
<1>1. Described(j)
  BY DEF RangesInv, StoreDescribes
<1>2. AllInFile(entries[j], NonemptyOf(entries[j]))
  BY DEF AllInFile, NonemptyOf, Nonempty, InFile
<1> QED
  BY <1>1, <1>2 DEF Described

LEMMA RangesInit == Init => RangesInv
<1> SUFFICES ASSUME Init PROVE RangesInv
  OBVIOUS
<1>1. /\ \E c \in Cases : file = Write(c.archive)
      /\ formats = <<>> /\ entries = <<>> /\ status = "parsing"
      /\ i = 1 /\ ranges = <<>> /\ ids = <<>>
  BY DEF Init, StoreInit
<1>2. FieldsAreTyped
  BY <1>1 DEF FieldsAreTyped
<1>3. RangesAreTaken
  BY <1>1 DEF RangesAreTaken, AtStart, AtEncrypted, AtEntry
<1>4. StoreDescribes
  BY <1>1 DEF StoreDescribes
<1> QED
  BY <1>2, <1>3, <1>4 DEF RangesInv

(* The first range of an entry is looked at with nothing accepted.           *)
LEMMA EntryStarts ==
  ASSUME AtStart', FieldsAreTyped', k' \in Nat \ {0}
  PROVE  RangesAreTaken'
<1>1. ranges' = <<>> /\ i' = 1 /\ entries' \in Seq(Entry)
  BY DEF AtStart, FieldsAreTyped
<1>2. ASSUME AtEncrypted' PROVE Packs(entry, i, ranges)'
  <2>1. k' \in 1..Len(entries')
    BY <1>1, <1>2 DEF AtEncrypted, AtEntry
  <2>2. entries'[k'] \in Entry
    BY <1>1, <2>1
  <2>3. Packs(entries'[k'], 1, <<>>)
    BY <2>2, PackNothing
  <2> QED
    BY <1>1, <2>3 DEF entry, Packs, Taken, NonemptyOf, AllInFile, AsStored
<1>3. ranges' \in Seq(StoredRange)
  BY <1>1
<1> QED
  BY <1>2, <1>3 DEF RangesAreTaken, AtStart

(* Cells that were written stay as they are, and with them what they         *)
(* describe.                                                                 *)
LEMMA DescribedStays ==
  ASSUME IdsInv, NEW j \in 1..Len(ids), Described(j), entries' = entries,
         ids'[j] = ids[j], Len(out') \in Nat, Len(out) <= Len(out'),
         \A n \in 1..Len(out) : out'[n] = out[n]
  PROVE  Described(j)'
<1> SUFFICES ASSUME entries[j].encrypted
             PROVE  /\ HeaderAt(j)'.count \in Nat
                    /\ M32 - ids[j] + HeaderAt(j)'.count <= Len(out')
                    /\ AllInFile(entries[j], NonemptyOf(entries[j])) =>
                         Describes(RangesAt(j)', entries[j])
  BY DEF Described, AllInFile, NonemptyOf, Describes, EndOffset, AsStored
<1> DEFINE at == M32 - ids[j]
<1>1. at \in 1..Len(out) /\ ids[j] \in Int /\ M32 \in Int /\ Len(out) \in Nat
  BY UintsAssumption DEF IdsInv, IdsPointIntoStore, PointsToHeader, IsSeq
<1>2. IndexOf(ids[j]) + 1 = at /\ IndexOf(ids'[j]) + 1 = at
  BY <1>1 DEF IndexOf
<1>3. HeaderAt(j) = out[at] /\ HeaderAt(j)' = out'[at]
  BY <1>2 DEF HeaderAt
<1>4. HeaderAt(j)' = HeaderAt(j)
  BY <1>1, <1>3
<1>5. HeaderAt(j).count \in Nat /\ at + HeaderAt(j).count <= Len(out)
  BY DEF Described
<1>6. /\ RangesAt(j) = [n \in 1..HeaderAt(j).count |-> out[at + n]]
      /\ RangesAt(j)' = [n \in 1..HeaderAt(j).count |-> out'[at + n]]
  BY <1>2, <1>4 DEF RangesAt
<1> HIDE DEF at
<1>7. ASSUME NEW n \in 1..HeaderAt(j).count
      PROVE  out'[at + n] = out[at + n]
  <2> DEFINE c == HeaderAt(j).count
  <2>1. n \in 1..c /\ c \in Nat /\ at + c <= Len(out)
    BY <1>5
  <2> HIDE DEF c
  <2>2. at + n \in 1..Len(out)
    BY <1>1, <2>1
  <2> QED
    BY <2>2
<1>8. RangesAt(j)' = RangesAt(j)
  BY <1>6, <1>7
<1>9. AllInFile(entries[j], NonemptyOf(entries[j])) => Describes(RangesAt(j), entries[j])
  BY DEF Described
<1> QED
  BY <1>1, <1>4, <1>5, <1>8, <1>9 DEF at

(* A step that leaves the store, its ids and the entries alone.              *)
LEMMA StoreUntouched ==
  ASSUME IdsInv, RangesInv, UNCHANGED <<entries, out, ids>>
  PROVE  StoreDescribes'
<1>1. Len(out) \in Nat
  BY DEF IdsInv, IsSeq
<1>2. ASSUME NEW j \in 1..Len(ids) PROVE Described(j)'
  <2>1. Described(j)
    BY DEF RangesInv, StoreDescribes
  <2> QED
    BY <1>1, <2>1, DescribedStays
<1> QED
  BY <1>2 DEF StoreDescribes

(* A step of process_files keeps the fields of the entries.                  *)
LEMMA FieldsUntouched ==
  ASSUME RangesInv, UNCHANGED <<file, formats, entries>>
  PROVE  FieldsAreTyped'
BY DEF RangesInv, FieldsAreTyped

(* What the entry at hand is.                                                *)
LEMMA EntryIsTyped ==
  ASSUME IdsInv, RangesInv, AtEncrypted
  PROVE  /\ entry \in Entry /\ Packs(entry, i, ranges)
         /\ ranges \in Seq(StoredRange) /\ status = "storing"
         /\ i \in Nat \ {0}
<1>1. entries \in Seq(Entry) /\ k \in Nat \ {0} /\ k <= Len(entries)
  BY DEF IdsInv, IdsAreOfEntriesDone, RangesInv, FieldsAreTyped, AtEncrypted, AtEntry
<1>2. entry \in Entry
  BY <1>1 DEF entry
<1>3. Packs(entry, i, ranges) /\ ranges \in Seq(StoredRange) /\ status = "storing"
  BY DEF RangesInv, RangesAreTaken, AtEncrypted, AtEntry
<1>4. i \in 1..Len(entry.ranges) + 1 /\ Len(entry.ranges) \in Nat
  BY <1>2, <1>3, RangeTypes DEF Packs
<1> QED
  BY <1>2, <1>3, <1>4

(* Parsing keeps the formats among those there are, and gives entries with   *)
(* the fields of the format.                                                 *)
LEMMA ParsingKeepsRanges ==
  ASSUME IdsInv, IdsInv', RangesInv,
         HeaderRead \/ HeaderRefused \/ FormatRefused \/ FormatRead
  PROVE  RangesInv'
<1>1. /\ UNCHANGED <<file, k, i, ranges, out, ids>>
      /\ status = "parsing" /\ ids = <<>>
  BY DEF HeaderRead, HeaderRefused, FormatRefused, FormatRead, KeepStore, Parsing,
         inputs, IdsInv, IdsAreOfEntriesDone
<1>2. FieldsAreTyped
  BY DEF RangesInv
<1>3. StoreDescribes'
  BY <1>1 DEF StoreDescribes
<1>4. AtStart'
  BY <1>1 DEF RangesInv, RangesAreTaken, AtEncrypted, AtEntry, AtStart
<1>5. FieldsAreTyped'
  <2>1. CASE HeaderRead
    <3>1. FormatsOf(file) \in Seq(Formats)
      <4>1. /\ "DarkSouls" \in Formats /\ "DarkSoulsRemastered" \in Formats
            /\ "DarkSouls2" \in Formats /\ "DarkSouls3" \in Formats
            /\ "EldenRing" \in Formats
        BY DEF Formats
      <4>2. /\ <<"DarkSouls3", "DarkSouls2", "EldenRing">> \in Seq(Formats)
            /\ <<"DarkSoulsRemastered">> \in Seq(Formats)
            /\ <<"DarkSouls">> \in Seq(Formats)
        BY <4>1
      <4> QED
        BY <4>2 DEF FormatsOf
    <3> QED
      BY <1>1, <1>2, <2>1, <3>1 DEF HeaderRead, KeepStore, FieldsAreTyped
  <2>2. CASE HeaderRefused
    <3>1. formats' = <<>>
      BY <2>2 DEF HeaderRefused, NextOrder
    <3> QED
      BY <1>1, <1>2, <2>2, <3>1 DEF HeaderRefused, KeepStore, FieldsAreTyped
  <2>3. CASE FormatRefused
    <3>1. formats' = <<>> \/ formats' = Tail(formats)
      <4>1. CASE Tail(formats) = <<>>
        BY <2>3, <4>1 DEF FormatRefused, NextOrder
      <4>2. CASE Tail(formats) # <<>>
        BY <2>3, <4>2 DEF FormatRefused
      <4> QED
        BY <4>1, <4>2
    <3>2. formats \in Seq(Formats) /\ formats # <<>>
      BY <1>2, <2>3 DEF FieldsAreTyped, FormatRefused
    <3>3. <<>> \in Seq(Formats) /\ Tail(formats) \in Seq(Formats)
      BY <3>2, HeadTailProperties
    <3>4. formats' \in Seq(Formats)
      BY <3>1, <3>3
    <3> QED
      BY <1>1, <1>2, <2>3, <3>4 DEF FormatRefused, KeepStore, FieldsAreTyped
  <2>4. CASE FormatRead
    <3>1. /\ CanRef(file, Head(formats)) /\ entries' = EntriesAs(file, Head(formats))
          /\ UNCHANGED formats /\ formats # <<>>
      BY <2>4 DEF FormatRead
    <3>2. Head(formats) \in Formats
      BY <1>2, <3>1 DEF FieldsAreTyped
    <3>3. PICK c \in Cases : file = Write(c.archive)
      BY <1>2 DEF FieldsAreTyped
    <3>4. entries' \in Seq(Entry)
      <4>1. IsArchive(c.archive)
        BY ProcessBhdAssumption
      <4>2. file.words \in Seq(W32) /\ Len(file.words) >= 8
        BY <3>3, <4>1, WordsOfWrite
      <4> QED
        BY <3>1, <3>2, <4>2, EntriesAreTyped
    <3> QED
      BY <1>1, <1>2, <3>1, <3>4 DEF FieldsAreTyped
  <2> QED
    BY <2>1, <2>2, <2>3, <2>4
<1>6. k' \in Nat \ {0}
  BY DEF IdsInv, IdsAreOfEntriesDone
<1>7. RangesAreTaken'
  BY <1>4, <1>5, <1>6, EntryStarts
<1> QED
  BY <1>3, <1>5, <1>7 DEF RangesInv

(* A range passed over or accepted.                                          *)
LEMMA CheckingKeepsRanges ==
  ASSUME IdsInv, RangesInv, UNCHANGED <<file, formats>>,
         SkipEmpty \/ AcceptRange
  PROVE  RangesInv'
<1>1. /\ AtEncrypted /\ i <= Len(entry.ranges) /\ i' = i + 1
      /\ UNCHANGED <<entries, k, out, ids, status>>
  BY DEF SkipEmpty, AcceptRange, AtRange, AtEncrypted
<1>2. /\ entry \in Entry /\ Packs(entry, i, ranges)
      /\ ranges \in Seq(StoredRange) /\ i \in Nat \ {0}
  BY <1>1, EntryIsTyped
<1>3. i \in 1..Len(entry.ranges) /\ entry' = entry /\ AtEncrypted'
  BY <1>1, <1>2, RangeTypes DEF entry, AtEncrypted, AtEntry
<1>4. /\ entry.ranges[i].start \in 0..M64 - 1
      /\ entry.ranges[i].end \in 0..M64 - 1
  BY <1>2, <1>3, RangeTypes
<1>5. len = 0 <=> entry.ranges[i].start = entry.ranges[i].end
  BY <1>4, Widths, DiffMod DEF len, range
<1>6. ranges' \in Seq(StoredRange) /\ Packs(entry, i + 1, ranges')
  <2>1. CASE SkipEmpty
    BY <1>2, <1>3, <1>5, <2>1, PackSkip DEF SkipEmpty
  <2>2. CASE AcceptRange
    <3>1. /\ entry.ranges[i].start # entry.ranges[i].end
          /\ entry.ranges[i].start <= entry.ranges[i].end
          /\ ranges' = Append(ranges, Packed(entry.ranges[i]))
      BY <1>5, <2>2 DEF AcceptRange, Packed, len, range
    <3> QED
      BY <1>2, <1>3, <3>1, PackOne
  <2> QED
    BY <2>1, <2>2
<1>7. Packs(entry, i, ranges)'
  BY <1>1, <1>3, <1>6 DEF Packs, Taken, NonemptyOf, AllInFile, AsStored
<1>8. RangesAreTaken'
  BY <1>3, <1>6, <1>7 DEF RangesAreTaken
<1>9. StoreDescribes' /\ FieldsAreTyped'
  BY <1>1, StoreUntouched, FieldsUntouched
<1> QED
  BY <1>8, <1>9 DEF RangesInv

(* What the store gains leaves the entries stored before as they are.        *)
LEMMA OthersStay ==
  ASSUME IdsInv, IdsInv', RangesInv, entries' = entries, k' = k + 1,
         \A n \in 1..Len(ids) : ids'[n] = ids[n],
         Len(out) <= Len(out'), \A n \in 1..Len(out) : out'[n] = out[n],
         NEW last, last = k, Described(last)'
  PROVE  StoreDescribes'
<1>1. /\ k \in Nat \ {0} /\ Len(ids) = k - 1 /\ Len(ids') = k
      /\ Len(out') \in Nat
  BY DEF IdsInv, IdsAreOfEntriesDone, IsSeq
<1>2. ASSUME NEW j \in 1..Len(ids') PROVE Described(j)'
  <2>1. CASE j = last
    BY <2>1
  <2>2. CASE j # last
    <3>1. j \in 1..Len(ids)
      BY <1>1, <2>2
    <3>2. Described(j)
      BY <3>1 DEF RangesInv, StoreDescribes
    <3> QED
      BY <1>1, <3>1, <3>2, DescribedStays
  <2> QED
    BY <2>1, <2>2
<1> QED
  BY <1>2 DEF StoreDescribes

(* The entry stored last is described by what was sorted into the store      *)
(* behind its header.                                                        *)
LEMMA StoreKeepsRanges ==
  ASSUME IdsInv, IdsInv', RangesInv, UNCHANGED <<file, formats>>, Store
  PROVE  RangesInv'
<1> DEFINE cell == [header |-> k, count |-> Len(ranges)]
           id == IdOf(Len(out))
<1>0. PICK last : last = k
  OBVIOUS
<1>1. /\ AtEncrypted /\ i > Len(entry.ranges) /\ Len(out) < M32 - 1
      /\ UNCHANGED <<entries, status>> /\ k' = k + 1 /\ i' = 1 /\ ranges' = <<>>
      /\ ids' = Append(ids, id) /\ out' = Append(out, cell) \o Sorted(ranges)
  BY DEF Store, AllAccepted, FitsStore, AtEncrypted
<1>2. /\ entry \in Entry /\ Packs(entry, i, ranges)
      /\ ranges \in Seq(StoredRange) /\ i \in Nat \ {0}
  BY <1>1, EntryIsTyped
<1>3. Packs(entry, Len(entry.ranges) + 1, ranges)
  <2>1. i \in 1..Len(entry.ranges) + 1 /\ Len(entry.ranges) \in Nat
    BY <1>2, RangeTypes DEF Packs
  <2>2. i = Len(entry.ranges) + 1
    BY <1>1, <2>1
  <2> QED
    BY <1>2, <2>2
<1>5. /\ Sorted(ranges) \in Seq(StoredRange) /\ Len(Sorted(ranges)) = Len(ranges)
      /\ IsSeq(Sorted(ranges))
  BY <1>2, SortedIsByEnds, SeqIsSeq
<1>7. /\ Len(ids') = Len(ids) + 1 /\ ids'[Len(ids) + 1] = id
      /\ \A n \in 1..Len(ids) : ids'[n] = ids[n]
  BY <1>1, AppendKeeps DEF IdsInv
<1>8. /\ Len(out) \in Nat /\ Len(ranges) \in Nat /\ M32 \in Nat
      /\ k \in Nat \ {0} /\ Len(ids) = k - 1
  BY <1>2, UintsAssumption DEF IdsInv, IdsAreOfEntriesDone, IsSeq
<1>9. /\ \A n \in 1..Len(out) : out'[n] = out[n]
      /\ out'[Len(out) + 1] = cell
      /\ \A n \in 1..Len(ranges) : out'[Len(out) + 1 + n] = Sorted(ranges)[n]
      /\ Len(out') = Len(out) + 1 + Len(ranges)
  <2> DEFINE gained == Sorted(ranges)
  <2>1. IsSeq(out) /\ IsSeq(gained)
    BY <1>5 DEF IdsInv
  <2>2. out' = Append(out, cell) \o gained
    BY <1>1
  <2> HIDE DEF gained, cell
  <2>3. /\ \A n \in 1..Len(out) : out'[n] = out[n]
        /\ out'[Len(out) + 1] = cell
        /\ \A n \in 1..Len(gained) : out'[Len(out) + 1 + n] = gained[n]
        /\ Len(out') = Len(out) + 1 + Len(gained)
    <3> DEFINE more == Append(out, cell) \o gained
    <3>1. /\ \A n \in 1..Len(out) : more[n] = out[n]
          /\ more[Len(out) + 1] = cell
          /\ \A n \in 1..Len(gained) : more[Len(out) + 1 + n] = gained[n]
          /\ Len(more) = Len(out) + 1 + Len(gained)
      BY <2>1, StoreGains
    <3> QED
      BY <2>2, <3>1
  <2> QED
    BY <1>5, <2>3 DEF gained
<1>10. /\ ids'[last] = id /\ id = M32 - 1 - Len(out)
       /\ IndexOf(ids'[last]) = Len(out) /\ M32 - ids'[last] = Len(out) + 1
  BY <1>0, <1>7, <1>8 DEF IdOf, IndexOf
<1>11. HeaderAt(last)'.count = Len(ranges)
  <2>1. out'[IndexOf(ids'[last]) + 1] = cell
    BY <1>9, <1>10
  <2>2. HeaderAt(last)' = cell
    BY <2>1 DEF HeaderAt
  <2> QED
    BY <2>2
<1>12. RangesAt(last)' = Sorted(ranges)
  <2> DEFINE t == Sorted(ranges)
  <2>1. RangesAt(last)' = [n \in 1..Len(ranges) |-> out'[Len(out) + 1 + n]]
    BY <1>10, <1>11 DEF RangesAt
  <2>2. t = [n \in 1..Len(ranges) |-> t[n]]
    BY <1>5 DEF IsSeq
  <2>3. \A n \in 1..Len(ranges) : out'[Len(out) + 1 + n] = t[n]
    BY <1>9
  <2> HIDE DEF t
  <2>4. RangesAt(last)' = t
    BY <2>1, <2>2, <2>3
  <2> QED
    BY <2>4 DEF t
<1>13. AllInFile(entry, NonemptyOf(entry)) => Describes(Sorted(ranges), entry)
  BY <1>2, <1>3, PackedDescribes
<1>14. /\ HeaderAt(last)'.count \in Nat
       /\ M32 - ids'[last] + HeaderAt(last)'.count <= Len(out')
  BY <1>8, <1>9, <1>10, <1>11
<1>15. entry = entries'[last]
  BY <1>0, <1>1 DEF entry
<1>16. Described(last)'
  <2>1. AllInFile(entries'[last], NonemptyOf(entries'[last]))
          => Describes(RangesAt(last)', entries'[last])
    BY <1>12, <1>13, <1>15
  <2> QED
    BY <1>14, <2>1 DEF Described, AllInFile, NonemptyOf, Describes, EndOffset, AsStored
<1>17. StoreDescribes'
  BY <1>0, <1>1, <1>7, <1>8, <1>9, <1>16, OthersStay
<1>18. FieldsAreTyped' /\ AtStart' /\ k' \in Nat \ {0}
  BY <1>1, <1>8, FieldsUntouched DEF AtStart
<1> QED
  BY <1>17, <1>18, EntryStarts DEF RangesInv

(* Every step keeps the invariant.                                           *)
LEMMA RangesNext ==
  ASSUME IdsInv, IdsInv', RangesInv, [Next]_vars
  PROVE  RangesInv'
<1>1. CASE HeaderRead \/ HeaderRefused \/ FormatRefused \/ FormatRead
  BY <1>1, ParsingKeepsRanges
<1>2. CASE Checked /\ (SkipEmpty \/ AcceptRange)
  BY <1>2, CheckingKeepsRanges DEF Checked, inputs, parseVars
<1>3. CASE EntryDone /\ Store
  BY <1>3, StoreKeepsRanges DEF EntryDone, inputs, parseVars
<1>4. CASE EntryDone /\ NotEncrypted
  <2>1. /\ UNCHANGED <<file, formats, entries, i, ranges, out>>
        /\ status = "storing" /\ ~AtEncrypted /\ ~entries[k].encrypted
        /\ k' = k + 1 /\ ids' = Append(ids, NoId)
    BY <1>4 DEF EntryDone, NotEncrypted, inputs, parseVars, AtEntry, AtEncrypted, entry
  <2>2. FieldsAreTyped' /\ AtStart' /\ k' \in Nat \ {0}
    <3>1. FieldsAreTyped'
      BY <2>1, FieldsUntouched
    <3>2. AtStart'
      BY <2>1 DEF RangesInv, RangesAreTaken, AtStart
    <3> QED
      BY <3>1, <3>2 DEF IdsInv, IdsAreOfEntriesDone
  <2>3. RangesAreTaken'
    BY <2>2, EntryStarts
  <2> PICK last : last = k
    OBVIOUS
  <2>4. Described(last)'
    BY <2>1 DEF Described
  <2>5. Len(out) \in Nat /\ \A n \in 1..Len(ids) : ids'[n] = ids[n]
    BY <2>1, AppendKeeps DEF IdsInv, IsSeq
  <2>6. StoreDescribes'
    BY <2>1, <2>4, <2>5, OthersStay
  <2> QED
    BY <2>2, <2>3, <2>6 DEF RangesInv
<1>5. CASE \/ Checked /\ (BadRange \/ OobRange \/ TooManyRanges)
           \/ Processed
  <2>1. /\ UNCHANGED <<file, formats, entries, out, ids, ranges>>
        /\ status' \notin {"parsing", "storing"}
    BY <1>5 DEF Checked, Processed, BadRange, OobRange, TooManyRanges, AllStored,
                inputs, parseVars
  <2>2. FieldsAreTyped' /\ StoreDescribes'
    BY <2>1, FieldsUntouched, StoreUntouched
  <2>3. RangesAreTaken'
    BY <2>1 DEF RangesInv, RangesAreTaken, AtEncrypted, AtEntry
  <2> QED
    BY <2>2, <2>3 DEF RangesInv
<1>6. CASE UNCHANGED vars
  <2>1. UNCHANGED <<file, formats, entries, k, i, ranges, out, ids, status>>
    BY <1>6 DEF vars, inputs, parseVars, storeVars
  <2>2. FieldsAreTyped' /\ StoreDescribes'
    BY <2>1, FieldsUntouched, StoreUntouched
  <2>3. RangesAreTaken'
    BY <2>1 DEF RangesInv, RangesAreTaken, AtEncrypted, AtEntry, entry, AtStart,
                Packs, Taken, NonemptyOf, AllInFile, AsStored
  <2> QED
    BY <2>2, <2>3 DEF RangesInv
<1> QED
  BY <1>1, <1>2, <1>3, <1>4, <1>5, <1>6 DEF Next, Checked, EntryDone, Ended

(* However wide its offsets were in the header, an encrypted entry whose     *)
(* ranges fit its file has exactly its nonempty ranges in the store, in the  *)
(* order of their ends, until the archive is processed and after             *)
(* (encryption.rs:229-272, 382).                                             *)
THEOREM StoredRangesAreAlwaysTheEntrys == Spec => []StoredRangesAreTheEntrys
<1>1. RangesInv => StoredRangesAreTheEntrys
  BY RangesInvImplies
<1>2. IdsInv /\ IdsInv' /\ RangesInv /\ [Next]_vars => RangesInv'
  BY RangesNext
<1> QED
  BY <1>1, <1>2, IdsInit, IdsNext, RangesInit, PTL DEF Spec

-----------------------------------------------------------------------------
(* The formats left to try lead to what an archive was written as, if it can *)
(* be told apart.                                                            *)
Told(a) ==
  CASE a.format = "DarkSouls" -> a.buckets[1] # <<>>
    [] a.format = "DarkSouls2" -> \A e \in Range(Written(a)) : e.size # 0
    [] a.format = "EldenRing" -> FarFile(a)
    [] OTHER -> TRUE

Leads(a, fs) ==
  \/ fs = <<"DarkSouls3", "DarkSouls2", "EldenRing">> /\ IsSalted(a.format)
  \/ fs = <<"DarkSouls2", "EldenRing">> /\ a.format \in {"DarkSouls2", "EldenRing"}
  \/ fs = <<"EldenRing">> /\ a.format = "EldenRing"
  \/ fs = <<a.format>> /\ ~IsSalted(a.format)

LEMMA ToldIs ==
  ASSUME NEW a, IsArchive(a), Told(a)
  PROVE  /\ a.format = "DarkSouls" => a.buckets[1] # <<>>
         /\ a.format = "DarkSouls2" => \A e \in 1..Count(a) : Written(a)[e].size # 0
         /\ a.format = "EldenRing" => FarFile(a)
<1>1. DOMAIN Written(a) = 1..Count(a)
  BY WrittenIs
<1>2. a.format = "DarkSouls2" => \A e \in Range(Written(a)) : e.size # 0
  BY DEF Told
<1>3. a.format = "DarkSouls2" => \A e \in 1..Count(a) : Written(a)[e].size # 0
  BY <1>1, <1>2 DEF Range
<1>4. a.format = "DarkSouls" => a.buckets[1] # <<>>
  BY DEF Told
<1>5. a.format = "EldenRing" => FarFile(a)
  BY DEF Told
<1> QED
  BY <1>3, <1>4, <1>5

LEMMA HeaderLeads ==
  ASSUME NEW a, IsArchive(a), Told(a), NEW f, Layout(a, f)
  PROVE  Leads(a, FormatsOf(f))
<1>1. FormatsOf(f) = IF IsSalted(a.format) THEN <<"DarkSouls3", "DarkSouls2", "EldenRing">>
                     ELSE <<a.format>>
  BY ToldIs, FormatsAre
<1> QED
  BY <1>1 DEF Leads

LEMMA FormatLeads ==
  ASSUME NEW a, IsArchive(a), Told(a), NEW f, Layout(a, f), NEW fs, Leads(a, fs)
  PROVE  /\ fs # <<>>
         /\ CanRef(f, Head(fs)) => /\ EntriesAs(f, Head(fs)) = Written(a)
                                   /\ Recognised(a, Head(fs)) /\ Head(fs) \in Formats
         /\ ~CanRef(f, Head(fs)) => Tail(fs) # <<>> /\ Leads(a, Tail(fs))
<1>1. CanRef(f, a.format) /\ EntriesAs(f, a.format) = Written(a) /\ a.format \in Formats
  BY RoundTrip, ArchiveIs
<1>2. a.format = "DarkSouls2" /\ CanRef(f, "DarkSouls3") =>
        EntriesAs(f, "DarkSouls3") = Written(a) /\ Len(Written(a)) < 2
  <2> SUFFICES ASSUME a.format = "DarkSouls2", CanRef(f, "DarkSouls3")
               PROVE  EntriesAs(f, "DarkSouls3") = Written(a) /\ Len(Written(a)) < 2
    OBVIOUS
  <2>1. \A e \in 1..Count(a) : Written(a)[e].size # 0
    BY ToldIs
  <2>2. EntriesAs(f, "DarkSouls3") = Written(a)
    BY <2>1, DarkSouls2AsDarkSouls3
  <2>3. ~(Count(a) >= 2)
    BY <2>1, SizesAreNotPadding
  <2>4. Count(a) \in Nat
    BY WrittenIs
  <2> QED
    BY <2>2, <2>3, <2>4 DEF Count
<1>3. a.format = "EldenRing" => ~CanRef(f, "DarkSouls3") /\ ~CanRef(f, "DarkSouls2")
  <2> SUFFICES ASSUME a.format = "EldenRing"
               PROVE  ~CanRef(f, "DarkSouls3") /\ ~CanRef(f, "DarkSouls2")
    OBVIOUS
  <2>1. \A g \in {"DarkSouls3", "DarkSouls2"} : ~CanRef(f, g)
    BY ToldIs, EldenRingAsOther
  <2> QED
    BY <2>1
<1>4. CASE fs = <<"DarkSouls3", "DarkSouls2", "EldenRing">> /\ IsSalted(a.format)
  <2>1. Head(fs) = "DarkSouls3" /\ Tail(fs) = <<"DarkSouls2", "EldenRing">> /\ fs # <<>>
        /\ Tail(fs) # <<>>
    BY <1>4
  <2>2. a.format \in {"DarkSouls3", "DarkSouls2", "EldenRing"}
    BY <1>4 DEF IsSalted
  <2> QED
    BY <1>1, <1>2, <1>3, <2>1, <2>2 DEF Leads, Recognised, Formats
<1>5. CASE fs = <<"DarkSouls2", "EldenRing">> /\ a.format \in {"DarkSouls2", "EldenRing"}
  <2>1. Head(fs) = "DarkSouls2" /\ Tail(fs) = <<"EldenRing">> /\ fs # <<>> /\ Tail(fs) # <<>>
    BY <1>5
  <2> QED
    BY <1>1, <1>3, <1>5, <2>1 DEF Leads, Recognised, Formats
<1>6. CASE fs = <<a.format>>
  <2>1. Head(fs) = a.format /\ fs # <<>>
    BY <1>6
  <2> QED
    BY <1>1, <2>1 DEF Recognised
<1> QED
  BY <1>4, <1>5, <1>6 DEF Leads

(* The header that is read is the archive's, and while it is parsed the      *)
(* formats left lead to what it was written as; then it is what was written. *)
InputsAre == IsArchive(written) /\ file = Write(written) /\ dir \in Seq(TextFile)

Leading ==
  IF Parsing
  THEN /\ format = NoFormat
       /\ IF formats = <<>> THEN order \in {"LE", written.order} ELSE Leads(written, formats)
  ELSE /\ status # "BadHeader" /\ entries = Written(written)
       /\ Recognised(written, format) /\ format \in Formats

ParseInv == InputsAre /\ (Distinguishable => Leading)

LEMMA DistinguishableIs == Distinguishable <=> Told(written)
BY DEF Distinguishable, Told, FarFile

LEMMA ParseInit == Init => ParseInv
<1> SUFFICES ASSUME Init PROVE ParseInv
  OBVIOUS
<1>1. PICK c \in Cases : written = c.archive /\ dir = c.dir
  BY DEF Init
<1>2. InputsAre
  BY <1>1, ProcessBhdAssumption DEF Init, InputsAre
<1>3. Leading
  BY DEF Init, Leading, Parsing
<1> QED
  BY <1>2, <1>3 DEF ParseInv

(* Steps that are not of the parser.                                         *)
StoreStep ==
  /\ UNCHANGED <<inputs, parseVars, entries>>
  /\ status = "storing" /\ status' \in {"storing", "stored", "BadRange", "OobRange", "TooManyRanges"}

LEMMA Steps ==
  ASSUME [Next]_vars
  PROVE  \/ HeaderRead \/ HeaderRefused \/ FormatRefused \/ FormatRead
         \/ StoreStep \/ UNCHANGED vars
<1>1. Checked => StoreStep
  <2>1. Checked => UNCHANGED <<inputs, parseVars, entries>>
    BY DEF Checked, SkipEmpty, AcceptRange, BadRange, OobRange, TooManyRanges
  <2>2. Checked => status = "storing" /\ status' \in {"storing", "BadRange", "OobRange", "TooManyRanges"}
    BY DEF Checked, SkipEmpty, AcceptRange, BadRange, OobRange, TooManyRanges, AtRange, AtEntry, AllAccepted
  <2> QED
    BY <2>1, <2>2 DEF StoreStep
<1>2. EntryDone => StoreStep
  BY DEF EntryDone, NotEncrypted, Store, AtEntry, AllAccepted, StoreStep
<1>3. Processed => StoreStep
  BY DEF Processed, AllStored, StoreStep
<1> QED
  BY <1>1, <1>2, <1>3 DEF Next, Ended

LEMMA ParseNext ==
  ASSUME ParseInv, [Next]_vars
  PROVE  ParseInv'
<1> DEFINE a == written
           f == file
<1>1. UNCHANGED inputs
  BY Steps DEF HeaderRead, HeaderRefused, FormatRefused, FormatRead, StoreStep, vars
<1>2. written' = written /\ file' = file /\ dir' = dir
  BY <1>1 DEF inputs
<1>3. InputsAre' /\ IsArchive(a) /\ Layout(a, f)
  <2>1. InputsAre
    BY DEF ParseInv
  <2>2. IsArchive(a) /\ Layout(a, f)
    BY <2>1, WriteIsLaidOut DEF InputsAre
  <2> QED
    BY <1>2, <2>1, <2>2 DEF InputsAre
<1>4. Distinguishable' <=> Distinguishable
  BY <1>2 DEF Distinguishable
<1>5. SUFFICES ASSUME Distinguishable, Leading PROVE Leading'
  BY <1>3, <1>4 DEF ParseInv
<1>6. Told(a)
  BY <1>5, DistinguishableIs
<1>7. \A o \in {"LE", "BE"} : IsHeader(f, o) <=> o = a.order
  BY <1>3, HeaderIsRead
<1>8. a.order \in {"LE", "BE"}
  BY <1>3, ArchiveIs
<1>9. CASE HeaderRead
  <2>1. Leads(a, FormatsOf(f))
    BY <1>3, <1>6, HeaderLeads
  <2>2. FormatsOf(f) # <<>>
    BY <1>3, <1>6, <2>1, FormatLeads
  <2>3. formats' = FormatsOf(f) /\ UNCHANGED <<format, status>> /\ Parsing
    BY <1>9 DEF HeaderRead
  <2>4. format = NoFormat
    BY <1>5, <2>3 DEF Leading
  <2> QED
    BY <1>2, <2>1, <2>2, <2>3, <2>4 DEF Leading, Parsing
<1>10. CASE HeaderRefused
  <2>1. /\ Parsing /\ formats = <<>> /\ ~IsHeader(f, order) /\ NextOrder /\ UNCHANGED format
    BY <1>10 DEF HeaderRefused
  <2>2. format = NoFormat /\ order \in {"LE", a.order}
    BY <1>5, <2>1 DEF Leading
  <2>3. order \in {"LE", "BE"} /\ order # a.order
    BY <1>7, <1>8, <2>1, <2>2
  <2>4. order = "LE" /\ a.order = "BE"
    BY <1>8, <2>2, <2>3
  <2>5. order' = "BE" /\ status' = status /\ formats' = <<>>
    BY <2>1, <2>4 DEF NextOrder
  <2> QED
    BY <1>2, <2>1, <2>2, <2>4, <2>5 DEF Leading, Parsing
<1>11. CASE FormatRefused
  <2>1. /\ Parsing /\ formats # <<>> /\ ~CanRef(f, Head(formats)) /\ UNCHANGED format
    BY <1>11 DEF FormatRefused
  <2>2. format = NoFormat /\ Leads(a, formats)
    BY <1>5, <2>1 DEF Leading
  <2>3. Tail(formats) # <<>> /\ Leads(a, Tail(formats))
    BY <1>3, <1>6, <2>1, <2>2, FormatLeads
  <2>4. formats' = Tail(formats) /\ UNCHANGED status
    BY <1>11, <2>3 DEF FormatRefused
  <2> QED
    BY <1>2, <2>1, <2>2, <2>3, <2>4 DEF Leading, Parsing
<1>12. CASE FormatRead
  <2>1. /\ Parsing /\ formats # <<>> /\ CanRef(f, Head(formats)) /\ format' = Head(formats)
        /\ entries' = EntriesAs(f, Head(formats)) /\ status' = "storing"
    BY <1>12 DEF FormatRead
  <2>2. Leads(a, formats)
    BY <1>5, <2>1 DEF Leading
  <2>3. /\ EntriesAs(f, Head(formats)) = Written(a)
        /\ Recognised(a, Head(formats)) /\ Head(formats) \in Formats
    BY <1>3, <1>6, <2>1, <2>2, FormatLeads
  <2> QED
    BY <1>2, <2>1, <2>3 DEF Leading, Parsing
<1>13. CASE StoreStep
  <2>1. /\ UNCHANGED <<format, entries>> /\ ~Parsing
        /\ status' \in {"storing", "stored", "BadRange", "OobRange", "TooManyRanges"}
    BY <1>13 DEF StoreStep, parseVars, Parsing
  <2> QED
    BY <1>2, <1>5, <2>1 DEF Leading, Parsing
<1>14. CASE UNCHANGED vars
  BY <1>2, <1>5, <1>14 DEF Leading, Parsing, vars, parseVars, storeVars
<1> QED
  BY <1>9, <1>10, <1>11, <1>12, <1>13, <1>14, Steps

-----------------------------------------------------------------------------
(* The files are those of the entries done, each with its id.                *)
FilesInv ==
  /\ IsSeq(files) /\ Len(files) = Len(ids)
  /\ Len(files) <= Len(entries)
  /\ status = "stored" => Len(files) = Len(entries)
  /\ \A j \in 1..Len(files) : files[j] = DvdbndFile(entries[j], ids[j])

LEMMA FilesInit == Init => FilesInv
BY DEF Init, StoreInit, FilesInv, IsSeq

LEMMA NamesStay ==
  ASSUME UNCHANGED <<dir, game, format>>, NEW e, NEW id
  PROVE  DvdbndFile(e, id)' = DvdbndFile(e, id)
BY DEF DvdbndFile, PathOf, LinesOf, HashOf, HiddenName, Lines, Texts

LEMMA FilesUntouched ==
  ASSUME FilesInv, UNCHANGED <<dir, game, format, entries, ids, files>>, status' # "stored" \/ status' = status
  PROVE  FilesInv'
<1>1. ASSUME NEW j \in 1..Len(files) PROVE files'[j] = DvdbndFile(entries[j], ids[j])'
  <2>1. files[j] = DvdbndFile(entries[j], ids[j])
    BY DEF FilesInv
  <2>2. DvdbndFile(entries[j], ids[j])' = DvdbndFile(entries[j], ids[j])
    BY DEF DvdbndFile, PathOf, LinesOf, HashOf, HiddenName, Lines, Texts
  <2> QED
    BY <2>1, <2>2
<1> QED
  BY <1>1 DEF FilesInv, IsSeq

LEMMA FilesNext ==
  ASSUME IdsInv, IdsInv', RangesInv, RangesInv', FilesInv, [Next]_vars
  PROVE  FilesInv'
<1>1. CASE HeaderRead \/ HeaderRefused \/ FormatRefused \/ FormatRead
  <2>1. /\ UNCHANGED <<ids, files>> /\ status = "parsing" /\ status' # "stored"
    BY <1>1 DEF HeaderRead, HeaderRefused, FormatRefused, FormatRead, KeepStore, NextOrder, Parsing
  <2>2. ids = <<>> /\ Len(files) = 0 /\ IsSeq(files)
    BY <2>1 DEF IdsInv, IdsAreOfEntriesDone, FilesInv
  <2>3. Len(entries') \in Nat
    BY DEF RangesInv, FieldsAreTyped
  <2> QED
    BY <2>1, <2>2, <2>3 DEF FilesInv, IsSeq
<1>2. CASE Checked
  <2>1. /\ UNCHANGED <<inputs, parseVars, files, entries, ids>> /\ (status' # "stored" \/ status' = status)
    BY <1>2 DEF Checked, SkipEmpty, AcceptRange, BadRange, OobRange, TooManyRanges
  <2> QED
    BY <2>1, FilesUntouched DEF inputs, parseVars
<1>3. CASE EntryDone
  <2> DEFINE x == Last(ids')
             df == DvdbndFile(entries[k], x)
  <2>1. /\ UNCHANGED <<dir, game, format, entries, status>> /\ status = "storing" /\ k <= Len(entries)
        /\ k' = k + 1 /\ files' = Append(files, df)
    BY <1>3 DEF EntryDone, NotEncrypted, Store, AllAccepted, AtEntry, inputs, parseVars, entry
  <2>2. PICK y : ids' = Append(ids, y)
    BY <1>3 DEF EntryDone, NotEncrypted, Store
  <2>3. /\ Len(ids') = Len(ids) + 1 /\ \A n \in 1..Len(ids) : ids'[n] = ids[n]
    BY <2>2, AppendKeeps DEF IdsInv
  <2>4. x = ids'[Len(ids')]
    BY DEF Last
  <2>5. /\ k \in Nat \ {0} /\ Len(ids) = k - 1 /\ Len(files) = k - 1 /\ Len(entries) \in Nat
    BY DEF IdsInv, IdsAreOfEntriesDone, FilesInv, RangesInv, FieldsAreTyped
  <2> HIDE DEF df, x
  <2>6. /\ IsSeq(files') /\ Len(files') = Len(files) + 1
        /\ \A n \in 1..Len(files) : files'[n] = files[n]
        /\ files'[Len(files) + 1] = df
    BY <2>1, AppendKeeps DEF FilesInv
  <2>7. /\ Len(files') = k /\ Len(ids') = k /\ files'[k] = df
    BY <2>3, <2>5, <2>6
  <2>8. ASSUME NEW j \in 1..Len(files') PROVE files'[j] = DvdbndFile(entries[j], ids[j])'
    <3>1. CASE j = k
      <4>1. files'[j] = DvdbndFile(entries[j], ids'[j])
        BY <2>4, <2>7, <3>1 DEF df
      <4>2. DvdbndFile(entries[j], ids[j])' = DvdbndFile(entries[j], ids'[j])
        BY <2>1 DEF DvdbndFile, PathOf, LinesOf, HashOf, HiddenName, Lines, Texts
      <4> QED
        BY <4>1, <4>2
    <3>2. CASE j # k
      <4>1. j \in 1..Len(files) /\ j \in 1..Len(ids)
        BY <2>5, <2>7, <3>2
      <4>2. files'[j] = DvdbndFile(entries[j], ids[j]) /\ ids'[j] = ids[j]
        BY <2>3, <2>6, <4>1 DEF FilesInv
      <4>3. DvdbndFile(entries[j], ids[j])' = DvdbndFile(entries[j], ids'[j])
        BY <2>1 DEF DvdbndFile, PathOf, LinesOf, HashOf, HiddenName, Lines, Texts
      <4> QED
        BY <4>2, <4>3
    <3> QED
      BY <3>1, <3>2
  <2>9. /\ Len(files') = Len(ids') /\ Len(files') <= Len(entries') /\ status' # "stored"
    BY <2>1, <2>5, <2>7
  <2> QED
    BY <2>6, <2>8, <2>9 DEF FilesInv
<1>4. CASE Processed
  <2>1. /\ UNCHANGED <<dir, game, format, entries, ids, files>> /\ k > Len(entries)
    BY <1>4 DEF Processed, AllStored, inputs, parseVars
  <2>2. /\ k \in Nat \ {0} /\ Len(ids) = k - 1 /\ Len(files) = k - 1 /\ Len(entries) \in Nat
        /\ Len(files) <= Len(entries)
    BY DEF IdsInv, IdsAreOfEntriesDone, FilesInv, RangesInv, FieldsAreTyped
  <2>3. Len(files) = Len(entries)
    BY <2>1, <2>2
  <2>4. ASSUME NEW j \in 1..Len(files) PROVE files'[j] = DvdbndFile(entries[j], ids[j])'
    <3>1. files[j] = DvdbndFile(entries[j], ids[j])
      BY DEF FilesInv
    <3>2. DvdbndFile(entries[j], ids[j])' = DvdbndFile(entries[j], ids[j])
      BY <2>1 DEF DvdbndFile, PathOf, LinesOf, HashOf, HiddenName, Lines, Texts
    <3> QED
      BY <2>1, <3>1, <3>2
  <2> QED
    BY <2>1, <2>3, <2>4 DEF FilesInv, IsSeq
<1>5. CASE UNCHANGED vars
  <2>1. UNCHANGED <<dir, game, format, entries, ids, files>> /\ status' = status
    BY <1>5 DEF vars, inputs, parseVars, storeVars
  <2> QED
    BY <2>1, FilesUntouched
<1> QED
  BY <1>1, <1>2, <1>3, <1>4, <1>5 DEF Next, Ended

-----------------------------------------------------------------------------
(* An archive is refused for its ranges only: each error is that of a range  *)
(* of the entry at hand, and the store cannot be full, for what it holds is  *)
(* less than the encryption in the header.                                   *)
LEMMA BadRangeIsBad ==
  ASSUME NEW e \in Entry, NEW n \in 1..Len(e.ranges),
         NEW l, l = (e.ranges[n].end - e.ranges[n].start) % M64, l # 0,
         \/ e.ranges[n].start > e.ranges[n].end \/ l % Block # 0
         \/ e.ranges[n].start <= e.ranges[n].end /\ e.ranges[n].start > SatSub(e.size, l)
  PROVE  IsBadEntry(e)
<1> DEFINE r == e.ranges[n]
           s == r.start
           t == r.end
           z == e.size
<1>1. s \in 0..M64 - 1 /\ t \in 0..M64 - 1 /\ z \in 0..(M32 \div 2) - 1 /\ Len(e.ranges) \in Nat
  BY RangeTypes
<1>2. M64 \in Nat /\ M64 # 0 /\ (M32 \div 2) \in Nat /\ Block \in Nat \ {0}
  BY Widths
<1>3. DOMAIN e.ranges = 1..Len(e.ranges)
  BY EntryIs
<1> HIDE DEF s, t, z
<1>4. s # t
  <2>1. s = t => l = 0
    <3>1. s = t => t - s = 0
      BY <1>1
    <3>2. 0 % M64 = 0
      BY <1>2
    <3> QED
      BY <3>1, <3>2 DEF s, t, r
  <2> QED
    BY <2>1
<1>5. s <= t => l = t - s
  <2> SUFFICES ASSUME s <= t PROVE l = t - s
    OBVIOUS
  <2>1. t - s \in 0..M64 - 1
    BY <1>1, <1>2
  <2> DEFINE d == t - s
  <2>2. l = d % M64
    BY DEF s, t, r
  <2> HIDE DEF d
  <2>3. d \in 0..M64 - 1
    BY <2>1 DEF d
  <2>4. d % M64 = d
    BY <1>2, <2>3, ModSmall
  <2> QED
    BY <2>2, <2>4 DEF d
<1>6. s > t \/ (t - s) % Block # 0 \/ t > z
  <2>1. CASE s > t
    BY <2>1
  <2>2. CASE s <= t
    <3>1. l = t - s
      BY <1>5, <2>2
    <3>2. CASE l % Block # 0
      BY <3>1, <3>2
    <3>3. CASE s > SatSub(z, l)
      <4>1. SatSub(z, l) = IF z >= l THEN z - l ELSE 0
        BY DEF SatSub
      <4> QED
        BY <1>1, <1>2, <2>2, <3>1, <3>3, <4>1
    <3> QED
      BY <1>1, <2>2, <3>2, <3>3 DEF s, t, z, r
  <2> QED
    BY <1>1, <2>1, <2>2
<1>7. IsBadRange(e, r)
  BY <1>4, <1>6 DEF IsBadRange, s, t, z
<1> QED
  BY <1>3, <1>7 DEF IsBadEntry

Held ==
  /\ status = "parsing" => k = 1 /\ out = <<>>
  /\ status = "storing" => Len(out) <= SumOf(EncW(written), k - 1)
  /\ status \in {"BadRange", "OobRange", "TooManyRanges"} =>
       \E e \in Range(Written(written)) : IsBadEntry(e)
HeldInv == Distinguishable => Held

LEMMA HeldInit == Init => HeldInv
BY DEF Init, StoreInit, HeldInv, Held

LEMMA TakenAreFew ==
  ASSUME IdsInv, RangesInv, AtEncrypted
  PROVE  Len(ranges) \in Nat /\ Len(ranges) <= Len(entry.ranges) /\ Len(entry.ranges) \in Nat
<1> DEFINE c == Len(entry.ranges)
           T == Taken(entry, i)
<1>1. /\ entry \in Entry /\ Packs(entry, i, ranges) /\ ranges \in Seq(StoredRange)
  BY EntryIsTyped
<1>2. c \in Nat
  BY <1>1, RangeTypes
<1>3. Len(ranges) = Cardinality(T) /\ Len(ranges) \in Nat
  BY <1>1 DEF Packs
<1>4. T \subseteq 1..c
  BY DEF Taken, NonemptyOf
<1> HIDE DEF T, c
<1>5. IsFiniteSet(1..c) /\ Cardinality(1..c) = c
  <2>1. 1 \in Int /\ c \in Int
    BY <1>2
  <2>2. IsFiniteSet(1..c) /\ Cardinality(1..c) = IF 1 > c THEN 0 ELSE c - 1 + 1
    BY <2>1, FS_Interval
  <2> QED
    BY <1>2, <2>2
<1>6. Cardinality(T) <= Cardinality(1..c)
  BY <1>4, <1>5, FS_Subset
<1> QED
  BY <1>2, <1>3, <1>5, <1>6 DEF c

LEMMA EntryIsWritten ==
  ASSUME IdsInv, RangesInv, ParseInv, Distinguishable, AtEntry
  PROVE  /\ IsArchive(written) /\ k \in 1..Count(written)
         /\ entry = Written(written)[k] /\ entry \in Range(Written(written))
<1>1. status = "storing" /\ k <= Len(entries) /\ k \in Nat \ {0}
  BY DEF AtEntry, IdsInv, IdsAreOfEntriesDone
<1>2. IsArchive(written) /\ entries = Written(written)
  BY <1>1 DEF ParseInv, InputsAre, Leading, Parsing
<1>3. Count(written) \in Nat /\ DOMAIN Written(written) = 1..Count(written)
  BY <1>2, WrittenIs
<1>4. k \in 1..Count(written)
  BY <1>1, <1>2, <1>3 DEF Count
<1> QED
  BY <1>2, <1>3, <1>4 DEF entry, Range

LEMMA HeldNext ==
  ASSUME IdsInv, RangesInv, ParseInv, ParseInv', HeldInv, [Next]_vars
  PROVE  HeldInv'
<1> DEFINE a == written
           w == EncW(written)
<1>1. UNCHANGED inputs
  BY Steps DEF HeaderRead, HeaderRefused, FormatRefused, FormatRead, StoreStep, vars
<1>2. written' = written /\ (Distinguishable' <=> Distinguishable)
  BY <1>1 DEF inputs, Distinguishable
<1>3. EncW(written)' = EncW(written) /\ Written(written)' = Written(written)
  BY <1>2 DEF EncW, Written
<1>4. SUFFICES ASSUME Distinguishable, Held PROVE Held'
  BY <1>2 DEF HeldInv
<1>5. \A e : IsBadEntry(e)' = IsBadEntry(e)
  BY DEF IsBadEntry, IsBadRange
<1>6. SUFFICES ASSUME TRUE
      PROVE  /\ status' = "parsing" => k' = 1 /\ out' = <<>>
             /\ status' = "storing" => Len(out') <= SumOf(w, k' - 1)
             /\ status' \in {"BadRange", "OobRange", "TooManyRanges"} =>
                  \E e \in Range(Written(a)) : IsBadEntry(e)
  BY <1>2, <1>3, <1>5 DEF Held, EncW, Written, Range, IsBadEntry, IsBadRange
<1>7. IsArchive(a)
  BY DEF ParseInv, InputsAre
<1>8. Count(a) \in Nat /\ w \in [1..Count(a) -> Nat]
  BY <1>7, WrittenIs, EncWIs
<1>9. CASE HeaderRead \/ HeaderRefused \/ FormatRefused
  <2>1. /\ status' # "storing" /\ status' \notin {"BadRange", "OobRange", "TooManyRanges"}
        /\ status = "parsing" /\ UNCHANGED <<k, out>>
    BY <1>9 DEF HeaderRead, HeaderRefused, FormatRefused, NextOrder, Parsing, KeepStore
  <2> QED
    BY <1>4, <2>1 DEF Held
<1>10. CASE FormatRead
  <2>1. /\ status' = "storing" /\ UNCHANGED <<k, ids, out>> /\ status = "parsing"
    BY <1>10 DEF FormatRead, Parsing
  <2>2. k = 1 /\ k - 1 = 0 /\ out = <<>>
    BY <1>4, <2>1 DEF Held
  <2>3. SumOf(w, 0) = 0
    <3> HIDE DEF w
    <3> QED
      BY <1>8, SumStep
  <2>4. Len(out) = 0
    BY <2>2
  <2> QED
    BY <2>1, <2>2, <2>3, <2>4
<1>11. CASE Checked /\ (SkipEmpty \/ AcceptRange)
  <2>1. UNCHANGED <<k, out, status>>
    BY <1>11 DEF SkipEmpty, AcceptRange
  <2> QED
    BY <1>4, <2>1 DEF Held
<1>12. CASE Checked /\ (BadRange \/ OobRange)
  <2>1. AtRange /\ len # 0 /\ status' \in {"BadRange", "OobRange"}
        /\ (\/ range.start > range.end \/ len % Block # 0
            \/ range.start <= range.end /\ range.start > SatSub(entry.size, len))
    BY <1>12 DEF BadRange, OobRange, IsOob
  <2>2. AtEncrypted /\ AtEntry /\ i <= Len(entry.ranges)
    BY <2>1 DEF AtRange, AtEncrypted
  <2>3. entry \in Entry /\ i \in Nat \ {0} /\ entry \in Range(Written(a))
    BY <1>4, <2>2, EntryIsTyped, EntryIsWritten
  <2>4. i \in 1..Len(entry.ranges)
    BY <2>2, <2>3, RangeTypes
  <2>5. len = (entry.ranges[i].end - entry.ranges[i].start) % M64
    BY DEF len, range
  <2>6. IsBadEntry(entry)
    <3> DEFINE l == len
               e == entry
               n == i
    <3>1. /\ e \in Entry /\ n \in 1..Len(e.ranges) /\ l = (e.ranges[n].end - e.ranges[n].start) % M64
          /\ l # 0
          /\ \/ e.ranges[n].start > e.ranges[n].end \/ l % Block # 0
             \/ e.ranges[n].start <= e.ranges[n].end /\ e.ranges[n].start > SatSub(e.size, l)
      BY <2>1, <2>3, <2>4, <2>5 DEF range
    <3> HIDE DEF l, e, n
    <3>2. IsBadEntry(e)
      BY <3>1, BadRangeIsBad
    <3> QED
      BY <3>2 DEF e
  <2> QED
    BY <2>1, <2>3, <2>6
<1>13. CASE Checked /\ TooManyRanges
  <2>1. AllAccepted /\ ~FitsStore /\ status' = "TooManyRanges"
    BY <1>13 DEF TooManyRanges
  <2>2. AtEncrypted /\ AtEntry /\ status = "storing"
    BY <2>1 DEF AllAccepted, AtEncrypted, AtEntry
  <2>3. k \in 1..Count(a) /\ entry \in Range(Written(a))
    BY <1>4, <2>2, EntryIsWritten
  <2>4. Len(ranges) \in Nat /\ Len(ranges) <= Len(entry.ranges) /\ Len(entry.ranges) \in Nat
    BY <2>2, TakenAreFew
  <2>5. Len(out) < M32 - 1
    <3> DEFINE c == Count(a)
               s == SumOf(w, k - 1)
               u == SumOf(w, c)
    <3>1. Len(out) <= s
      BY <1>4, <2>2 DEF Held
    <3>2. s <= u /\ s \in Nat /\ u \in Nat
      <4>1. k - 1 \in 0..c /\ c \in 0..c /\ k - 1 <= c
        BY <1>8, <2>3
      <4> HIDE DEF w, c
      <4> QED
        BY <1>8, <4>1, SumGrows, SumIsNat DEF c
    <3>3. /\ FileSize(a) = EncryptionStart(a) + u /\ EncryptionStart(a) \in Nat
          /\ EncryptionStart(a) >= EntriesAt(a) /\ EntriesAt(a) >= 8 /\ EntriesAt(a) \in Nat
          /\ FileSize(a) < M32
      BY <1>7, PlacesAre, ArchiveIs
    <3>4. Len(out) \in Nat /\ M32 \in Nat
      BY Widths DEF IdsInv, IsSeq
    <3> HIDE DEF s, u
    <3> QED
      BY <3>1, <3>2, <3>3, <3>4
  <2>6. Len(entry.ranges) >= M24
    <3>1. ~(Len(ranges) < M24) /\ M24 \in Nat
      BY <2>1, <2>5, UintsAssumption DEF FitsStore
    <3> QED
      BY <2>4, <3>1
  <2> QED
    BY <2>1, <2>3, <2>6 DEF IsBadEntry
<1>14. CASE EntryDone
  <2>1. AtEntry /\ status' = "storing" /\ status = "storing" /\ k' = k + 1
    BY <1>14 DEF EntryDone, NotEncrypted, Store, AllAccepted, AtEntry
  <2>2. k \in 1..Count(a) /\ entry = Written(a)[k]
    BY <1>4, <2>1, EntryIsWritten
  <2>3. /\ Len(entry.ranges) \in Nat /\ w[k] = IF entry.encrypted THEN 5 + 4 * Len(entry.ranges) ELSE 0
    BY <1>7, <2>2, EncWIs
  <2>4. /\ SumOf(w, k) = SumOf(w, k - 1) + w[k] /\ SumOf(w, k - 1) \in Nat
    <3>1. k - 1 \in 0..Count(a)
      BY <1>8, <2>2
    <3> HIDE DEF w
    <3> QED
      BY <1>8, <2>2, <3>1, SumStep, SumIsNat
  <2>5. Len(out) <= SumOf(w, k - 1) /\ Len(out) \in Nat
    BY <1>4, <2>1 DEF Held, IdsInv, IsSeq
  <2>6. k' - 1 = k
    BY <1>8, <2>1, <2>2
  <2> HIDE DEF w
  <2>7. CASE NotEncrypted
    <3>1. out' = out /\ ~entry.encrypted
      BY <2>7 DEF NotEncrypted
    <3> QED
      BY <2>1, <2>3, <2>4, <2>5, <2>6, <3>1
  <2>8. CASE Store
    <3>1. AtEncrypted /\ entry.encrypted
      BY <2>8 DEF Store, AllAccepted, AtEncrypted
    <3>2. Len(ranges) \in Nat /\ Len(ranges) <= Len(entry.ranges)
      BY <3>1, TakenAreFew
    <3>3. Len(out') = Len(out) + 1 + Len(ranges)
      <4> DEFINE cell == [header |-> k, count |-> Len(ranges)]
                 more == Append(out, cell) \o Sorted(ranges)
      <4>1. ranges \in Seq(StoredRange)
        BY <3>1, EntryIsTyped
      <4>2. IsSeq(Sorted(ranges)) /\ Len(Sorted(ranges)) = Len(ranges) /\ IsSeq(out)
        BY <4>1, SortedIsByEnds, SeqIsSeq DEF IdsInv
      <4>3. out' = more
        BY <2>8 DEF Store
      <4>4. Len(more) = Len(out) + 1 + Len(Sorted(ranges))
        <5> DEFINE g == Sorted(ranges)
        <5>1. IsSeq(g) /\ IsSeq(out)
          BY <4>2
        <5> HIDE DEF g, cell
        <5>2. Len(Append(out, cell) \o g) = Len(out) + 1 + Len(g)
          BY <5>1, StoreGains
        <5> QED
          BY <5>2 DEF g
      <4> QED
        BY <4>2, <4>3, <4>4
    <3> QED
      BY <2>1, <2>3, <2>4, <2>5, <2>6, <3>1, <3>2, <3>3
  <2> QED
    BY <1>14, <2>7, <2>8 DEF EntryDone
<1>15. CASE Processed
  BY <1>15 DEF Processed, AllStored
<1>16. CASE UNCHANGED vars
  <2>1. UNCHANGED <<k, out, status>>
    BY <1>16 DEF vars, storeVars
  <2> QED
    BY <1>4, <2>1 DEF Held
<1> QED
  BY <1>9, <1>10, <1>11, <1>12, <1>13, <1>14, <1>15, <1>16 DEF Next, Checked, Ended

ArchiveInv == ParseInv /\ FilesInv /\ HeldInv

LEMMA ArchiveInvImplies ==
  ASSUME IdsInv, RangesInv, ArchiveInv
  PROVE  ArchiveIsItsFiles
<1> SUFFICES ASSUME Distinguishable PROVE ArchiveIsItsFiles
  BY DEF ArchiveIsItsFiles
<1>1. Leading
  BY DEF ArchiveInv, ParseInv
<1>2. status # "BadHeader" /\ (format # NoFormat => Recognised(written, format))
  BY <1>1 DEF Leading, Parsing
<1>3. ASSUME NEW j \in DOMAIN files
      PROVE  LET e == Written(written)[j]
             IN  /\ files[j].data_offset = e.offset /\ files[j].len = e.size
                 /\ files[j].unpadded_len = IF e.unpadded = 0 THEN e.size ELSE e.unpadded
                 /\ e.encrypted <=> files[j].encryption_id # NoId
                 /\ entries[j].hash = e.hash /\ entries[j].ranges = e.ranges
  <2>1. /\ j \in 1..Len(files) /\ Len(files) = Len(ids) /\ files[j] = DvdbndFile(entries[j], ids[j])
    BY DEF ArchiveInv, FilesInv, IsSeq
  <2>2. status # "parsing"
    BY <2>1 DEF IdsInv, IdsAreOfEntriesDone
  <2>3. entries = Written(written)
    BY <1>1, <2>2 DEF Leading, Parsing
  <2>4. PointsToHeader(j)
    BY <2>1 DEF IdsInv, IdsPointIntoStore
  <2> DEFINE e == entries[j]
             d == files[j]
  <2>5. e.encrypted <=> ids[j] # NoId
    BY <2>4 DEF PointsToHeader, NoId
  <2>6. /\ d.data_offset = e.offset /\ d.len = e.size
        /\ d.unpadded_len = (IF e.unpadded = 0 THEN e.size ELSE e.unpadded)
        /\ d.encryption_id = ids[j]
    <3> HIDE DEF e
    <3>1. d = DvdbndFile(e, ids[j])
      BY <2>1 DEF e
    <3> HIDE DEF d
    <3> QED
      BY <3>1 DEF DvdbndFile
  <2> HIDE DEF d
  <2> QED
    BY <2>3, <2>5, <2>6 DEF d
<1>4. status = "stored" => Len(files) = Len(Written(written))
  BY <1>1 DEF ArchiveInv, FilesInv, Leading, Parsing
<1>5. status \in {"BadRange", "OobRange", "TooManyRanges"} =>
         \E e \in Range(Written(written)) : IsBadEntry(e)
  BY DEF ArchiveInv, HeldInv, Held
<1> QED
  BY <1>2, <1>3, <1>4, <1>5 DEF ArchiveIsItsFiles

LEMMA ArchiveInit == Init => ArchiveInv
BY ParseInit, FilesInit, HeldInit DEF ArchiveInv

LEMMA ArchiveNext ==
  IdsInv /\ IdsInv' /\ RangesInv /\ RangesInv' /\ ArchiveInv /\ [Next]_vars => ArchiveInv'
<1> SUFFICES ASSUME IdsInv, IdsInv', RangesInv, RangesInv', ArchiveInv, [Next]_vars
             PROVE  ArchiveInv'
  OBVIOUS
<1>1. ParseInv'
  BY ParseNext DEF ArchiveInv
<1>2. FilesInv'
  BY FilesNext DEF ArchiveInv
<1>3. HeldInv'
  BY <1>1, HeldNext DEF ArchiveInv
<1> QED
  BY <1>1, <1>2, <1>3 DEF ArchiveInv

(* Whatever archive was written, in whichever of the formats, byte orders    *)
(* and dictionaries: if its format can be told apart it is recognised, but   *)
(* that a Dark Souls 2 archive of fewer than two files may be read as one of *)
(* Dark Souls 3; its files are its entries all the same, in order, each with *)
(* its own place, size and encryption, and it is refused for ranges that do  *)
(* not fit and for nothing else (format.rs:314-407, filesystem.rs:204-247).  *)
THEOREM ArchivesAreTheirFiles == Spec => []ArchiveIsItsFiles
<1>1. IdsInv /\ RangesInv /\ ArchiveInv => ArchiveIsItsFiles
  BY ArchiveInvImplies
<1>2. IdsInv /\ IdsInv' /\ RangesInv /\ [Next]_vars => RangesInv'
  BY RangesNext
<1> QED
  BY <1>1, <1>2, IdsInit, IdsNext, RangesInit, ArchiveInit, ArchiveNext, PTL DEF Spec

-----------------------------------------------------------------------------
(* Names.                                                                    *)
LEMMA MaxIsIn ==
  ASSUME NEW c \in Nat, NEW S \in SUBSET (1..c), S # {}
  PROVE  Max(S) \in S
<1> DEFINE U == { u \in Nat : \A y \in S : y <= u }
<1>1. U \in SUBSET Nat /\ c \in U
  OBVIOUS
<1>2. PICK u \in U : \A v \in U : u <= v
  BY <1>1, LowestExists
<1>3. u \in S
  <2> SUFFICES ASSUME u \notin S PROVE FALSE
    OBVIOUS
  <2>1. \A y \in S : y < u /\ y \in Nat /\ y >= 1
    BY <1>2
  <2>2. PICK z : z \in S
    OBVIOUS
  <2>4. u \in Nat /\ u - 1 \in Nat
    BY <2>1, <2>2
  <2>5. \A y \in S : y <= u - 1
    BY <2>1, <2>4
  <2>3. u - 1 \in U
    BY <2>4, <2>5
  <2> QED
    BY <1>2, <2>3
<1>4. \A y \in S : u >= y
  BY <1>2
<1> HIDE DEF U
<1> QED
  BY <1>3, <1>4, Zenon DEF Max

(* The lines are sequences of bytes.                                         *)
LEMMA LinesAreBytes ==
  ASSUME ParseInv
  PROVE  Lines \in Seq(Seq(0..255))
<1> DEFINE B == Seq(Seq(0..255))
<1>1. dir \in Seq(TextFile)
  BY DEF ParseInv, InputsAre
<1>2. CASE Texts = {}
  BY <1>2 DEF Lines
<1>3. CASE Texts # {}
  <2>1. DOMAIN dir = 1..Len(dir) /\ Len(dir) \in Nat
    BY <1>1
  <2>2. Texts \in SUBSET (1..Len(dir))
    BY <2>1 DEF Texts
  <2>3. Max(Texts) \in Texts
    BY <1>3, <2>1, <2>2, MaxIsIn
  <2>4. Max(Texts) \in 1..Len(dir)
    BY <2>2, <2>3
  <2> DEFINE m == Max(Texts)
             t == dir[m]
  <2> HIDE DEF m
  <2>5. t \in TextFile
    BY <1>1, <2>4, SeqAt DEF m
  <2> HIDE DEF t
  <2>6. t.lines \in B
    <3> HIDE DEF B
    <3>1. TextFile = [game : STRING, name : STRING, lines : B]
      BY DEF TextFile, B
    <3> QED
      BY <2>5, <3>1
  <2>7. Lines = t.lines
    BY <1>3 DEF Lines, t, m
  <2> QED
    BY <2>6, <2>7
<1> QED
  BY <1>2, <1>3

LEMMA LineIsBytes ==
  ASSUME ParseInv, NEW n \in 1..Len(Lines)
  PROVE  Lines[n] \in Seq(Nat)
<1> DEFINE V == Seq(0..255)
<1>1. Lines \in Seq(V)
  BY LinesAreBytes
<1> HIDE DEF V
<1>2. Lines[n] \in V
  BY <1>1, SeqAt
<1>3. Lines[n] \in Seq(0..255)
  BY <1>2 DEF V
<1> DEFINE s == Lines[n]
           c == Len(s)
<1>4. s \in Seq(0..255)
  BY <1>3
<1> HIDE DEF s
<1>5. c \in Nat /\ s = [x \in 1..c |-> s[x]] /\ \A x \in 1..c : s[x] \in Nat
  <2>1. c \in Nat /\ s = [x \in 1..c |-> s[x]]
    BY <1>4
  <2>2. ASSUME NEW x \in 1..c PROVE s[x] \in Nat
    <3> DEFINE D == 0..255
    <3>1. s \in Seq(D) /\ x \in 1..Len(s)
      BY <1>4
    <3>2. \A z \in D : z \in Nat
      OBVIOUS
    <3> HIDE DEF D
    <3>3. s[x] \in D
      BY <3>1, SeqAt
    <3> QED
      BY <3>2, <3>3, Zenon
  <2> HIDE DEF c
  <2> QED
    BY <2>1, <2>2
<1> HIDE DEF c
<1>6. s \in Seq(Nat)
  BY <1>5, IsSeqOf
<1> QED
  BY <1>6 DEF s

LEMMA HashTypes ==
  ASSUME NEW f
  PROVE  IsHashType(HashType(f))
<1>1. PRIME_32 \in Nat /\ PRIME_64 \in Nat /\ M32 \in Nat \ {0} /\ M64 \in Nat \ {0}
  BY PrimesAssumption, Widths
<1>2. u32.PRIME = PRIME_32 /\ u32.M = M32 /\ u64.PRIME = PRIME_64 /\ u64.M = M64
  BY DEF u32, u64
<1>3. HashType(f) = u32 \/ HashType(f) = u64
  BY DEF HashType
<1> HIDE DEF u32, u64
<1> QED
  BY <1>1, <1>2, <1>3 DEF IsHashType

LEMMA HashesArePlain ==
  ASSUME ParseInv, Leading, ~Parsing, NEW n \in 1..Len(Lines), HasHash(Lines[n])
  PROVE  HashOf(Lines[n]) = PlainHash(Lines[n])
<1> DEFINE s == Lines[n]
           T == HashType(written.format)
<1>1. HashType(format) = T
  BY DEF Leading, Recognised, U64_HASH, HashType
<1>2. s \in Seq(Nat) /\ IsHashType(T)
  BY LineIsBytes, HashTypes
<1>3. HashOf(s) = hash_path(T, s)
  BY <1>1 DEF HashOf
<1> HIDE DEF s, T
<1>4. HasHash(s)
  BY DEF s
<1>5. hash_path(T, s) = hash_bytes(T, 0, <<Slash>> \o normalize_suffix(s))
  BY <1>2, <1>4, PathHashIsPlain
<1>6. PlainHash(s) = hash_bytes(T, 0, <<Slash>> \o normalize_suffix(s))
  BY DEF PlainHash, T
<1> QED
  BY <1>3, <1>5, <1>6 DEF s

LEMMA NamesFit ==
  ASSUME IdsInv, ArchiveInv
  PROVE  FilesAreNamed
<1> DEFINE Fitting(j) == {l \in Range(Lines) :
                            HasHash(l) /\ PlainHash(l) = Written(written)[j].hash}
<1> SUFFICES ASSUME Distinguishable, NEW j \in DOMAIN files
             PROVE  IF Fitting(j) = {} THEN files[j].path = HiddenName(Written(written)[j].hash)
                                       ELSE files[j].path \in Fitting(j)
  BY DEF FilesAreNamed
<1>1. Leading /\ ParseInv
  BY DEF ArchiveInv, ParseInv
<1>2. /\ j \in 1..Len(files) /\ Len(files) = Len(ids) /\ files[j] = DvdbndFile(entries[j], ids[j])
  BY DEF ArchiveInv, FilesInv, IsSeq
<1>3. ~Parsing
  BY <1>2 DEF IdsInv, IdsAreOfEntriesDone, Parsing
<1>4. entries = Written(written)
  BY <1>1, <1>3 DEF Leading
<1> DEFINE h == Written(written)[j].hash
           ns == LinesOf(h)
<1>5. files[j].path = PathOf(h)
  <2> DEFINE e == entries[j]
  <2>1. files[j] = DvdbndFile(e, ids[j]) /\ e.hash = h
    BY <1>2, <1>4
  <2> HIDE DEF e, h
  <2>2. DvdbndFile(e, ids[j]).path = PathOf(e.hash)
    BY DEF DvdbndFile
  <2> QED
    BY <2>1, <2>2
<1>6. DOMAIN Lines = 1..Len(Lines) /\ Len(Lines) \in Nat
  BY <1>1, LinesAreBytes
<1> HIDE DEF h
<1>7. \A n \in 1..Len(Lines) : n \in ns <=> HasHash(Lines[n]) /\ PlainHash(Lines[n]) = h
  <2>1. ASSUME NEW n \in 1..Len(Lines)
        PROVE  n \in ns <=> HasHash(Lines[n]) /\ PlainHash(Lines[n]) = h
    <3>1. HasHash(Lines[n]) => HashOf(Lines[n]) = PlainHash(Lines[n])
      BY <1>1, <1>3, HashesArePlain
    <3>2. n \in ns <=> HasHash(Lines[n]) /\ HashOf(Lines[n]) = h
      BY <1>6 DEF LinesOf
    <3> QED
      BY <3>1, <3>2
  <2> QED
    BY <2>1
<1>8. ns \in SUBSET (1..Len(Lines))
  BY <1>6 DEF LinesOf
<1> DEFINE ft == Fitting(j)
<1>9. \A l : l \in ft <=> l \in Range(Lines) /\ HasHash(l) /\ PlainHash(l) = h
  BY DEF h
<1>10. \A l : l \in Range(Lines) <=> \E n \in 1..Len(Lines) : l = Lines[n]
  BY <1>6 DEF Range
<1> HIDE DEF ns, ft
<1>11. PathOf(h) = IF ns = {} THEN HiddenName(h) ELSE Lines[Max(ns)]
  BY DEF PathOf, ns
<1>12. CASE ns = {}
  <2>1. ft = {}
    BY <1>7, <1>9, <1>10, <1>12
  <2>2. files[j].path = HiddenName(h)
    BY <1>5, <1>11, <1>12
  <2> QED
    BY <2>1, <2>2 DEF ft, h
<1>13. CASE ns # {}
  <2>1. Max(ns) \in ns
    BY <1>6, <1>8, <1>13, MaxIsIn
  <2> DEFINE m == Max(ns)
  <2>2. m \in 1..Len(Lines) /\ m \in ns
    BY <1>8, <2>1
  <2>3. files[j].path = Lines[m]
    BY <1>5, <1>11, <1>13
  <2> HIDE DEF m
  <2>4. HasHash(Lines[m]) /\ PlainHash(Lines[m]) = h
    BY <1>7, <2>2
  <2>5. Lines[m] \in Range(Lines)
    BY <1>10, <2>2
  <2>6. Lines[m] \in ft
    BY <1>9, <2>4, <2>5
  <2>7. ft # {} /\ files[j].path \in ft
    BY <2>3, <2>6
  <2> QED
    BY <2>7 DEF ft, h
<1> QED
  BY <1>12, <1>13

(* Whatever the lines of the dictionary: a file has the path of its game's   *)
(* and archive's whose hash, taken byte by byte, is that of its entry,       *)
(* although four bytes at a time are hashed, and a name made of the hash     *)
(* only when there is no such path (mad.rs, dict.rs:16-66, hash.rs,          *)
(* filesystem.rs:198-235).                                                   *)
THEOREM FilesAreAlwaysNamed == Spec => []FilesAreNamed
<1>1. IdsInv /\ ArchiveInv => FilesAreNamed
  BY NamesFit
<1>2. IdsInv /\ IdsInv' /\ RangesInv /\ [Next]_vars => RangesInv'
  BY RangesNext
<1> QED
  BY <1>1, <1>2, IdsInit, IdsNext, RangesInit, ArchiveInit, ArchiveNext, PTL DEF Spec
=============================================================================
