----------------------------- MODULE KeysProofs -----------------------------
(* Proofs about Keys, for any games, key files, archives and headers.        *)
EXTENDS Keys, FiniteSetTheorems, SequenceTheorems, NaturalsInduction,
        WellFoundedInduction, TLAPS

IsReader(r) ==
  r = [block |-> r.block, out |-> r.out, got |-> r.got]

Types ==
  /\ args \in Seq(Paths) /\ header \in [Given -> Headers]
  /\ request \in Nat /\ game \in Nat
  /\ todo \in Seq(Given)
  /\ queue \in Seq(Games \X KeyFiles)
  /\ DOMAIN by_path \subseteq Given
  /\ by_path \in [DOMAIN by_path -> KeyFiles \cup {Plaintext}]

(* The parts of the work: the candidates of an archive are tried one by one  *)
(* while there is an archive; the headers are decrypted once all are matched.*)
Phases ==
  /\ status \in {"match", "decrypt", "ready", "err"}
  /\ tried \in BOOLEAN
  /\ status = "match" /\ tried => todo # <<>>
  /\ queue # <<>> => status \in {"match", "err"} /\ tried
  /\ reader # NoReader => status = "match" /\ queue # <<>>
  /\ status \in {"decrypt", "ready"} => reader = NoReader /\ ~tried
  /\ status = "decrypt" => Range(todo) \subseteq DOMAIN by_path
  /\ status = "match" => bytes = <<>> /\ block = 0

(* A candidate's key is a key file of its game.  The game's position is that *)
(* of the game, and a game that was given stays.                             *)
CandidatesOfGame ==
  /\ \A i \in DOMAIN queue : queue[i][2] \in Range(Pem[queue[i][1]])
  /\ index # NoGame => index = game /\ game \in Games
  /\ request # NoGame => game = request
  /\ request \in Games => \A i \in DOMAIN queue : queue[i][1] = request
  /\ request \in Games \cup {NoGame} => game \in Games \cup {NoGame}

(* Once an archive has matched, the candidates left for it that fit are of   *)
(* the same game.                                                            *)
FitsAreOfGame ==
  /\ request \in Games \cup {NoGame} =>
       \A a \in DOMAIN by_path :
         by_path[a] # Plaintext => game \in Games /\ by_path[a] \in Range(Pem[game])
  /\ request \in Games \cup {NoGame} /\ game \in Games /\ queue # <<>> =>
       \A i \in DOMAIN queue :
         queue[i][2] \in header[Head(todo)].key => queue[i][1] = game

(* The bytes a reader of block b of a file has given are those of its blocks.*)
GivenOut(h, k, n) ==
  [p \in 1..n |-> <<k \in h.key, 1 + (p - 1) \div OutLen(k), 1 + ((p - 1) % OutLen(k))>>]

(* The reader holds the rest of a block only when the caller has no room for *)
(* it.                                                                       *)
ReadsBlocks(r, h, k) ==
  /\ IsReader(r) /\ r.block \in Nat
  /\ \E n \in 0..HeaderLen :
       /\ r.got = GivenOut(h, k, n)
       /\ \/ n = HeaderLen
          \/ r.out = <<>> /\ n = r.block * OutLen(k)
          \/ /\ r.out = Decrypt(h, k, r.block) /\ n = (r.block - 1) * OutLen(k)
             /\ r.block > 0 /\ n + OutLen(k) > HeaderLen

ReaderReads == reader # NoReader => ReadsBlocks(reader, tested, candidate[2])

(* An archive that is done with and was not matched is no header; the        *)
(* candidates left of the first are those that may still fit.                *)
NoneLeftOut ==
  status # "err" =>
    \A a \in Given \ DOMAIN by_path :
      \/ ~IsPlain(header[a]) /\ \A k \in OfGame : ~IsHeader(header[a], k)
      \/ status = "match" /\ todo # <<>> /\ a \in Range(Tail(todo))
      \/ status = "match" /\ todo # <<>> /\ a = Head(todo) /\ ~tried
      \/ /\ status = "match" /\ todo # <<>> /\ a = Head(todo) /\ tried
         /\ ~IsPlain(header[a])
         /\ \A k \in OfGame : IsHeader(header[a], k) =>
              \E i \in DOMAIN queue : queue[i][2] = k

(* In place: the first blocks are plaintext, without gaps, and the blocks    *)
(* that are left are untouched.                                              *)
BlocksInPlace(b, done, h, k) ==
  /\ done \in 0..h.n
  /\ b = [p \in 1..h.n * BlockLen[k] |-> b[p]]
  /\ \A p \in 1..done * OutLen(k) :
       b[p] = <<TRUE, 1 + (p - 1) \div OutLen(k), 1 + ((p - 1) % OutLen(k))>>
  /\ \A p \in done * BlockLen[k] + 1..h.n * BlockLen[k] :
       b[p] = <<FALSE, 1 + (p - 1) \div BlockLen[k], 1 + ((p - 1) % BlockLen[k])>>

DecryptsInPlace ==
  /\ status = "decrypt" /\ bytes = <<>> => block = 0
  /\ status = "decrypt" /\ bytes # <<>> =>
       /\ todo # <<>> /\ key # Plaintext
       /\ BlocksInPlace(bytes, block, current, key)

IInv ==
  /\ Types /\ Phases /\ CandidatesOfGame /\ FitsAreOfGame
  /\ ReaderReads /\ NoneLeftOut /\ DecryptsInPlace /\ OthersKeysDoNoHarm

-----------------------------------------------------------------------------
(* Byte i of block b, where the blocks have n bytes.                         *)
LEMMA ByteOfBlock ==
  ASSUME NEW n \in Nat \ {0}, NEW b \in Nat, NEW i \in 1..n
  PROVE  (b * n + i - 1) \div n = b /\ (b * n + i - 1) % n = i - 1
OBVIOUS

(* A block that begins before the end of the header is one it spans.         *)
LEMMA SpanOf ==
  ASSUME NEW n \in Nat \ {0}, NEW h \in Nat, NEW b \in Nat, b * n < h
  PROVE  b + 1 <= (h + n - 1) \div n
OBVIOUS

LEMMA TimesIsMonotone == \A a, b, c \in Nat : a <= b => a * c <= b * c
OBVIOUS

LEMMA MinOfTwo == ASSUME NEW a \in Nat, NEW b \in Nat, b <= a PROVE Min({a, b}) = b
BY DEF Min

LEMMA LowestExists ==
  ASSUME NEW S \in SUBSET Nat, S # {}
  PROVE  \E i \in S : \A j \in S : i <= j
<1> DEFINE R == { p \in Nat \X Nat : p[1] < p[2] }
<1>1. IsWellFoundedOn(R, Nat)
  <2>1. R = OpToRel(<, Nat)
    BY DEF OpToRel
  <2>2. IsWellFoundedOn(OpToRel(<, Nat), Nat)
    BY NatLessThanWellFounded
  <2> QED
    BY <2>1, <2>2
<1>2. PICK i \in S : \A j \in S : ~ (<<j, i>> \in R)
  <2> HIDE DEF R
  <2> QED
    BY <1>1, WFMin, Zenon
<1>3. ASSUME NEW j \in S PROVE i <= j
  <2>1. i \in Nat /\ j \in Nat /\ (j < i => <<j, i>> \in R)
    OBVIOUS
  <2>2. ~ (j < i)
    BY <2>1, <1>2
  <2> QED
    BY <2>1, <2>2
<1> QED
  BY <1>3

(* The order in which the headers are decrypted has each of them.            *)
LEMMA SetToSeqIsSeq ==
  ASSUME NEW S, IsFiniteSet(S)
  PROVE  SetToSeq(S) \in Seq(S)
<1>1. Cardinality(S) \in Nat
  BY FS_CardinalityType
<1>2. ExistsBijection(1..Cardinality(S), S)
  BY FS_CardinalityType
<1>3. \E f \in [1..Cardinality(S) -> S] : IsInjective(f)
  BY <1>2, Zenon DEF ExistsBijection, Bijection, Injection, IsInjective
<1>4. SetToSeq(S) \in [1..Cardinality(S) -> S]
  BY <1>3 DEF SetToSeq
<1> QED
  BY <1>1, <1>4

(* ArchivePaths::new gives a list.                                           *)
LEMMA ArchivePathsIsSeq ==
  ASSUME NEW given \in Seq(Paths)
  PROVE  ArchivePaths(given) \in Seq(Range(ArchivePaths(given)))
<1> DEFINE firsts == {i \in DOMAIN given :
                       \A j \in 1..i - 1 : NameOf[given[j]] # NameOf[given[i]]}
<1>1. Cardinality(firsts) \in Nat
  <2>1. Len(given) \in Nat /\ firsts \in SUBSET (1..Len(given))
    OBVIOUS
  <2>2. IsFiniteSet(1..Len(given))
    BY <2>1, FS_Interval
  <2>3. IsFiniteSet(firsts)
    BY <2>1, <2>2, FS_Subset
  <2> QED
    BY <2>3, FS_CardinalityType
<1>2. DOMAIN ArchivePaths(given) = 1..Cardinality(firsts)
  BY DEF ArchivePaths
<1>3. ArchivePaths(given) = [n \in 1..Cardinality(firsts) |-> ArchivePaths(given)[n]]
  BY DEF ArchivePaths
<1> HIDE DEF firsts
<1> QED
  BY <1>1, <1>2, <1>3 DEF Range

(* Induction up to a bound, over the numbers of a set.                       *)
LEMMA UpTo ==
  ASSUME NEW S, NEW n \in Nat, 0 \in S, \A i \in 0..n - 1 : i \in S => i + 1 \in S
  PROVE  0..n \subseteq S
<1> DEFINE Out == { i \in 0..n : i \notin S }
<1> SUFFICES ASSUME Out # {} PROVE FALSE
  OBVIOUS
<1>1. Out \in SUBSET Nat
  OBVIOUS
<1>2. PICK m \in Out : \A j \in Out : m <= j
  <2> HIDE DEF Out
  <2> QED
    BY <1>1, LowestExists
<1>3. m \in 0..n /\ m # 0 /\ m \notin S
  BY <1>2
<1>4. m - 1 \in 0..n - 1 /\ m - 1 \notin Out /\ (m - 1) + 1 = m
  BY <1>2, <1>3
<1>5. m - 1 \in S
  BY <1>4
<1> QED
  BY <1>3, <1>4, <1>5

LEMMA RangeOfConcat ==
  ASSUME NEW T, NEW a \in Seq(T), NEW b \in Seq(T), NEW x
  PROVE  x \in Range(a \o b) <=> x \in Range(a) \/ x \in Range(b)
<1>1. ASSUME NEW i \in DOMAIN a PROVE i \in DOMAIN (a \o b) /\ (a \o b)[i] = a[i]
  OBVIOUS
<1>2. ASSUME NEW i \in DOMAIN b
      PROVE  Len(a) + i \in DOMAIN (a \o b) /\ (a \o b)[Len(a) + i] = b[i]
  OBVIOUS
<1>3. ASSUME NEW i \in DOMAIN (a \o b)
      PROVE  \/ i \in DOMAIN a /\ (a \o b)[i] = a[i]
             \/ i - Len(a) \in DOMAIN b /\ (a \o b)[i] = b[i - Len(a)]
  OBVIOUS
<1>4. x \in Range(a) => x \in Range(a \o b)
  BY <1>1 DEF Range
<1>5. x \in Range(b) => x \in Range(a \o b)
  <2> SUFFICES ASSUME NEW i \in DOMAIN b, x = b[i] PROVE x \in Range(a \o b)
    BY DEF Range
  <2> QED
    BY <1>2 DEF Range
<1>6. x \in Range(a \o b) => x \in Range(a) \/ x \in Range(b)
  <2> SUFFICES ASSUME NEW i \in DOMAIN (a \o b), x = (a \o b)[i]
               PROVE  x \in Range(a) \/ x \in Range(b)
    BY DEF Range
  <2> QED
    BY <1>3 DEF Range
<1> QED
  BY <1>4, <1>5, <1>6

(* FlattenSeq appends the lists one after the other.                         *)
Appending(f, s, m) == f = [i \in 1..m |-> IF i = 1 THEN s[i] ELSE f[i - 1] \o s[i]]

LEMMA AppendingExists ==
  ASSUME NEW T, NEW s \in Seq(Seq(T))
  PROVE  \E f : Appending(f, s, Len(s))
<1> DEFINE S == { m \in Nat : \E f : Appending(f, s, m) }
<1>1. 0 \in S
  <2>1. Appending([i \in 1..0 |-> 0], s, 0)
    BY DEF Appending
  <2> QED
    BY <2>1
<1>2. ASSUME NEW m \in 0..Len(s) - 1, m \in S PROVE m + 1 \in S
  <2>1. PICK f : Appending(f, s, m)
    BY <1>2
  <2> DEFINE g == [i \in 1..m + 1 |-> IF i = 1 THEN s[i] ELSE f[i - 1] \o s[i]]
  <2>2. \A i \in 1..m : f[i] = IF i = 1 THEN s[i] ELSE f[i - 1] \o s[i]
    BY <2>1 DEF Appending
  <2>3. \A i \in 1..m + 1 : g[i] = IF i = 1 THEN s[i] ELSE f[i - 1] \o s[i]
    OBVIOUS
  <2>4. \A i \in 1..m : i \in 1..m + 1
    OBVIOUS
  <2>5. \A i \in 1..m : g[i] = f[i]
    <3> HIDE DEF g
    <3> QED
      BY <2>2, <2>3, <2>4, Zenon
  <2>6. \A i \in 1..m + 1 : i # 1 => i - 1 \in 1..m
    OBVIOUS
  <2>7. \A i \in 1..m + 1 : i # 1 => f[i - 1] = g[i - 1]
    <3> HIDE DEF g
    <3> QED
      BY <2>5, <2>6
  <2>8. Appending(g, s, m + 1)
    BY <2>7 DEF Appending
  <2> QED
    BY <2>8
<1> HIDE DEF S
<1>3. Len(s) \in Nat
  OBVIOUS
<1>4. \A i \in 0..Len(s) - 1 : i \in S => i + 1 \in S
  BY <1>2
<1>5. 0..Len(s) \subseteq S
  BY <1>1, <1>3, <1>4, UpTo
<1>6. Len(s) \in S
  BY <1>3, <1>5
<1> QED
  BY <1>6 DEF S

LEMMA FlattenIsUnion ==
  ASSUME NEW T, NEW s \in Seq(Seq(T)), Len(s) > 0
  PROVE  /\ FlattenSeq(s) \in Seq(T)
         /\ \A x : x \in Range(FlattenSeq(s)) <=> \E i \in 1..Len(s) : x \in Range(s[i])
<1> DEFINE flat == CHOOSE f : Appending(f, s, Len(s))
<1>1. FlattenSeq(s) = flat[Len(s)]
  BY DEF FlattenSeq, Appending
<1>2. Appending(flat, s, Len(s))
  BY AppendingExists
<1> HIDE DEF flat
<1>3. \A i \in 1..Len(s) : flat[i] = IF i = 1 THEN s[i] ELSE flat[i - 1] \o s[i]
  BY <1>2 DEF Appending
<1> DEFINE Right(m) ==
             /\ flat[m] \in Seq(T)
             /\ \A x : x \in Range(flat[m]) <=> \E i \in 1..m : x \in Range(s[i])
           S == { m \in Nat : Right(m + 1) }
<1>4. 0 \in S
  <2>1. flat[1] = s[1] /\ s[1] \in Seq(T)
    BY <1>3
  <2>2. 1..1 = {1} /\ 0 + 1 = 1
    OBVIOUS
  <2>3. Right(1)
    BY <2>1, <2>2
  <2> QED
    BY <2>2, <2>3
<1>5. ASSUME NEW l \in 0..(Len(s) - 1) - 1, l \in S PROVE l + 1 \in S
  <2> DEFINE m == l + 1
             n == l + 2
  <2>1. m \in Nat /\ n \in 2..Len(s) /\ n \in 1..Len(s) /\ n - 1 = m /\ m + 1 = n /\ n # 1
    OBVIOUS
  <2>2. Right(m)
    BY <1>5
  <2> HIDE DEF m, n, Right
  <2>3. flat[n] = flat[m] \o s[n] /\ s[n] \in Seq(T)
    <3>1. flat[n] = IF n = 1 THEN s[n] ELSE flat[n - 1] \o s[n]
      BY <1>3, <2>1, Zenon
    <3>2. s[n] \in Seq(T)
      BY <2>1
    <3> QED
      BY <2>1, <3>1, <3>2
  <2>4. flat[m] \in Seq(T) /\ \A x : x \in Range(flat[m]) <=> \E i \in 1..m : x \in Range(s[i])
    BY <2>2 DEF Right
  <2>5. flat[n] \in Seq(T)
    BY <2>3, <2>4
  <2>6. \A x : x \in Range(flat[m] \o s[n]) <=> x \in Range(flat[m]) \/ x \in Range(s[n])
    BY <2>3, <2>4, RangeOfConcat
  <2>7. \A i : i \in 1..n <=> i \in 1..m \/ i = n
    BY <2>1
  <2>8. Right(n)
    BY <2>3, <2>4, <2>5, <2>6, <2>7 DEF Right
  <2>9. m + 1 = n /\ m = l + 1 /\ m \in Nat
    BY <2>1 DEF m
  <2> QED
    BY <2>8, <2>9
<1> HIDE DEF S, Right
<1>6. Len(s) - 1 \in Nat /\ (Len(s) - 1) + 1 = Len(s)
  OBVIOUS
<1>7. \A i \in 0..(Len(s) - 1) - 1 : i \in S => i + 1 \in S
  BY <1>5
<1>8. 0..Len(s) - 1 \subseteq S
  BY <1>4, <1>6, <1>7, UpTo
<1>9. Len(s) - 1 \in S
  BY <1>6, <1>8
<1>10. Right(Len(s))
  BY <1>6, <1>9 DEF S
<1> QED
  BY <1>1, <1>10 DEF Right

(* The candidates are the key files of the game or of every game.            *)
LEMMA CandidateKeys ==
  ASSUME NEW g \in Games
  PROVE  /\ KeysOf(g) \in Seq(Games \X KeyFiles)
         /\ \A i \in DOMAIN KeysOf(g) :
              KeysOf(g)[i][1] = g /\ KeysOf(g)[i][2] \in Range(Pem[g])
         /\ \A k \in Range(Pem[g]) : \E i \in DOMAIN KeysOf(g) : KeysOf(g)[i][2] = k
<1>1. Pem[g] \in Seq(Nat \ {0})
  BY KeysAssumption DEF Games
<1>2. \A i \in DOMAIN Pem[g] : Pem[g][i] \in Range(Pem[g]) /\ Pem[g][i] \in KeyFiles
  BY DEF KeyFiles, Range
<1>3. /\ DOMAIN KeysOf(g) = DOMAIN Pem[g]
      /\ \A i \in DOMAIN Pem[g] : KeysOf(g)[i] = <<g, Pem[g][i]>>
  BY DEF KeysOf
<1>4. KeysOf(g) \in Seq(Games \X KeyFiles)
  BY <1>1, <1>2 DEF KeysOf
<1>5. \A k \in Range(Pem[g]) : \E i \in DOMAIN Pem[g] : Pem[g][i] = k
  BY DEF Range
<1> QED
  BY <1>2, <1>3, <1>4, <1>5

LEMMA EveryKey ==
  /\ AllKeys \in Seq(Games \X KeyFiles)
  /\ \A i \in DOMAIN AllKeys : AllKeys[i][2] \in Range(Pem[AllKeys[i][1]])
  /\ \A k \in KeyFiles : \E i \in DOMAIN AllKeys : AllKeys[i][2] = k
<1> DEFINE lists == [g \in Games |-> KeysOf(g)]
<1>1. lists \in Seq(Seq(Games \X KeyFiles)) /\ Len(lists) = Len(Pem) /\ Len(Pem) \in Nat
  BY CandidateKeys, KeysAssumption DEF Games
<1>2. CASE Len(lists) = 0
  <2>1. AllKeys = <<>> /\ Games = {}
    BY <1>1, <1>2 DEF AllKeys, FlattenSeq, Games
  <2> QED
    BY <2>1 DEF KeyFiles
<1>3. CASE Len(lists) > 0
  <2>1. /\ AllKeys \in Seq(Games \X KeyFiles)
        /\ \A x : x \in Range(AllKeys) <=> \E g \in Games : x \in Range(KeysOf(g))
    <3>1. \A g \in Games : lists[g] = KeysOf(g)
      OBVIOUS
    <3>2. AllKeys = FlattenSeq(lists) /\ Games = 1..Len(lists)
      BY <1>1 DEF AllKeys, Games
    <3> HIDE DEF lists
    <3> QED
      BY <1>1, <1>3, <3>1, <3>2, FlattenIsUnion
  <2>2. ASSUME NEW i \in DOMAIN AllKeys PROVE AllKeys[i][2] \in Range(Pem[AllKeys[i][1]])
    <3>1. PICK g \in Games : AllKeys[i] \in Range(KeysOf(g))
      BY <2>1 DEF Range
    <3>2. PICK j \in DOMAIN KeysOf(g) : AllKeys[i] = KeysOf(g)[j]
      BY <3>1 DEF Range
    <3>3. KeysOf(g)[j][1] = g /\ KeysOf(g)[j][2] \in Range(Pem[g])
      BY CandidateKeys
    <3> QED
      BY <3>2, <3>3
  <2>3. ASSUME NEW k \in KeyFiles PROVE \E i \in DOMAIN AllKeys : AllKeys[i][2] = k
    <3>1. PICK g \in Games : k \in Range(Pem[g])
      BY DEF KeyFiles
    <3>2. PICK j \in DOMAIN KeysOf(g) : KeysOf(g)[j][2] = k
      BY <3>1, CandidateKeys
    <3>3. KeysOf(g)[j] \in Range(AllKeys)
      BY <2>1, <3>2 DEF Range
    <3> QED
      BY <3>2, <3>3 DEF Range
  <2> QED
    BY <2>1, <2>2, <2>3
<1> QED
  BY <1>1, <1>2, <1>3

-----------------------------------------------------------------------------
LEMMA HeadOrTail ==
  ASSUME NEW S, NEW s \in Seq(S), NEW x, x \in Range(s)
  PROVE  s # <<>> /\ (x = Head(s) \/ x \in Range(Tail(s)))
<1>1. PICK i \in DOMAIN s : x = s[i]
  BY DEF Range
<1>2. i = 1 \/ (i - 1 \in DOMAIN Tail(s) /\ Tail(s)[i - 1] = s[i])
  BY <1>1
<1> QED
  BY <1>1, <1>2 DEF Range

LEMMA InitIInv == Init => IInv
<1> SUFFICES ASSUME Init PROVE IInv
  OBVIOUS
<1> USE DEF Init
<1>1. args \in Seq(Paths) /\ request \in Nat
  BY KeysAssumption
<1>2. Types
  <2>1. todo \in Seq(Given)
    BY <1>1, ArchivePathsIsSeq DEF Given
  <2> QED
    BY <1>1, <2>1 DEF Types, Given
<1>3. Phases
  BY DEF Phases, NoReader
<1>4. CandidatesOfGame
  BY DEF CandidatesOfGame, NoGame
<1>5. FitsAreOfGame
  BY DEF FitsAreOfGame
<1>6. ReaderReads /\ DecryptsInPlace /\ OthersKeysDoNoHarm
  BY DEF ReaderReads, NoReader, DecryptsInPlace, OthersKeysDoNoHarm
<1>7. NoneLeftOut
  <2> SUFFICES ASSUME NEW a \in Given
               PROVE  todo # <<>> /\ (a = Head(todo) \/ a \in Range(Tail(todo)))
    BY DEF NoneLeftOut
  <2>1. todo \in Seq(Given) /\ a \in Range(todo)
    BY <1>2 DEF Types, Given
  <2> QED
    BY <2>1, HeadOrTail
<1> QED
  BY <1>2, <1>3, <1>4, <1>5, <1>6, <1>7 DEF IInv

(* When an archive is left, the next one has not been tried.                 *)
LEMMA LeavingOne ==
  ASSUME IInv, UNCHANGED <<env, status, game>>, NextArchive,
         status = "match", todo # <<>>, DOMAIN by_path \subseteq DOMAIN by_path',
         \/ Head(todo) \in DOMAIN by_path'
         \/ tried /\ queue = <<>>
  PROVE  NoneLeftOut'
<1>1. /\ header' = header /\ Given' = Given /\ OfGame' = OfGame
      /\ todo' = Tail(todo) /\ ~tried' /\ status' = "match"
  BY DEF env, Given, OfGame, NextArchive
<1>2. Tail(todo) \in Seq(Given)
  BY DEF IInv, Types
<1>3. ASSUME NEW a \in Given \ DOMAIN by_path'
      PROVE  \/ ~IsPlain(header[a]) /\ \A k \in OfGame : ~IsHeader(header[a], k)
             \/ a \in Range(Tail(todo))
  <2>1. a \in Given \ DOMAIN by_path
    BY <1>3
  <2>2. \/ ~IsPlain(header[a]) /\ \A k \in OfGame : ~IsHeader(header[a], k)
        \/ a \in Range(Tail(todo))
        \/ a = Head(todo) /\ ~tried
        \/ /\ a = Head(todo) /\ tried /\ ~IsPlain(header[a])
           /\ \A k \in OfGame : IsHeader(header[a], k) =>
                \E i \in DOMAIN queue : queue[i][2] = k
    BY <2>1 DEF IInv, NoneLeftOut
  <2>3. DOMAIN <<>> = {}
    OBVIOUS
  <2> QED
    BY <1>3, <2>2, <2>3, Zenon
<1>4. ASSUME NEW a \in Given, a \in Range(Tail(todo))
      PROVE  todo' # <<>> /\ (a = Head(todo') \/ a \in Range(Tail(todo')))
  BY <1>1, <1>2, <1>4, HeadOrTail
<1> QED
  BY <1>1, <1>3, <1>4 DEF NoneLeftOut

(* An archive that needs no key is matched before any is tried.              *)
LEMMA MatchPlainStep == IInv /\ MatchPlain => IInv'
<1> SUFFICES ASSUME IInv, MatchPlain PROVE IInv'
  OBVIOUS
<1> USE DEF IInv, MatchPlain, NextArchive, env
<1>1. Given' = Given /\ tried' = FALSE /\ todo' = Tail(todo)
  BY DEF Given
<1>2. Head(todo) \in Given /\ Tail(todo) \in Seq(Given) /\ Range(Tail(todo)) \subseteq Given
  BY DEF Types, Range
<1>3. /\ DOMAIN by_path' = DOMAIN by_path \cup {Head(todo)}
      /\ \A a \in DOMAIN by_path' :
           by_path'[a] = IF a = Head(todo) THEN Plaintext ELSE by_path[a]
      /\ by_path' \in [DOMAIN by_path' -> KeyFiles \cup {Plaintext}]
  BY DEF Types, Inserted
<1>4. Types'
  BY <1>1, <1>2, <1>3 DEF Types
<1>5. queue = <<>> /\ reader = NoReader
  BY DEF Phases
<1>6. Phases'
  BY <1>1, <1>5 DEF Phases
<1>7. CandidatesOfGame'
  BY DEF CandidatesOfGame
<1>8. FitsAreOfGame'
  BY <1>3, <1>5 DEF FitsAreOfGame
<1>9. ReaderReads' /\ DecryptsInPlace' /\ OthersKeysDoNoHarm'
  BY <1>5 DEF ReaderReads, DecryptsInPlace, OthersKeysDoNoHarm
<1>10. NoneLeftOut'
  BY <1>3, LeavingOne
<1> QED
  BY <1>4, <1>6, <1>7, <1>8, <1>9, <1>10

LEMMA LeaveArchiveStep == IInv /\ LeaveArchive => IInv'
<1> SUFFICES ASSUME IInv, LeaveArchive PROVE IInv'
  OBVIOUS
<1> USE DEF IInv, LeaveArchive, NextArchive, env
<1>1. Given' = Given /\ tried' = FALSE /\ todo' = Tail(todo) /\ todo # <<>>
  BY DEF Given, Phases
<1>2. Types'
  BY <1>1 DEF Types
<1>3. reader = NoReader
  BY DEF Phases
<1>4. Phases'
  BY <1>1, <1>3 DEF Phases
<1>5. CandidatesOfGame' /\ FitsAreOfGame'
  BY DEF CandidatesOfGame, FitsAreOfGame
<1>6. ReaderReads' /\ DecryptsInPlace' /\ OthersKeysDoNoHarm'
  BY <1>3 DEF ReaderReads, DecryptsInPlace, OthersKeysDoNoHarm
<1>7. NoneLeftOut'
  BY <1>1, LeavingOne
<1> QED
  BY <1>2, <1>4, <1>5, <1>6, <1>7

(* The candidates of an archive are those of the mount's game, once known.   *)
LEMMA ListCandidatesStep == IInv /\ ListCandidates => IInv'
<1> SUFFICES ASSUME IInv, ListCandidates PROVE IInv'
  OBVIOUS
<1> USE DEF IInv, ListCandidates, env
<1>1. Given' = Given /\ OfGame' = OfGame /\ IndexNow \in Games \cup {NoGame}
  BY DEF Given, OfGame, IndexNow, CandidatesOfGame
<1>2. /\ IndexNow # NoGame => IndexNow = game /\ game \in Games
      /\ game \in Games => IndexNow = game
  BY DEF IndexNow, CandidatesOfGame, NoGame, Games
<1>3. /\ Candidates \in Seq(Games \X KeyFiles)
      /\ \A i \in DOMAIN Candidates : Candidates[i][2] \in Range(Pem[Candidates[i][1]])
      /\ game \in Games => \A i \in DOMAIN Candidates : Candidates[i][1] = game
      /\ \A k \in OfGame : \E i \in DOMAIN Candidates : Candidates[i][2] = k
  <2>1. CASE IndexNow = NoGame
    <3>1. Candidates = AllKeys /\ OfGame = KeyFiles /\ game \notin Games
      BY <1>2, <2>1 DEF Candidates, OfGame, NoGame, Games
    <3> QED
      BY <3>1, EveryKey
  <2>2. CASE IndexNow # NoGame
    <3>1. Candidates = KeysOf(game) /\ game \in Games /\ OfGame = Range(Pem[game])
      BY <1>2, <2>2 DEF Candidates, OfGame
    <3>2. /\ KeysOf(game) \in Seq(Games \X KeyFiles)
          /\ \A i \in DOMAIN KeysOf(game) :
               KeysOf(game)[i][1] = game /\ KeysOf(game)[i][2] \in Range(Pem[game])
          /\ \A k \in Range(Pem[game]) : \E i \in DOMAIN KeysOf(game) : KeysOf(game)[i][2] = k
      BY <3>1, CandidateKeys
    <3> QED
      BY <3>1, <3>2
  <2> QED
    BY <2>1, <2>2
<1>4. queue' = Candidates /\ index' = IndexNow /\ tried' = TRUE
  OBVIOUS
<1> HIDE DEF ListCandidates
<1>u. /\ UNCHANGED <<header, args, good, request, status, todo, reader, game, cache,
                     by_path, bytes, block>>
      /\ status = "match" /\ todo # <<>> /\ ~tried /\ ~IsPlain(header[Head(todo)])
  BY DEF ListCandidates
<1>5. Types'
  BY <1>1, <1>3, <1>4, <1>u DEF Types
<1>6. reader = NoReader
  BY <1>u DEF Phases
<1>7. Phases'
  BY <1>4, <1>6, <1>u DEF Phases
<1>8. CandidatesOfGame'
  BY <1>2, <1>3, <1>4, <1>u DEF CandidatesOfGame, Games, NoGame
<1>9. FitsAreOfGame'
  BY <1>3, <1>4, <1>u DEF FitsAreOfGame
<1>10. ReaderReads' /\ DecryptsInPlace' /\ OthersKeysDoNoHarm'
  BY <1>6, <1>u DEF ReaderReads, DecryptsInPlace, OthersKeysDoNoHarm
<1>11. NoneLeftOut'
  BY <1>1, <1>3, <1>4, <1>u DEF NoneLeftOut
<1> QED
  BY <1>5, <1>7, <1>8, <1>9, <1>10, <1>11

(* A key file that does not decode ends the mount; those of other games than *)
(* the one given are not candidates.                                         *)
LEMMA DecodeFailsStep == IInv /\ DecodeFails => IInv'
<1> SUFFICES ASSUME IInv, DecodeFails PROVE IInv'
  OBVIOUS
<1> USE DEF IInv, DecodeFails, Fail, env, matching
<1>1. Given' = Given /\ status' = "err" /\ reader = NoReader
  BY DEF Given
<1>2. Types' /\ CandidatesOfGame' /\ FitsAreOfGame'
  BY <1>1 DEF Types, CandidatesOfGame, FitsAreOfGame
<1>3. Phases'
  BY <1>1 DEF Phases
<1>4. ReaderReads' /\ DecryptsInPlace' /\ NoneLeftOut'
  BY <1>1 DEF ReaderReads, DecryptsInPlace, NoneLeftOut
<1>5. ASSUME request \in Games PROVE \E k \in Range(Pem[request]) : k \notin good
  <2>1. 1 \in DOMAIN queue /\ queue[1] = Head(queue)
    BY DEF Types
  <2>2. queue[1][1] = request /\ queue[1][2] \in Range(Pem[queue[1][1]])
    BY <1>5, <2>1 DEF CandidatesOfGame
  <2> QED
    BY <2>1, <2>2
<1>6. OthersKeysDoNoHarm'
  BY <1>5 DEF OthersKeysDoNoHarm
<1> QED
  BY <1>2, <1>3, <1>4, <1>6

(* The first of the candidates, and the archive it is tried on.              *)
LEMMA FirstCandidate ==
  ASSUME IInv, queue # <<>>, status = "match"
  PROVE  /\ candidate = queue[1] /\ 1 \in DOMAIN queue
         /\ candidate[1] \in Games /\ candidate[2] \in KeyFiles
         /\ candidate[2] \in Range(Pem[candidate[1]])
         /\ todo # <<>> /\ tried /\ Head(todo) \in Given /\ tested \in Headers
         /\ OutLen(candidate[2]) \in Nat \ {0}
<1> USE DEF IInv, candidate, tested
<1>1. candidate = queue[1] /\ 1 \in DOMAIN queue /\ queue[1] \in Games \X KeyFiles
  BY DEF Types
<1>2. candidate[2] \in Range(Pem[candidate[1]])
  BY <1>1 DEF CandidatesOfGame
<1>3. tried /\ todo # <<>>
  BY DEF Phases
<1>4. Head(todo) \in Given /\ tested \in Headers
  BY <1>3 DEF Types
<1>5. OutLen(candidate[2]) \in Nat \ {0}
  BY <1>1, KeysAssumption DEF OutLen
<1> QED
  BY <1>1, <1>2, <1>3, <1>4, <1>5

LEMMA OutLenIs == \A k \in KeyFiles : OutLen(k) \in Nat \ {0} /\ BlockLen[k] = OutLen(k) + 1
BY KeysAssumption DEF OutLen

LEMMA OpenReads == \A h : \A k \in KeyFiles : ReadsBlocks(Open, h, k)
<1> SUFFICES ASSUME NEW h, NEW k \in KeyFiles PROVE ReadsBlocks(Open, h, k)
  OBVIOUS
<1>1. Open.block = 0 /\ Open.out = <<>> /\ Open.got = <<>> /\ IsReader(Open)
  BY DEF Open, IsReader
<1>2. GivenOut(h, k, 0) = <<>> /\ 0 \in 0..HeaderLen /\ 0 = 0 * OutLen(k)
  BY KeysAssumption DEF GivenOut, OutLen
<1> QED
  BY <1>1, <1>2 DEF ReadsBlocks

LEMMA GivenOutLen == \A h, k : \A n \in Nat : Len(GivenOut(h, k, n)) = n
BY DEF GivenOut

LEMMA ConcatOf ==
  ASSUME NEW T, NEW n \in Nat, NEW m \in Nat, NEW a \in [1..n -> T], NEW b \in [1..m -> T]
  PROVE  /\ a \o b \in [1..n + m -> T]
         /\ \A p \in 1..n : (a \o b)[p] = a[p]
         /\ \A i \in 1..m : (a \o b)[n + i] = b[i]
<1>1. a \in Seq(T) /\ b \in Seq(T) /\ Len(a) = n /\ Len(b) = m
  OBVIOUS
<1>2. /\ a \o b \in Seq(T) /\ Len(a \o b) = n + m
      /\ \A i \in 1..n + m : (a \o b)[i] = IF i <= n THEN a[i] ELSE b[i - n]
  BY <1>1, ConcatProperties
<1>3. a \o b \in [1..n + m -> T]
  BY <1>2, LenProperties
<1>4. ASSUME NEW i \in 1..m PROVE (a \o b)[n + i] = b[i]
  <2>1. n + i \in 1..n + m /\ ~(n + i <= n) /\ (n + i) - n = i
    OBVIOUS
  <2> QED
    BY <1>2, <2>1
<1> QED
  BY <1>2, <1>3, <1>4

LEMMA PrefixOf ==
  ASSUME NEW T, NEW n \in Nat, NEW b \in [1..n -> T], NEW m \in 0..n
  PROVE  /\ SubSeq(b, 1, m) \in [1..m -> T]
         /\ \A i \in 1..m : SubSeq(b, 1, m)[i] = b[i]
<1>1. \A i \in 1..m : b[i] \in T
  OBVIOUS
<1>2. /\ SubSeq(b, 1, m) \in Seq(T)
      /\ Len(SubSeq(b, 1, m)) = IF 1 <= m THEN m - 1 + 1 ELSE 0
      /\ \A i \in 1..m - 1 + 1 : SubSeq(b, 1, m)[i] = b[1 + i - 1]
  BY <1>1, SubSeqProperties
<1>3. m - 1 + 1 = m /\ \A i \in 1..m : 1 + i - 1 = i
  OBVIOUS
<1>4. Len(SubSeq(b, 1, m)) = m
  BY <1>2
<1>5. SubSeq(b, 1, m) \in [1..m -> T]
  BY <1>2, <1>4, LenProperties
<1>6. ASSUME NEW i \in 1..m PROVE SubSeq(b, 1, m)[i] = b[i]
  BY <1>2, <1>3
<1> QED
  BY <1>5, <1>6

(* The next bytes of the next block go on where the blocks given out end.    *)
Blocks(fit, o, n) == [p \in 1..n |-> <<fit, 1 + (p - 1) \div o, 1 + ((p - 1) % o)>>]
BlockAt(fit, o, j) == [p \in 1..o |-> <<fit, j, p>>]

LEMMA BlocksGrow ==
  ASSUME NEW fit, NEW o \in Nat \ {0}, NEW b \in Nat, NEW m \in 0..o
  PROVE  Blocks(fit, o, b * o) \o SubSeq(BlockAt(fit, o, b + 1), 1, m)
           = Blocks(fit, o, b * o + m)
<1> DEFINE T == {fit} \X Int \X Int
           n == b * o
           first == Blocks(fit, o, n)
           next == SubSeq(BlockAt(fit, o, b + 1), 1, m)
           At(p) == <<fit, 1 + (p - 1) \div o, 1 + ((p - 1) % o)>>
<1>1. n \in Nat /\ m \in Nat
  OBVIOUS
<1> HIDE DEF n
<1>2. first \in [1..n -> T] /\ \A p \in 1..n : first[p] = At(p)
  BY <1>1 DEF Blocks
<1>3. BlockAt(fit, o, b + 1) \in [1..o -> T]
  BY DEF BlockAt
<1>4. next \in [1..m -> T] /\ \A i \in 1..m : next[i] = BlockAt(fit, o, b + 1)[i]
  <2> HIDE DEF T
  <2> QED
    BY <1>3, PrefixOf
<1>5. \A i \in 1..m : next[i] = <<fit, b + 1, i>>
  BY <1>4 DEF BlockAt
<1>6. \A i \in 1..m : At(n + i) = <<fit, b + 1, i>>
  <2> SUFFICES ASSUME NEW i \in 1..m PROVE At(n + i) = <<fit, b + 1, i>>
    OBVIOUS
  <2>1. (b * o + i - 1) \div o = b /\ (b * o + i - 1) % o = i - 1
    BY ByteOfBlock
  <2>2. 1 + (n + i - 1) \div o = b + 1 /\ 1 + ((n + i - 1) % o) = i
    BY <2>1 DEF n
  <2> DEFINE d == 1 + (n + i - 1) \div o
             r == 1 + ((n + i - 1) % o)
  <2>3. At(n + i) = <<fit, d, r>>
    BY <1>1
  <2>4. d = b + 1 /\ r = i
    BY <2>2
  <2> HIDE DEF d, r, At
  <2> QED
    BY <2>3, <2>4
<1> HIDE DEF first, next, T
<1>7. /\ first \o next \in [1..n + m -> T]
      /\ \A p \in 1..n : (first \o next)[p] = first[p]
      /\ \A i \in 1..m : (first \o next)[n + i] = next[i]
  <2>1. first \in [1..n -> T] /\ next \in [1..m -> T]
    BY <1>2, <1>4
  <2>2. first \o next \in [1..n + m -> T]
    BY <1>1, <2>1, ConcatOf
  <2>3. \A p \in 1..n : (first \o next)[p] = first[p]
    BY <1>1, <2>1, ConcatOf
  <2>4. \A i \in 1..m : (first \o next)[n + i] = next[i]
    BY <1>1, <2>1, ConcatOf
  <2> QED
    BY <2>2, <2>3, <2>4
<1>8. ASSUME NEW p \in 1..n + m PROVE (first \o next)[p] = At(p)
  <2>1. CASE p \in 1..n
    BY <1>2, <1>7, <2>1
  <2>2. CASE p - n \in 1..m
    <3>1. n + (p - n) = p
      BY <1>1
    <3>2. (first \o next)[n + (p - n)] = next[p - n]
      BY <1>7, <2>2
    <3>3. next[p - n] = At(n + (p - n))
      BY <1>5, <1>6, <2>2
    <3> QED
      BY <3>1, <3>2, <3>3
  <2>3. p \in 1..n \/ p - n \in 1..m
    BY <1>1
  <2> QED
    BY <2>1, <2>2, <2>3
<1>9. first \o next = Blocks(fit, o, n + m)
  BY <1>7, <1>8 DEF Blocks
<1> QED
  BY <1>9 DEF first, next, n

LEMMA BlocksOfKey ==
  \A h, k : /\ \A n : GivenOut(h, k, n) = Blocks(k \in h.key, OutLen(k), n)
            /\ \A j : Decrypt(h, k, j) = BlockAt(k \in h.key, OutLen(k), j)
            /\ HeaderOf(k) = Blocks(TRUE, OutLen(k), HeaderLen)
BY DEF GivenOut, Blocks, Decrypt, BlockAt, HeaderOf

LEMMA BlocksLen == \A fit, o : \A n \in Nat :
  Len(Blocks(fit, o, n)) = n /\ (n = 0 => Blocks(fit, o, n) = <<>>)
BY DEF Blocks

LEMMA BlocksType ==
  ASSUME NEW fit, NEW o \in Nat \ {0}, NEW n \in Nat
  PROVE  Blocks(fit, o, n) \in [1..n -> {fit} \X Int \X Int]
BY DEF Blocks

LEMMA BlockAtLen ==
  ASSUME NEW fit, NEW o \in Nat, NEW j
  PROVE  /\ Len(BlockAt(fit, o, j)) = o
         /\ SubSeq(BlockAt(fit, o, j), 1, o) = BlockAt(fit, o, j)
<1> DEFINE b == BlockAt(fit, o, j)
<1>1. b \in [1..o -> {fit} \X {j} \X Int] /\ o \in 0..o
  BY DEF BlockAt
<1>2. Len(b) = o
  BY DEF BlockAt
<1> HIDE DEF b
<1>3. SubSeq(b, 1, o) \in [1..o -> {fit} \X {j} \X Int]
  BY <1>1, PrefixOf
<1>4. \A i \in 1..o : SubSeq(b, 1, o)[i] = b[i]
  BY <1>1, PrefixOf
<1>5. SubSeq(b, 1, o) = b
  BY <1>1, <1>3, <1>4
<1> QED
  BY <1>2, <1>5 DEF b

(* What is left of a block is more than the caller has room for.             *)
LEMMA ReadingBuffered ==
  ASSUME NEW r, NEW h, NEW k \in KeyFiles, NEW n,
         ReadsBlocks(r, h, k), Len(r.got) < HeaderLen, r.out # <<>>,
         n = Min({Len(r.out), HeaderLen - Len(r.got)})
  PROVE  ReadsBlocks([r EXCEPT !.got = @ \o SubSeq(r.out, 1, n),
                               !.out = SubSeq(@, n + 1, Len(@))], h, k)
<1> DEFINE fit == k \in h.key
           o == OutLen(k)
           b == r.block - 1
           r2 == [r EXCEPT !.got = @ \o SubSeq(r.out, 1, n),
                           !.out = SubSeq(@, n + 1, Len(@))]
<1>1. o \in Nat \ {0} /\ HeaderLen \in Nat
  BY OutLenIs, KeysAssumption
<1>2. PICK m \in 0..HeaderLen :
        /\ r.got = GivenOut(h, k, m)
        /\ \/ m = HeaderLen
           \/ r.out = <<>> /\ m = r.block * OutLen(k)
           \/ /\ r.out = Decrypt(h, k, r.block) /\ m = (r.block - 1) * OutLen(k)
              /\ r.block > 0 /\ m + OutLen(k) > HeaderLen
  BY DEF ReadsBlocks
<1>3. r.got = Blocks(fit, o, m) /\ Len(r.got) = m
  BY <1>1, <1>2, BlocksOfKey, BlocksLen
<1>4. /\ r.out = Decrypt(h, k, r.block) /\ m = b * o
      /\ b \in Nat /\ b + 1 = r.block /\ m + o > HeaderLen /\ m < HeaderLen
  <2>1. r.block \in Nat /\ m # HeaderLen /\ m < HeaderLen
    BY <1>1, <1>3 DEF ReadsBlocks
  <2>2. /\ r.out = Decrypt(h, k, r.block) /\ m = (r.block - 1) * OutLen(k)
        /\ r.block > 0 /\ m + OutLen(k) > HeaderLen
    BY <1>2, <2>1
  <2> QED
    BY <2>1, <2>2
<1> HIDE DEF fit, o, b
<1>5. r.out = BlockAt(fit, o, b + 1)
  BY <1>4, BlocksOfKey DEF fit, o
<1>6. Len(r.out) = o
  BY <1>1, <1>5, BlockAtLen
<1>7. n = HeaderLen - m /\ n \in 0..o
  <2>1. HeaderLen - m \in Nat /\ HeaderLen - m <= o
    BY <1>1, <1>2, <1>4
  <2> QED
    BY <1>1, <1>3, <1>6, <2>1, MinOfTwo
<1>8. r.got \o SubSeq(r.out, 1, n) = Blocks(fit, o, b * o + n)
  <2>1. Blocks(fit, o, b * o) \o SubSeq(BlockAt(fit, o, b + 1), 1, n)
          = Blocks(fit, o, b * o + n)
    BY <1>1, <1>4, <1>7, BlocksGrow
  <2> QED
    BY <1>3, <1>4, <1>5, <2>1, Zenon
<1>9. b * o + n = HeaderLen
  BY <1>1, <1>4, <1>7
<1>10. r2.got = GivenOut(h, k, HeaderLen) /\ r2.block = r.block /\ IsReader(r2)
  <2>1. r = [block |-> r.block, out |-> r.out, got |-> r.got]
    BY DEF ReadsBlocks, IsReader
  <2>2. r2 = [block |-> r.block, out |-> SubSeq(r.out, n + 1, Len(r.out)),
              got |-> r.got \o SubSeq(r.out, 1, n)]
    <3>1. PICK x, y, z : r = [block |-> x, out |-> y, got |-> z]
      BY <2>1
    <3>2. r.block = x /\ r.out = y /\ r.got = z
      BY <3>1
    <3> DEFINE u == r.got \o SubSeq(r.out, 1, n)
               v == SubSeq(r.out, n + 1, Len(r.out))
    <3>3. r2 = [r EXCEPT !.got = u, !.out = v]
      OBVIOUS
    <3> HIDE DEF u, v, r2
    <3>4. r2 = [block |-> x, out |-> v, got |-> u]
      BY <3>1, <3>3
    <3> QED
      BY <3>2, <3>4 DEF u, v
  <2> HIDE DEF r2
  <2>3. r2.got = Blocks(fit, o, HeaderLen) /\ r2.block = r.block /\ IsReader(r2)
    BY <2>2, <1>8, <1>9 DEF IsReader
  <2> QED
    BY <2>3, BlocksOfKey DEF fit, o
<1> HIDE DEF r2
<1>11. HeaderLen \in 0..HeaderLen /\ r.block \in Nat
  BY <1>1 DEF ReadsBlocks
<1>12. ReadsBlocks(r2, h, k)
  BY <1>10, <1>11 DEF ReadsBlocks
<1> QED
  BY <1>12 DEF r2

(* A whole block goes to the caller if there is room for it.                 *)
LEMMA ReadingBlock ==
  ASSUME NEW r, NEW h, NEW k \in KeyFiles,
         ReadsBlocks(r, h, k), Len(r.got) < HeaderLen, r.out = <<>>
  PROVE  LET plain == Decrypt(h, k, r.block + 1)
             fits == Len(r.got) + Len(plain) <= HeaderLen
         IN  ReadsBlocks([block |-> r.block + 1,
                          out |-> IF fits THEN <<>> ELSE plain,
                          got |-> IF fits THEN r.got \o plain ELSE r.got], h, k)
<1> DEFINE fit == k \in h.key
           o == OutLen(k)
           b == r.block
           plain == Decrypt(h, k, r.block + 1)
           fits == Len(r.got) + Len(plain) <= HeaderLen
           r2 == [block |-> r.block + 1, out |-> IF fits THEN <<>> ELSE plain,
                  got |-> IF fits THEN r.got \o plain ELSE r.got]
<1>1. o \in Nat \ {0} /\ HeaderLen \in Nat /\ b \in Nat
  BY OutLenIs, KeysAssumption DEF ReadsBlocks
<1>2. PICK m \in 0..HeaderLen :
        /\ r.got = GivenOut(h, k, m)
        /\ \/ m = HeaderLen
           \/ r.out = <<>> /\ m = r.block * OutLen(k)
           \/ /\ r.out = Decrypt(h, k, r.block) /\ m = (r.block - 1) * OutLen(k)
              /\ r.block > 0 /\ m + OutLen(k) > HeaderLen
  BY DEF ReadsBlocks
<1>3. r.got = Blocks(fit, o, m) /\ Len(r.got) = m
  BY <1>1, <1>2, BlocksOfKey, BlocksLen
<1>4. plain = BlockAt(fit, o, b + 1) /\ Len(plain) = o
  <2>1. plain = BlockAt(fit, o, b + 1)
    BY BlocksOfKey
  <2> QED
    BY <1>1, <2>1, BlockAtLen
<1>5. r.out # Decrypt(h, k, r.block)
  <2>1. Decrypt(h, k, r.block) = BlockAt(fit, o, b)
    BY BlocksOfKey
  <2>2. Len(BlockAt(fit, o, b)) = o /\ Len(<<>>) = 0
    BY <1>1, BlockAtLen
  <2> QED
    BY <1>1, <2>1, <2>2
<1>6. m = b * o /\ m < HeaderLen
  BY <1>1, <1>2, <1>3, <1>5
<1> HIDE DEF fit, o, b, plain, fits
<1>7. ASSUME fits PROVE ReadsBlocks(r2, h, k)
  <2>1. r2.got = r.got \o plain /\ r2.out = <<>> /\ r2.block = b + 1 /\ IsReader(r2)
    BY <1>7 DEF IsReader, b
  <2>2. SubSeq(plain, 1, o) = plain
    BY <1>1, <1>4, BlockAtLen
  <2>3. o \in 0..o
    BY <1>1
  <2>4. r.got \o SubSeq(plain, 1, o) = Blocks(fit, o, b * o + o)
    <3>1. Blocks(fit, o, b * o) \o SubSeq(BlockAt(fit, o, b + 1), 1, o)
            = Blocks(fit, o, b * o + o)
      BY <1>1, <2>3, BlocksGrow
    <3> QED
      BY <1>3, <1>4, <1>6, <3>1, Zenon
  <2>5. b * o + o = (b + 1) * o /\ (b + 1) * o \in 0..HeaderLen /\ b + 1 \in Nat
    <3>1. m + o <= HeaderLen
      BY <1>3, <1>4, <1>7 DEF fits
    <3>2. b * o + o = (b + 1) * o
      BY <1>1
    <3> QED
      BY <1>1, <1>6, <3>1, <3>2
  <2>6. r2.got = GivenOut(h, k, (b + 1) * o)
    BY <2>1, <2>2, <2>4, <2>5, BlocksOfKey DEF fit, o
  <2> HIDE DEF r2
  <2>7. r2.block = b + 1 /\ (b + 1) * o = r2.block * OutLen(k)
    BY <2>1 DEF o
  <2> QED
    BY <2>1, <2>5, <2>6, <2>7 DEF ReadsBlocks
<1>8. ASSUME ~fits PROVE ReadsBlocks(r2, h, k)
  <2>1. r2.got = r.got /\ r2.out = plain /\ r2.block = b + 1 /\ IsReader(r2)
    BY <1>8 DEF IsReader, b
  <2>2. m + o > HeaderLen /\ m = ((b + 1) - 1) * o /\ b + 1 > 0 /\ b + 1 \in Nat
    BY <1>1, <1>3, <1>4, <1>6, <1>8 DEF fits
  <2>3. plain = Decrypt(h, k, b + 1)
    BY DEF plain, b
  <2> HIDE DEF r2
  <2>4. /\ r2.got = GivenOut(h, k, m) /\ r2.out = Decrypt(h, k, r2.block)
        /\ m = (r2.block - 1) * OutLen(k) /\ r2.block > 0 /\ m + OutLen(k) > HeaderLen
    BY <1>2, <2>1, <2>2, <2>3 DEF o
  <2> QED
    BY <2>1, <2>2, <2>4 DEF ReadsBlocks
<1> HIDE DEF r2
<1>9. ReadsBlocks(r2, h, k)
  BY <1>7, <1>8
<1> QED
  BY <1>9 DEF r2, plain, fits

(* HeaderLen bytes that a key gives are the header's exactly if it fits.     *)
LEMMA HeaderIsRead ==
  ASSUME NEW r, NEW h, NEW k \in KeyFiles, ReadsBlocks(r, h, k), Len(r.got) = HeaderLen
  PROVE  r.got = HeaderOf(k) <=> k \in h.key
<1> DEFINE fit == k \in h.key
           o == OutLen(k)
<1>1. HeaderLen \in Nat /\ 1 \in 1..HeaderLen /\ fit \in BOOLEAN
  BY KeysAssumption
<1>2. r.got = Blocks(fit, o, HeaderLen)
  <2>1. PICK m \in 0..HeaderLen : r.got = GivenOut(h, k, m)
    BY DEF ReadsBlocks
  <2>2. m \in Nat /\ r.got = Blocks(fit, o, m)
    BY <1>1, <2>1, BlocksOfKey
  <2>3. m = HeaderLen
    BY <2>2, BlocksLen
  <2> QED
    BY <2>2, <2>3
<1>3. HeaderOf(k) = Blocks(TRUE, o, HeaderLen)
  BY BlocksOfKey
<1>4. \A x : Blocks(x, o, HeaderLen)[1][1] = x
  BY <1>1 DEF Blocks
<1> HIDE DEF fit, o
<1>5. r.got = HeaderOf(k) => fit = TRUE
  <2>1. Blocks(fit, o, HeaderLen)[1][1] = fit
    BY <1>4
  <2>2. Blocks(TRUE, o, HeaderLen)[1][1] = TRUE
    BY <1>4
  <2> QED
    BY <1>2, <1>3, <2>1, <2>2
<1>6. fit = TRUE => r.got = HeaderOf(k)
  BY <1>2, <1>3, Zenon
<1>7. fit = TRUE <=> fit
  BY <1>1
<1>8. fit <=> k \in h.key
  BY DEF fit
<1> QED
  BY <1>5, <1>6, <1>7, <1>8

(* A key that does not read a header's bytes is none of the header's.        *)
LEMMA HeaderIsNotRead ==
  ASSUME NEW r, NEW h \in Headers, NEW k \in KeyFiles, ReadsBlocks(r, h, k),
         Len(r.got) < HeaderLen, r.out = <<>>, ~CanDecrypt(h, k, r.block + 1)
  PROVE  ~IsHeader(h, k)
<1> DEFINE o == OutLen(k)
           b == r.block
           span == (HeaderLen + o - 1) \div o
<1>1. o \in Nat \ {0} /\ HeaderLen \in Nat /\ b \in Nat /\ BlockLen[k] = o + 1
  BY OutLenIs, KeysAssumption DEF ReadsBlocks
<1>2. PICK m \in 0..HeaderLen :
        /\ r.got = GivenOut(h, k, m)
        /\ \/ m = HeaderLen
           \/ r.out = <<>> /\ m = r.block * OutLen(k)
           \/ /\ r.out = Decrypt(h, k, r.block) /\ m = (r.block - 1) * OutLen(k)
              /\ r.block > 0 /\ m + OutLen(k) > HeaderLen
  BY DEF ReadsBlocks
<1>3. Len(r.got) = m
  <2>1. m \in Nat /\ r.got = Blocks(k \in h.key, o, m)
    BY <1>1, <1>2, BlocksOfKey
  <2> QED
    BY <2>1, BlocksLen
<1>4. r.out # Decrypt(h, k, r.block)
  <2>1. Decrypt(h, k, r.block) = BlockAt(k \in h.key, o, b)
    BY BlocksOfKey
  <2>2. Len(BlockAt(k \in h.key, o, b)) = o /\ Len(<<>>) = 0
    BY <1>1, BlockAtLen
  <2> QED
    BY <1>1, <2>1, <2>2
<1>5. b * o < HeaderLen
  BY <1>1, <1>2, <1>3, <1>4
<1>6. b + 1 <= span
  BY <1>1, <1>5, SpanOf
<1> SUFFICES ASSUME k \in h.key, span <= h.n, h.bad \cap 1..span = {} PROVE FALSE
  BY DEF IsHeader
<1>7. b + 1 \notin h.bad
  <2>1. span \in Nat
    BY <1>1
  <2>2. b + 1 \in 1..span
    BY <1>1, <1>6, <2>1
  <2> QED
    BY <2>2
<1>8. FileLen(h) = h.n * BlockLen[k] + h.tail /\ h.n \in Nat /\ h.tail \in Nat
  <2>1. \A j \in h.key : BlockLen[j] = BlockLen[k]
    BY KeysAssumption
  <2>2. (CHOOSE j \in h.key : TRUE) \in h.key
    OBVIOUS
  <2>3. h.n \in Nat /\ h.tail \in Nat
    BY KeysAssumption
  <2>4. BlockLen[CHOOSE j \in h.key : TRUE] = BlockLen[k]
    BY <2>1, <2>2, Zenon
  <2> QED
    BY <2>3, <2>4 DEF FileLen
<1>9. (b + 1) * BlockLen[k] <= h.n * BlockLen[k]
  <2>1. b + 1 <= h.n /\ span \in Nat
    BY <1>1, <1>6, <1>8
  <2>2. b + 1 \in Nat /\ BlockLen[k] \in Nat
    BY <1>1
  <2> QED
    BY <1>8, <2>1, <2>2, TimesIsMonotone
<1> QED
  BY <1>1, <1>7, <1>8, <1>9 DEF CanDecrypt

LEMMA ReaderIsNotNone == \A r : IsReader(r) => r # NoReader
<1> SUFFICES ASSUME NEW r, IsReader(r), r = <<>> PROVE FALSE
  BY DEF NoReader
<1>1. "block" \in DOMAIN r
  BY DEF IsReader
<1> QED
  BY <1>1

(* A step of the reader changes nothing but the reader and the keys decoded. *)
LEMMA ReaderStep ==
  ASSUME IInv, status = "match", queue # <<>>,
         UNCHANGED <<env, status, todo, queue, tried, game, index, by_path, bytes, block>>,
         ReadsBlocks(reader', tested, candidate[2])
  PROVE  IInv'
<1> USE DEF IInv, env
<1>1. Given' = Given /\ OfGame' = OfGame
  BY DEF Given, OfGame
<1>2. Types' /\ CandidatesOfGame' /\ FitsAreOfGame' /\ Phases'
  BY <1>1 DEF Types, CandidatesOfGame, FitsAreOfGame, Phases
<1>3. ReaderReads'
  BY DEF ReaderReads, tested, candidate
<1>4. DecryptsInPlace'
  BY DEF DecryptsInPlace
<1>5. NoneLeftOut'
  BY <1>1 DEF NoneLeftOut
<1>6. OthersKeysDoNoHarm'
  BY DEF OthersKeysDoNoHarm
<1> QED
  BY <1>2, <1>3, <1>4, <1>5, <1>6

LEMMA OpenKeyStep == IInv /\ OpenKey => IInv'
<1> SUFFICES ASSUME IInv, OpenKey PROVE IInv'
  OBVIOUS
<1>1. candidate[2] \in KeyFiles
  BY FirstCandidate DEF OpenKey
<1>2. ReadsBlocks(reader', tested, candidate[2])
  BY <1>1, OpenReads DEF OpenKey
<1> QED
  BY <1>2, ReaderStep DEF OpenKey

LEMMA WhileReading ==
  ASSUME IInv, reader # NoReader
  PROVE  /\ status = "match" /\ queue # <<>> /\ ReadsBlocks(reader, tested, candidate[2])
         /\ candidate[2] \in KeyFiles /\ tested \in Headers
<1>1. status = "match" /\ queue # <<>> /\ ReadsBlocks(reader, tested, candidate[2])
  BY DEF IInv, Phases, ReaderReads
<1> QED
  BY <1>1, FirstCandidate

LEMMA ReadBufferedStep == IInv /\ ReadBuffered => IInv'
<1> SUFFICES ASSUME IInv, ReadBuffered PROVE IInv'
  OBVIOUS
<1>1. /\ status = "match" /\ queue # <<>> /\ ReadsBlocks(reader, tested, candidate[2])
      /\ candidate[2] \in KeyFiles
  BY WhileReading DEF ReadBuffered, Reading
<1>2. Len(reader.got) < HeaderLen /\ reader.out # <<>>
  BY DEF ReadBuffered, Reading
<1>3. PICK n : /\ n = Min({Len(reader.out), HeaderLen - Len(reader.got)})
               /\ Read([reader EXCEPT !.got = @ \o SubSeq(reader.out, 1, n),
                                      !.out = SubSeq(@, n + 1, Len(@))])
  BY DEF ReadBuffered
<1>4. ReadsBlocks(reader', tested, candidate[2])
  <2>1. ReadsBlocks([reader EXCEPT !.got = @ \o SubSeq(reader.out, 1, n),
                                   !.out = SubSeq(@, n + 1, Len(@))], tested, candidate[2])
    BY <1>1, <1>2, <1>3, ReadingBuffered
  <2> QED
    BY <1>3, <2>1 DEF Read
<1> QED
  BY <1>1, <1>3, <1>4, ReaderStep DEF Read

LEMMA ReadBlockStep == IInv /\ ReadBlock => IInv'
<1> SUFFICES ASSUME IInv, ReadBlock PROVE IInv'
  OBVIOUS
<1>1. /\ status = "match" /\ queue # <<>> /\ ReadsBlocks(reader, tested, candidate[2])
      /\ candidate[2] \in KeyFiles
  BY WhileReading DEF ReadBlock, Reading
<1>2. Len(reader.got) < HeaderLen /\ reader.out = <<>>
  BY DEF ReadBlock, Reading
<1> DEFINE plain == Decrypt(tested, candidate[2], reader.block + 1)
           fits == Len(reader.got) + Len(plain) <= HeaderLen
           r2 == [block |-> reader.block + 1,
                  out |-> IF fits THEN <<>> ELSE plain,
                  got |-> IF fits THEN reader.got \o plain ELSE reader.got]
<1>3. Read(r2)
  BY DEF ReadBlock
<1>4. ReadsBlocks(r2, tested, candidate[2])
  BY <1>1, <1>2, ReadingBlock
<1> HIDE DEF r2
<1>5. ReadsBlocks(reader', tested, candidate[2])
  BY <1>3, <1>4 DEF Read
<1> QED
  BY <1>1, <1>3, <1>5, ReaderStep DEF Read

LEMMA TailOf ==
  ASSUME NEW S, NEW q \in Seq(S), q # <<>>
  PROVE  /\ Tail(q) \in Seq(S)
         /\ \A i \in DOMAIN Tail(q) : i + 1 \in DOMAIN q /\ Tail(q)[i] = q[i + 1]
         /\ \A i \in DOMAIN q : i # 1 => i - 1 \in DOMAIN Tail(q) /\ Tail(q)[i - 1] = q[i]
<1>1. Tail(q) \in Seq(S) /\ Len(Tail(q)) = Len(q) - 1
  OBVIOUS
<1>2. \A i \in 1..Len(Tail(q)) : Tail(q)[i] = q[i + 1]
  OBVIOUS
<1>3. DOMAIN q = 1..Len(q) /\ DOMAIN Tail(q) = 1..Len(Tail(q)) /\ Len(q) \in Nat
  BY <1>1
<1>4. ASSUME NEW i \in DOMAIN Tail(q) PROVE i + 1 \in DOMAIN q /\ Tail(q)[i] = q[i + 1]
  BY <1>1, <1>2, <1>3
<1>5. ASSUME NEW i \in DOMAIN q, i # 1
      PROVE  i - 1 \in DOMAIN Tail(q) /\ Tail(q)[i - 1] = q[i]
  <2>1. i - 1 \in 1..Len(Tail(q)) /\ (i - 1) + 1 = i
    BY <1>1, <1>3, <1>5
  <2> QED
    BY <1>2, <1>3, <2>1
<1> QED
  BY <1>1, <1>4, <1>5

(* The key that has been tried and does not make a header of the file is     *)
(* done with; the archive stays a candidate for those behind it.             *)
LEMMA KeyDoesNotFit ==
  ASSUME IInv, reader # NoReader, NextKey, ~IsHeader(tested, candidate[2]),
         UNCHANGED <<env, status, todo, tried, game, index, cache, by_path, bytes, block>>
  PROVE  IInv'
<1> USE DEF env
<1>1. Given' = Given /\ OfGame' = OfGame /\ queue' = Tail(queue) /\ reader' = NoReader
  BY DEF Given, OfGame, NextKey
<1>2. /\ status = "match" /\ queue # <<>> /\ todo # <<>> /\ tried
      /\ candidate = queue[1] /\ queue \in Seq(Games \X KeyFiles)
  BY WhileReading, FirstCandidate DEF IInv, Types
<1>3. /\ queue' \in Seq(Games \X KeyFiles)
      /\ \A i \in DOMAIN queue' : i + 1 \in DOMAIN queue /\ queue'[i] = queue[i + 1]
      /\ \A i \in DOMAIN queue : i # 1 => i - 1 \in DOMAIN queue' /\ queue'[i - 1] = queue[i]
  BY <1>1, <1>2, TailOf
<1>4. Types'
  BY <1>1, <1>3 DEF IInv, Types
<1>5. Phases'
  BY <1>1, <1>2 DEF IInv, Phases
<1>6. CandidatesOfGame'
  BY <1>3 DEF IInv, CandidatesOfGame
<1>7. FitsAreOfGame'
  BY <1>2, <1>3 DEF IInv, FitsAreOfGame
<1>8. ReaderReads'
  BY <1>1 DEF ReaderReads
<1>9. DecryptsInPlace' /\ OthersKeysDoNoHarm'
  BY <1>2 DEF IInv, DecryptsInPlace, OthersKeysDoNoHarm
<1>10. NoneLeftOut'
  <2>1. ASSUME NEW k \in OfGame, IsHeader(header[Head(todo)], k),
               NEW i \in DOMAIN queue, queue[i][2] = k
        PROVE  \E j \in DOMAIN queue' : queue'[j][2] = k
    <3>1. i # 1
      BY <1>2, <2>1 DEF tested
    <3> QED
      BY <1>3, <2>1, <3>1
  <2>2. ASSUME NEW a \in Given \ DOMAIN by_path
        PROVE  \/ ~IsPlain(header[a]) /\ \A k \in OfGame : ~IsHeader(header[a], k)
               \/ a \in Range(Tail(todo))
               \/ /\ a = Head(todo) /\ ~IsPlain(header[a])
                  /\ \A k \in OfGame : IsHeader(header[a], k) =>
                       \E i \in DOMAIN queue : queue[i][2] = k
    BY <1>2 DEF IInv, NoneLeftOut
  <2>3. ASSUME NEW a \in Given \ DOMAIN by_path
        PROVE  \/ ~IsPlain(header[a]) /\ \A k \in OfGame : ~IsHeader(header[a], k)
               \/ a \in Range(Tail(todo))
               \/ /\ a = Head(todo) /\ ~IsPlain(header[a])
                  /\ \A k \in OfGame : IsHeader(header[a], k) =>
                       \E i \in DOMAIN queue' : queue'[i][2] = k
    BY <2>1, <2>2
  <2> QED
    BY <1>1, <1>2, <2>3 DEF NoneLeftOut
<1> QED
  BY <1>4, <1>5, <1>6, <1>7, <1>8, <1>9, <1>10 DEF IInv

LEMMA ReadFailsStep == IInv /\ ReadFails => IInv'
<1> SUFFICES ASSUME IInv, ReadFails PROVE IInv'
  OBVIOUS
<1>1. reader # NoReader /\ Len(reader.got) < HeaderLen /\ reader.out = <<>>
  BY DEF ReadFails, Reading
<1>2. ~IsHeader(tested, candidate[2])
  BY <1>1, WhileReading, HeaderIsNotRead DEF ReadFails
<1> QED
  BY <1>1, <1>2, KeyDoesNotFit DEF ReadFails

(* A key that fits is kept with its archive, and its game is the mount's.    *)
LEMMA TryKeyStep == IInv /\ TryKey => IInv'
<1> SUFFICES ASSUME IInv, TryKey PROVE IInv'
  OBVIOUS
<1> DEFINE g == candidate[1]
           k == candidate[2]
<1>1. /\ status = "match" /\ queue # <<>> /\ ReadsBlocks(reader, tested, k)
      /\ k \in KeyFiles /\ tested \in Headers /\ reader # NoReader
  BY WhileReading DEF TryKey
<1>2. reader.got = HeaderOf(k) <=> k \in tested.key
  BY <1>1, HeaderIsRead DEF TryKey
<1>3. CASE reader.got # HeaderOf(k)
  <2>1. ~IsHeader(tested, k)
    BY <1>2, <1>3 DEF IsHeader
  <2> QED
    BY <1>1, <1>3, <2>1, KeyDoesNotFit DEF TryKey
<1>4. CASE reader.got = HeaderOf(k)
  <2>1. /\ k \in tested.key /\ by_path' = Inserted(k) /\ game' = GameFound(g)
        /\ queue' = Tail(queue) /\ reader' = NoReader
        /\ UNCHANGED <<env, status, todo, tried, index, cache, bytes, block>>
    BY <1>2, <1>4 DEF TryKey, NextKey
  <2> USE DEF env
  <2>2. /\ Given' = Given /\ todo # <<>> /\ tried /\ Head(todo) \in Given
        /\ candidate = queue[1] /\ 1 \in DOMAIN queue /\ queue \in Seq(Games \X KeyFiles)
        /\ g \in Games /\ k \in Range(Pem[g])
    BY <1>1, <2>1, FirstCandidate DEF IInv, Types, Given
  <2>3. /\ queue' \in Seq(Games \X KeyFiles)
        /\ \A i \in DOMAIN queue' : i + 1 \in DOMAIN queue /\ queue'[i] = queue[i + 1]
    BY <1>1, <2>1, <2>2, TailOf
  <2> HIDE DEF g, k
  <2>4. /\ DOMAIN by_path' = DOMAIN by_path \cup {Head(todo)}
        /\ \A a \in DOMAIN by_path' : by_path'[a] = IF a = Head(todo) THEN k ELSE by_path[a]
        /\ by_path' \in [DOMAIN by_path' -> KeyFiles \cup {Plaintext}]
    BY <1>1, <2>1 DEF IInv, Types, Inserted
  <2>5. g \in Nat \ {0} /\ NoGame \notin Games /\ game' = IF game = NoGame THEN g ELSE game
    BY <2>1, <2>2, KeysAssumption DEF Games, NoGame, GameFound
  <2>6. Types'
    BY <2>1, <2>2, <2>3, <2>4, <2>5 DEF IInv, Types
  <2>7. Phases'
    BY <1>1, <2>1, <2>2 DEF IInv, Phases
  <2>8. CandidatesOfGame'
    <3>1. /\ index' # NoGame => index' = game' /\ game' \in Games
          /\ request' # NoGame => game' = request'
          /\ request' \in Games \cup {NoGame} => game' \in Games \cup {NoGame}
      BY <2>1, <2>2, <2>5 DEF IInv, CandidatesOfGame
    <3>2. \A i \in DOMAIN queue' : queue'[i][2] \in Range(Pem[queue'[i][1]])
      BY <2>3 DEF IInv, CandidatesOfGame
    <3>3. request' \in Games => \A i \in DOMAIN queue' : queue'[i][1] = request'
      BY <2>1, <2>3 DEF IInv, CandidatesOfGame
    <3> QED
      BY <3>1, <3>2, <3>3 DEF CandidatesOfGame
  <2>9. FitsAreOfGame'
    <3> SUFFICES ASSUME request \in Games \cup {NoGame}
                 PROVE  /\ \A a \in DOMAIN by_path' :
                             by_path'[a] # Plaintext =>
                               game' \in Games /\ by_path'[a] \in Range(Pem[game'])
                        /\ \A i \in DOMAIN queue' :
                             queue'[i][2] \in header[Head(todo)].key => queue'[i][1] = game'
      BY <2>1 DEF FitsAreOfGame
    <3>1. game \in Games \cup {NoGame}
      BY DEF IInv, CandidatesOfGame
    <3>2. \A a \in DOMAIN by_path :
            by_path[a] # Plaintext => game \in Games /\ by_path[a] \in Range(Pem[game])
      BY DEF IInv, FitsAreOfGame
    <3>3. CASE game = NoGame
      <4>1. game' = g /\ g \in Games
        BY <2>2, <2>5, <3>3
      <4>2. \A a \in DOMAIN by_path : by_path[a] = Plaintext
        BY <2>5, <3>2, <3>3
      <4>3. ASSUME NEW i \in DOMAIN queue', queue'[i][2] \in header[Head(todo)].key
            PROVE  queue'[i][1] = g
        <5>1. i + 1 \in DOMAIN queue /\ queue'[i] = queue[i + 1]
          BY <2>3
        <5>2. queue'[i][2] \in Range(Pem[queue'[i][1]]) /\ queue'[i][1] \in Games
          BY <2>2, <5>1 DEF IInv, CandidatesOfGame
        <5>3. k \in tested.key \cap Range(Pem[g])
              /\ queue'[i][2] \in tested.key \cap Range(Pem[queue'[i][1]])
          BY <2>1, <2>2, <4>3, <5>2 DEF tested
        <5> QED
          BY <1>1, <2>2, <5>2, <5>3, KeysAssumption
      <4> QED
        BY <2>2, <2>4, <4>1, <4>2, <4>3
    <3>4. CASE game \in Games
      <4>1. game' = game
        BY <2>5, <3>4
      <4>2. \A i \in DOMAIN queue :
              queue[i][2] \in header[Head(todo)].key => queue[i][1] = game
        BY <1>1, <3>4 DEF IInv, FitsAreOfGame
      <4>3. g = game
        BY <2>1, <2>2, <4>2 DEF g, k, tested
      <4>4. \A i \in DOMAIN queue' :
              queue'[i][2] \in header[Head(todo)].key => queue'[i][1] = game'
        BY <2>3, <4>1, <4>2
      <4> QED
        BY <2>2, <2>4, <3>2, <3>4, <4>1, <4>3, <4>4
    <3> QED
      BY <3>1, <3>3, <3>4
  <2>10. ReaderReads' /\ DecryptsInPlace' /\ OthersKeysDoNoHarm'
    BY <1>1, <2>1 DEF ReaderReads, DecryptsInPlace, OthersKeysDoNoHarm
  <2>11. NoneLeftOut'
    <3>1. OfGame' \subseteq OfGame
      BY <2>2, <2>5 DEF OfGame, KeyFiles
    <3>2. ASSUME NEW a \in Given \ DOMAIN by_path'
          PROVE  \/ ~IsPlain(header[a]) /\ \A l \in OfGame' : ~IsHeader(header[a], l)
                 \/ a \in Range(Tail(todo))
      BY <1>1, <2>2, <2>4, <3>1 DEF IInv, NoneLeftOut
    <3> QED
      BY <1>1, <2>1, <2>2, <3>2 DEF NoneLeftOut
  <2> QED
    BY <2>6, <2>7, <2>8, <2>9, <2>10, <2>11 DEF IInv
<1> QED
  BY <1>3, <1>4

-----------------------------------------------------------------------------
LEMMA RangeIsFinite ==
  ASSUME NEW S, NEW s \in Seq(S)
  PROVE  IsFiniteSet(Range(s))
<1>1. Len(s) \in Nat /\ DOMAIN s = 1..Len(s)
  OBVIOUS
<1>2. Range(s) = { s[i] : i \in 1..Len(s) }
  BY <1>1 DEF Range
<1>3. s \in Surjection(1..Len(s), Range(s))
  BY <1>1, <1>2 DEF Surjection
<1>4. ExistsSurjection(1..Len(s), Range(s))
  BY <1>3 DEF ExistsSurjection
<1> QED
  BY <1>1, <1>4, FS_NatSurjection

LEMMA RangeIsIn == ASSUME NEW S, NEW s \in Seq(S) PROVE Range(s) \subseteq S
BY DEF Range

LEMMA MatchedStep == IInv /\ Matched => IInv'
<1> SUFFICES ASSUME IInv, Matched PROVE IInv'
  OBVIOUS
<1>1. /\ status = "match" /\ todo = <<>> /\ status' = "decrypt"
      /\ todo' = SetToSeq(DOMAIN by_path)
      /\ UNCHANGED <<header, args, good, request, queue, tried, reader, game, index,
                     cache, by_path, bytes, block>>
  BY DEF Matched, matching, env
<1>2. queue = <<>> /\ reader = NoReader /\ ~tried /\ bytes = <<>> /\ block = 0
  BY <1>1 DEF IInv, Phases
<1>3. Given' = Given /\ OfGame' = OfGame
  BY <1>1 DEF Given, OfGame
<1>4. IsFiniteSet(DOMAIN by_path)
  <2>1. IsFiniteSet(Given)
    BY ArchivePathsIsSeq, RangeIsFinite DEF IInv, Types, Given
  <2> QED
    BY <2>1, FS_Subset DEF IInv, Types
<1>5. todo' \in Seq(DOMAIN by_path)
  BY <1>1, <1>4, SetToSeqIsSeq
<1>6. todo' \in Seq(Given) /\ Range(todo') \subseteq DOMAIN by_path
  <2>1. Range(todo') \subseteq DOMAIN by_path
    BY <1>5, RangeIsIn
  <2>2. DOMAIN by_path \subseteq Given
    BY DEF IInv, Types
  <2> QED
    BY <1>5, <2>1, <2>2
<1>7. Types'
  BY <1>1, <1>3, <1>6 DEF IInv, Types
<1>8. Phases'
  BY <1>1, <1>2, <1>6 DEF IInv, Phases
<1>9. CandidatesOfGame' /\ FitsAreOfGame'
  BY <1>1, <1>2 DEF IInv, CandidatesOfGame, FitsAreOfGame
<1>10. ReaderReads' /\ DecryptsInPlace' /\ OthersKeysDoNoHarm'
  BY <1>1, <1>2 DEF ReaderReads, DecryptsInPlace, OthersKeysDoNoHarm
<1>11. NoneLeftOut'
  BY <1>1, <1>3 DEF IInv, NoneLeftOut
<1> QED
  BY <1>7, <1>8, <1>9, <1>10, <1>11 DEF IInv

(* After the archives are matched, the matches stay; an error is one of a    *)
(* damaged header.                                                           *)
LEMMA DecryptStep ==
  ASSUME IInv, status = "decrypt", UNCHANGED <<env, matching>>,
         status' \in {"decrypt", "ready", "err"},
         todo' \in Seq(Given), Range(todo') \subseteq DOMAIN by_path,
         status' = "err" =>
           \E a \in DOMAIN by_path : header[a].bad # {} \/ header[a].tail # 0,
         DecryptsInPlace'
  PROVE  IInv'
<1> USE DEF env, matching
<1>1. Given' = Given /\ OfGame' = OfGame
  BY DEF Given, OfGame
<1>2. queue = <<>> /\ reader = NoReader /\ ~tried
  BY DEF IInv, Phases
<1>3. Types'
  BY <1>1 DEF IInv, Types
<1>4. Phases'
  BY <1>2 DEF IInv, Phases
<1>5. CandidatesOfGame' /\ FitsAreOfGame'
  BY <1>2 DEF IInv, CandidatesOfGame, FitsAreOfGame
<1>6. ReaderReads' /\ OthersKeysDoNoHarm'
  BY <1>2 DEF ReaderReads, OthersKeysDoNoHarm
<1>7. NoneLeftOut'
  BY <1>1 DEF IInv, NoneLeftOut
<1> QED
  BY <1>3, <1>4, <1>5, <1>6, <1>7 DEF IInv

LEMMA FirstLeft ==
  ASSUME IInv, status = "decrypt", todo # <<>>
  PROVE  /\ Head(todo) \in DOMAIN by_path /\ Head(todo) \in Given /\ current \in Headers
         /\ key \in KeyFiles \cup {Plaintext} /\ current = header[Head(todo)]
         /\ Tail(todo) \in Seq(Given) /\ Range(Tail(todo)) \subseteq DOMAIN by_path
<1>1. todo \in Seq(Given) /\ Range(todo) \subseteq DOMAIN by_path
  BY DEF IInv, Types, Phases
<1>2. 1 \in DOMAIN todo /\ Head(todo) = todo[1] /\ Tail(todo) \in Seq(Given)
  BY <1>1
<1>3. Head(todo) \in DOMAIN by_path
  BY <1>1, <1>2 DEF Range
<1>4. Head(todo) \in Given /\ current \in Headers /\ key \in KeyFiles \cup {Plaintext}
  BY <1>3 DEF IInv, Types, current, key
<1>5. Range(Tail(todo)) \subseteq Range(todo)
  BY <1>1, TailOf DEF Range
<1> QED
  BY <1>1, <1>2, <1>3, <1>4, <1>5 DEF current

(* A block that is decrypted in place takes the bytes behind the plaintext   *)
(* of the ones before it, and none of the blocks behind it.                  *)
LEMMA BlockInPlace ==
  ASSUME NEW b, NEW j, NEW h \in Headers, NEW k \in KeyFiles,
         BlocksInPlace(b, j, h, k), j < h.n, NEW whole, NEW b2,
         whole = \A i \in 1..BlockLen[k] : b[j * BlockLen[k] + i] = <<FALSE, j + 1, i>>,
         b2 = [p \in DOMAIN b |->
                IF p - j * OutLen(k) \in 1..OutLen(k)
                THEN <<whole, j + 1, p - j * OutLen(k)>> ELSE b[p]]
  PROVE  BlocksInPlace(b2, j + 1, h, k)
<1> DEFINE o == OutLen(k)
           l == BlockLen[k]
           n == h.n
           Plain(p) == <<TRUE, 1 + (p - 1) \div o, 1 + ((p - 1) % o)>>
           Raw(p) == <<FALSE, 1 + (p - 1) \div l, 1 + ((p - 1) % l)>>
<1>1. /\ o \in Nat \ {0} /\ l \in Nat \ {0} /\ l = o + 1 /\ n \in Nat
      /\ j \in Nat /\ j + 1 \in 0..n /\ j + 1 <= n
  BY OutLenIs, KeysAssumption DEF BlocksInPlace
<1>2. /\ DOMAIN b = 1..n * l
      /\ \A p \in 1..j * o : b[p] = Plain(p)
      /\ \A p \in j * l + 1..n * l : b[p] = Raw(p)
  BY DEF BlocksInPlace
<1> HIDE DEF o, l, n
<1>3. (j + 1) * l <= n * l /\ (j + 1) * l = j * l + l /\ (j + 1) * o = j * o + o
      /\ j * o <= j * l /\ (j + 1) * o <= n * l /\ j * l \in Nat /\ j * o \in Nat /\ n * l \in Nat
  <2>1. (j + 1) * l <= n * l
    BY <1>1, TimesIsMonotone
  <2>2. (j + 1) * l = j * l + l /\ (j + 1) * o = j * o + o
    BY <1>1
  <2>3. j * l = j * o + j
    BY <1>1
  <2>4. j * l \in Nat /\ j * o \in Nat /\ n * l \in Nat
    BY <1>1
  <2> HIDE DEF o, l, n
  <2> QED
    BY <1>1, <2>1, <2>2, <2>3, <2>4
<1>4. whole = TRUE
  <2>1. ASSUME NEW i \in 1..l PROVE b[j * l + i] = <<FALSE, j + 1, i>>
    <3>1. j * l + i \in j * l + 1..n * l
      BY <1>1, <1>3
    <3>2. (j * l + i - 1) \div l = j /\ (j * l + i - 1) % l = i - 1
      BY <1>1, ByteOfBlock
    <3>3. 1 + (j * l + i - 1) \div l = j + 1 /\ 1 + ((j * l + i - 1) % l) = i
      BY <1>1, <3>2
    <3>4. b[j * l + i] = <<FALSE, 1 + (j * l + i - 1) \div l, 1 + ((j * l + i - 1) % l)>>
      <4>1. b[j * l + i] = Raw(j * l + i)
        <5> HIDE DEF Raw
        <5> QED
          BY <1>2, <3>1
      <4> QED
        BY <1>1, <1>3, <4>1
    <3> QED
      BY <3>3, <3>4
  <2> QED
    BY <2>1 DEF l
<1>5. /\ DOMAIN b2 = 1..n * l
      /\ \A p \in 1..n * l :
           b2[p] = IF p - j * o \in 1..o THEN <<TRUE, j + 1, p - j * o>> ELSE b[p]
  BY <1>2, <1>4 DEF o
<1>6. ASSUME NEW p \in 1..(j + 1) * o PROVE b2[p] = Plain(p)
  <2>1. p \in 1..n * l
    BY <1>1, <1>3
  <2>2. CASE p - j * o \in 1..o
    <3> DEFINE i == p - j * o
    <3>1. j * o + i = p /\ i \in 1..o
      BY <1>1, <1>3, <2>2
    <3> HIDE DEF i
    <3>2. (j * o + i - 1) \div o = j /\ (j * o + i - 1) % o = i - 1
      BY <1>1, <3>1, ByteOfBlock
    <3>3. 1 + (p - 1) \div o = j + 1 /\ 1 + ((p - 1) % o) = i
      BY <1>1, <3>1, <3>2
    <3>4. b2[p] = <<TRUE, j + 1, i>>
      BY <1>5, <2>1, <2>2 DEF i
    <3> QED
      BY <3>3, <3>4
  <2>3. CASE p - j * o \notin 1..o
    <3>1. p \in 1..j * o
      BY <1>1, <1>3, <2>3
    <3>2. b2[p] = b[p]
      BY <1>5, <2>1, <2>3
    <3> QED
      BY <1>2, <3>1, <3>2
  <2> QED
    BY <2>2, <2>3
<1>7. ASSUME NEW p \in (j + 1) * l + 1..n * l PROVE b2[p] = Raw(p)
  <2>1. p \in 1..n * l /\ p \in j * l + 1..n * l /\ p - j * o \notin 1..o
    BY <1>1, <1>3
  <2> QED
    BY <1>2, <1>5, <2>1
<1>8. b2 = [p \in 1..n * l |-> b2[p]]
  BY <1>5, <1>2
<1> QED
  BY <1>1, <1>6, <1>7, <1>8 DEF BlocksInPlace, o, l, n

LEMMA ReadFileStep == IInv /\ ReadFile => IInv'
<1> SUFFICES ASSUME IInv, ReadFile PROVE IInv'
  OBVIOUS
<1>1. /\ status = "decrypt" /\ todo # <<>> /\ key # Plaintext /\ bytes = <<>> /\ block = 0
      /\ UNCHANGED <<env, status, todo, matching, block>>
  BY DEF ReadFile, Decrypting, IInv, DecryptsInPlace
<1>2. current' = current /\ key' = key
  BY <1>1 DEF current, key, env, matching
<1>3. current \in Headers /\ key \in KeyFiles
  BY <1>1, FirstLeft
<1> DEFINE l == BlockLen[key]
           raw == [p \in 1..current.n * l |->
                    <<FALSE, 1 + (p - 1) \div l, 1 + ((p - 1) % l)>>]
<1>4. bytes' = raw
  BY DEF ReadFile, InLen
<1>5. BlocksInPlace(raw, 0, current, key)
  <2>1. current.n \in Nat /\ l \in Nat /\ 0 * OutLen(key) = 0 /\ 0 * l = 0
    BY <1>3, OutLenIs, KeysAssumption
  <2> HIDE DEF l
  <2>2. 0 \in 0..current.n /\ 1..0 * OutLen(key) = {} /\ 0 * l + 1 = 1
    BY <2>1
  <2>3. raw = [p \in 1..current.n * l |-> raw[p]]
    OBVIOUS
  <2>4. \A p \in 1..current.n * l : raw[p] = <<FALSE, 1 + (p - 1) \div l, 1 + ((p - 1) % l)>>
    OBVIOUS
  <2> HIDE DEF raw
  <2> QED
    BY <2>2, <2>3, <2>4 DEF BlocksInPlace, l
<1> HIDE DEF raw
<1>6. DecryptsInPlace'
  BY <1>1, <1>2, <1>4, <1>5 DEF DecryptsInPlace
<1>7. todo' \in Seq(Given) /\ Range(todo') \subseteq DOMAIN by_path
  BY <1>1 DEF IInv, Types, Phases
<1> QED
  BY <1>1, <1>6, <1>7, DecryptStep

LEMMA DecryptBlockStep == IInv /\ DecryptBlock => IInv'
<1> SUFFICES ASSUME IInv, DecryptBlock PROVE IInv'
  OBVIOUS
<1>1. /\ status = "decrypt" /\ todo # <<>> /\ key # Plaintext /\ bytes # <<>>
      /\ block < current.n /\ block' = block + 1
      /\ UNCHANGED <<env, status, todo, matching>>
  BY DEF DecryptBlock, Decrypting
<1>2. current' = current /\ key' = key
  BY <1>1 DEF current, key, env, matching
<1>3. current \in Headers /\ key \in KeyFiles /\ BlocksInPlace(bytes, block, current, key)
  BY <1>1, FirstLeft DEF IInv, DecryptsInPlace
<1> DEFINE whole == \A i \in 1..BlockLen[key] :
                      bytes[block * BlockLen[key] + i] = <<FALSE, block + 1, i>>
<1>4. bytes' = [p \in DOMAIN bytes |->
                 IF p - block * OutLen(key) \in 1..OutLen(key)
                 THEN <<whole, block + 1, p - block * OutLen(key)>> ELSE bytes[p]]
  BY DEF DecryptBlock, InLen, OutStart
<1>5. BlocksInPlace(bytes', block + 1, current, key)
  BY <1>1, <1>3, <1>4, BlockInPlace
<1>6. DecryptsInPlace'
  <2>1. block + 1 # 0
    BY <1>3 DEF BlocksInPlace
  <2>2. bytes' # <<>>
    <3>1. DOMAIN bytes = 1..current.n * BlockLen[key] /\ current.n \in Nat
          /\ current.n > 0 /\ BlockLen[key] \in Nat \ {0}
      BY <1>1, <1>3, OutLenIs, KeysAssumption DEF BlocksInPlace
    <3>2. current.n * BlockLen[key] \in Nat /\ current.n * BlockLen[key] >= 1
      BY <3>1
    <3>3. 1 \in DOMAIN bytes'
      BY <1>4, <3>1, <3>2
    <3> QED
      BY <3>3
  <2> QED
    BY <1>1, <1>2, <1>5, <2>2 DEF DecryptsInPlace
<1>7. todo' \in Seq(Given) /\ Range(todo') \subseteq DOMAIN by_path
  BY <1>1 DEF IInv, Types, Phases
<1> QED
  BY <1>1, <1>6, <1>7, DecryptStep

(* The other steps finish with a header or with all of them.                 *)
LEMMA FinishStep == IInv /\ (TakePlain \/ Truncate \/ Ready \/ DecryptFails) => IInv'
<1> SUFFICES ASSUME IInv, TakePlain \/ Truncate \/ Ready \/ DecryptFails PROVE IInv'
  OBVIOUS
<1>1. CASE TakePlain
  <2>1. /\ status = "decrypt" /\ todo # <<>> /\ key = Plaintext /\ todo' = Tail(todo)
        /\ UNCHANGED <<env, status, matching, bytes, block>>
    BY <1>1 DEF TakePlain
  <2>2. DecryptsInPlace'
    BY <2>1 DEF IInv, DecryptsInPlace
  <2> QED
    BY <2>1, <2>2, FirstLeft, DecryptStep
<1>2. CASE Truncate
  <2>1. /\ status = "decrypt" /\ todo # <<>> /\ todo' = Tail(todo)
        /\ bytes' = <<>> /\ block' = 0 /\ UNCHANGED <<env, status, matching>>
    BY <1>2 DEF Truncate, Decrypted, Decrypting
  <2>2. DecryptsInPlace'
    BY <2>1 DEF DecryptsInPlace
  <2> QED
    BY <2>1, <2>2, FirstLeft, DecryptStep
<1>3. CASE Ready
  <2>1. status = "decrypt" /\ status' = "ready" /\ UNCHANGED <<env, todo, matching>>
    BY <1>3 DEF Ready
  <2>2. DecryptsInPlace'
    BY <2>1 DEF DecryptsInPlace
  <2>3. todo' \in Seq(Given) /\ Range(todo') \subseteq DOMAIN by_path
    BY <2>1 DEF IInv, Types, Phases
  <2> QED
    BY <2>1, <2>2, <2>3, DecryptStep
<1>4. CASE DecryptFails
  <2>1. /\ status = "decrypt" /\ todo # <<>> /\ status' = "err"
        /\ UNCHANGED <<env, todo, matching>>
    BY <1>4 DEF DecryptFails, Decrypting, Fail
  <2>2. DecryptsInPlace'
    BY <2>1 DEF DecryptsInPlace
  <2>3. todo' \in Seq(Given) /\ Range(todo') \subseteq DOMAIN by_path
    BY <2>1 DEF IInv, Types, Phases
  <2>4. Head(todo) \in DOMAIN by_path /\ (current.bad # {} \/ current.tail # 0)
    BY <1>4, <2>1, FirstLeft DEF DecryptFails
  <2>5. \E a \in DOMAIN by_path : header[a].bad # {} \/ header[a].tail # 0
    BY <2>4 DEF current
  <2> QED
    BY <2>1, <2>2, <2>3, <2>5, DecryptStep
<1> QED
  BY <1>1, <1>2, <1>3, <1>4

LEMMA NextIInv == IInv /\ [Next]_vars => IInv'
<1> SUFFICES ASSUME IInv, [Next]_vars PROVE IInv'
  OBVIOUS
<1>1. CASE UNCHANGED vars
  <2> USE <1>1 DEF vars, env, matching
  <2>1. Types' /\ Phases' /\ CandidatesOfGame' /\ FitsAreOfGame'
    BY DEF IInv, Types, Phases, CandidatesOfGame, FitsAreOfGame, Given
  <2>2. ReaderReads' /\ OthersKeysDoNoHarm'
    BY DEF IInv, ReaderReads, OthersKeysDoNoHarm, tested, candidate
  <2>3. NoneLeftOut' /\ DecryptsInPlace'
    BY DEF IInv, NoneLeftOut, DecryptsInPlace, Given, OfGame, current, key
  <2> QED
    BY <2>1, <2>2, <2>3 DEF IInv
<1> QED
  BY <1>1, MatchPlainStep, ListCandidatesStep, DecodeFailsStep, OpenKeyStep, ReadBufferedStep,
     ReadBlockStep, ReadFailsStep, TryKeyStep, LeaveArchiveStep, MatchedStep, ReadFileStep,
     DecryptBlockStep, FinishStep DEF Next

LEMMA Invariance == Spec => []IInv
  BY InitIInv, NextIInv, PTL DEF Spec

-----------------------------------------------------------------------------
(* Whatever keys and headers there are, an archive is left out of a mount    *)
(* only when no key of the mount's game makes a header of it: no reader ends *)
(* early on a header that is whole, however its blocks lie to the caller's   *)
(* buffer (keys.rs:78-111, rsa.rs).                                          *)
THEOREM NoHeaderIsLeftOut == Spec => []LeftOutFitsNothing
<1>1. IInv => LeftOutFitsNothing
  <2> SUFFICES ASSUME IInv, status \in {"decrypt", "ready"},
                      NEW a \in Given \ DOMAIN by_path
               PROVE  ~IsPlain(header[a]) /\ \A k \in OfGame : ~IsHeader(header[a], k)
    BY DEF LeftOutFitsNothing
  <2> QED
    BY DEF IInv, NoneLeftOut
<1> QED
  BY <1>1, Invariance, PTL

(* The first match fixes the game for the archives that follow, and for the  *)
(* copies of the key that are still to be tried (keys.rs:84-107).            *)
THEOREM MountIsOfOneGame == Spec => []OneGame
<1>1. IInv => OneGame
  BY DEF IInv, FitsAreOfGame, OneGame
<1> QED
  BY <1>1, Invariance, PTL

(* The mount of a given game fails on its own key files or on damaged        *)
(* headers, whatever lies in the directories of other games.                 *)
THEOREM OtherGamesAreNotRead == Spec => []OthersKeysDoNoHarm
<1>1. IInv => OthersKeysDoNoHarm
  BY DEF IInv
<1> QED
  BY <1>1, Invariance, PTL

(* The output of a block never reaches the input of the next, for any length *)
(* of the blocks and of the file, and what is truncated to is the plaintext  *)
(* without gaps (rsa.rs:104-136).                                            *)
THEOREM InPlaceIsPlaintext == Spec => []DecryptedIsPlaintext
<1>1. ASSUME IInv, Decrypted PROVE DecryptedIsPlaintext
  <2> DEFINE o == OutLen(key)
             n == current.n
             T == {TRUE} \X Int \X Int
             whole == Blocks(TRUE, o, n * o)
  <2>1. /\ current \in Headers /\ key \in KeyFiles
        /\ BlocksInPlace(bytes, n, current, key)
    BY <1>1, FirstLeft DEF Decrypted, Decrypting, IInv, DecryptsInPlace
  <2>2. o \in Nat \ {0} /\ n \in Nat /\ BlockLen[key] = o + 1
    BY <2>1, OutLenIs, KeysAssumption
  <2>3. n * o \in Nat /\ n * BlockLen[key] = n * o + n
    BY <2>2
  <2>4. \A p \in 1..n * o : bytes[p] = whole[p]
    BY <2>1 DEF BlocksInPlace, Blocks
  <2>5. whole \in [1..n * o -> T]
    BY <2>2, <2>3, BlocksType
  <2> HIDE DEF whole, T, o, n
  <2>6. \A p \in 1..n * o : bytes[p] \in T
    BY <2>4, <2>5
  <2>7. 1 \in Int /\ n * o \in Int
    BY <2>3
  <2>8. /\ SubSeq(bytes, 1, n * o) \in Seq(T)
        /\ Len(SubSeq(bytes, 1, n * o)) = IF 1 <= n * o THEN n * o - 1 + 1 ELSE 0
        /\ \A i \in 1..n * o - 1 + 1 : SubSeq(bytes, 1, n * o)[i] = bytes[1 + i - 1]
    BY <2>6, <2>7, SubSeqProperties
  <2>9. n * o - 1 + 1 = n * o /\ \A i \in 1..n * o : 1 + i - 1 = i
    BY <2>3
  <2>10. Len(SubSeq(bytes, 1, n * o)) = n * o
    BY <2>3, <2>8
  <2>11. SubSeq(bytes, 1, n * o) \in [1..n * o -> T]
    BY <2>8, <2>10, LenProperties
  <2>12. \A i \in 1..n * o : SubSeq(bytes, 1, n * o)[i] = whole[i]
    BY <2>4, <2>8, <2>9
  <2>13. SubSeq(bytes, 1, n * o) = whole
    <3> DEFINE m == n * o
               sub == SubSeq(bytes, 1, n * o)
               S == 1..m
    <3>1. whole \in [S -> T] /\ sub \in [S -> T] /\ \A i \in S : sub[i] = whole[i]
      BY <2>5, <2>11, <2>12
    <3> HIDE DEF m, sub, S
    <3>2. sub = whole
      BY <3>1
    <3> QED
      BY <3>2 DEF sub
  <2> QED
    BY <2>13 DEF DecryptedIsPlaintext, whole, o, n, Blocks
<1>2. IInv => DecryptedIsPlaintext
  BY <1>1 DEF DecryptedIsPlaintext
<1> QED
  BY <1>2, Invariance, PTL
=============================================================================
