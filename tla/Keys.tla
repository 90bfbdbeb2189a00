-------------------------------- MODULE Keys --------------------------------
(* How a mount finds the RSA key of each archive's header and decrypts it:   *)
(* ArchivePaths (dvdbnd/path.rs), KeyProvider (dvdbnd/keys.rs), the reader   *)
(* and the in-place decryption of crypto/rsa.rs (mount.rs:64-69, 100-106).   *)
(* A header is its blocks: block i of a file encrypted with key k becomes    *)
(* plaintext under k and something else under any other key.                 *)
EXTENDS Integers, Sequences, SequencesExt, FiniteSetsExt

CONSTANTS
  Pem,        \* per game, in the order of their names: its key files
  BlockLen,   \* per key: in_block_len
  Headers,    \* the files that may be an archive's header: records [key, n,
              \* bad, tail], see below
  NameOf,     \* per archive path: the lowercase name without the extension
  Args,       \* the archives that may be given, in order
  Requests,   \* the games that may be given
  Decodable,  \* the sets of key files that may decode
  HeaderLen   \* BHD5_HEADER_LEN

NoReader == <<>>
NoGame == 0     \* None, where a game is a Nat
Plaintext == 0  \* the `None` of a header that is not encrypted
Games == 1..Len(Pem)
KeyFiles == UNION { Range(Pem[g]) : g \in Games }
Paths == DOMAIN NameOf

(* key: the keys that fit, of which several files may be copies, but only    *)
(* within a game; n: the length in blocks; bad: the blocks that are not less *)
(* than the modulus; tail: the bytes after the last block.                   *)
ASSUME KeysAssumption ==
  /\ Pem \in Seq(Seq(Nat \ {0})) /\ BlockLen \in [KeyFiles -> Nat \ {0, 1}]
  /\ \A h \in Headers :
       /\ h.key \in SUBSET KeyFiles /\ h.n \in Nat /\ h.tail \in Nat
       /\ h.bad \subseteq 1..h.n
       /\ \A k, l \in h.key : BlockLen[k] = BlockLen[l]
       /\ \A k \in h.key : h.tail < BlockLen[k]
       /\ \A f, g \in Games :
            h.key \cap Range(Pem[f]) # {} /\ h.key \cap Range(Pem[g]) # {} => f = g
  /\ Args \subseteq Seq(Paths) /\ Requests \subseteq Nat
  /\ HeaderLen \in Nat \ {0}

VARIABLES
  header,   \* per archive path that is left: its file
  args,     \* the paths given
  good,     \* the key files that decode
  request,  \* the game given
  status,   \* "match", "decrypt", "ready" or "err"
  todo,     \* the archives left
  queue,    \* the key files left for the first of them: <<game, key>>
  tried,    \* whether the candidates of the first archive were listed
  reader,   \* the RsaDecryptor of the key tried, with what it has given so far
  game,     \* the game, once known
  index,    \* its position among the games with keys
  cache,    \* the keys decoded
  by_path,  \* the archives matched and their keys
  bytes,    \* the header decrypted in place: per position what is there
  block     \* the block of it that is next

env == <<header, args, good, request>>
matching == <<queue, tried, reader, game, index, cache, by_path>>
vars == <<env, status, todo, matching, bytes, block>>

(* ArchivePaths::new: of paths with the same name the last one takes the     *)
(* place of the first.                                                       *)
ArchivePaths(given) ==
  LET name(i) == NameOf[given[i]]
      firsts == {i \in DOMAIN given : \A j \in 1..i - 1 : name(j) # name(i)}
      LastOf(i) == given[Max({j \in DOMAIN given : name(j) = name(i)})]
      nth(n) == CHOOSE i \in firsts : Cardinality({j \in firsts : j <= i}) = n
  IN  [n \in 1..Cardinality(firsts) |-> LastOf(nth(n))]

Init ==
  /\ args \in Args /\ header \in [Range(ArchivePaths(args)) -> Headers]
  /\ good \in Decodable /\ request \in Requests
  /\ status = "match" /\ todo = ArchivePaths(args)
  /\ queue = <<>> /\ tried = FALSE /\ reader = NoReader
  /\ game = request /\ index = NoGame
  /\ cache = {} /\ by_path = <<>>
  /\ bytes = <<>> /\ block = 0

-----------------------------------------------------------------------------
(* RsaDecryptor::read, as read_exact uses it to read HeaderLen bytes.  A     *)
(* byte is <<whether it is plaintext, its block, its place in the block>>.   *)
OutLen(k) == BlockLen[k] - 1
FileLen(h) ==
  IF h.key = {} THEN h.tail ELSE h.n * BlockLen[CHOOSE k \in h.key : TRUE] + h.tail

Open == [block |-> 0, out |-> <<>>, got |-> <<>>]
Reading == reader # NoReader /\ Len(reader.got) < HeaderLen

(* decrypt_block_in: the block must be whole and less than the modulus.  A   *)
(* key that does not fit makes something else of it.                         *)
CanDecrypt(h, k, j) == j * BlockLen[k] <= FileLen(h) /\ ~(k \in h.key /\ j \in h.bad)
Decrypt(h, k, j) == [p \in 1..OutLen(k) |-> <<k \in h.key, j, p>>]

(* The length of a file that is not encrypted is its tail.                   *)
IsPlain(h) == h.key = {} /\ h.tail >= HeaderLen

-----------------------------------------------------------------------------
(* into_keys_for_game_with_filter                                            *)
Inserted(k) ==
  [a \in DOMAIN by_path \cup {Head(todo)} |-> IF a = Head(todo) THEN k ELSE by_path[a]]

NextArchive == todo' = Tail(todo) /\ tried' = FALSE

MatchPlain ==
  /\ status = "match" /\ todo # <<>> /\ ~tried
  /\ IsPlain(header[Head(todo)])
  /\ by_path' = Inserted(Plaintext)
  /\ NextArchive
  /\ UNCHANGED <<env, status, queue, reader, game, index, cache, bytes, block>>

KeysOf(g) == [i \in DOMAIN Pem[g] |-> <<g, Pem[g][i]>>]
AllKeys == FlattenSeq([g \in Games |-> KeysOf(g)])

(* A bug: the game given is not looked up.                                   *)
IndexNow_Never == index

(* The game's position is looked up once the game is known, even in the      *)
(* middle of the archives; without it every game is a candidate.             *)
IndexNow ==
  IF index = NoGame /\ game \in Games THEN game ELSE index

(* A bug: a game without keys has no candidates.                             *)
Candidates_OnlyKnown ==
  IF IndexNow # NoGame THEN KeysOf(IndexNow)
  ELSE IF game # NoGame THEN <<>> ELSE AllKeys

Candidates == IF IndexNow # NoGame THEN KeysOf(IndexNow) ELSE AllKeys

ListCandidates ==
  /\ status = "match" /\ todo # <<>> /\ ~tried
  /\ ~IsPlain(header[Head(todo)])
  /\ queue' = Candidates /\ index' = IndexNow /\ tried' = TRUE
  /\ UNCHANGED <<env, status, todo, reader, game, cache, by_path, bytes, block>>

Fail ==
  /\ status' = "err"
  /\ UNCHANGED <<env, todo, matching, bytes, block>>

DecodeFails ==
  /\ status = "match" /\ queue # <<>> /\ reader = NoReader
  /\ Head(queue)[2] \notin cache \cup good
  /\ Fail

(* A bug: the first match does not fix the game.                             *)
GameFound_Not(g) == game

(* The last key that fits is kept, the game is the first one found.          *)
GameFound(g) == IF game = NoGame THEN g ELSE game

candidate == Head(queue)
tested == header[Head(todo)]

OpenKey ==
  /\ status = "match" /\ queue # <<>> /\ reader = NoReader
  /\ candidate[2] \in cache \cup good
  /\ cache' = cache \cup {candidate[2]}
  /\ reader' = Open
  /\ UNCHANGED <<env, status, todo, queue, tried, game, index, by_path, bytes, block>>

Read(r) ==
  /\ reader' = r
  /\ UNCHANGED <<env, status, todo, queue, tried, game, index, cache, by_path, bytes, block>>

(* What is left of the last block is given out before the next is read.      *)
ReadBuffered ==
  /\ Reading /\ reader.out # <<>>
  /\ LET n == Min({Len(reader.out), HeaderLen - Len(reader.got)})
     IN  Read([reader EXCEPT !.got = @ \o SubSeq(reader.out, 1, n),
                             !.out = SubSeq(@, n + 1, Len(@))])

(* A block goes to the caller as a whole or, where there is no room for it,  *)
(* into the buffer.                                                          *)
ReadBlock ==
  /\ Reading /\ reader.out = <<>>
  /\ CanDecrypt(tested, candidate[2], reader.block + 1)
  /\ LET plain == Decrypt(tested, candidate[2], reader.block + 1)
         fits == Len(reader.got) + Len(plain) <= HeaderLen
     IN  Read([block |-> reader.block + 1,
               out |-> IF fits THEN <<>> ELSE plain,
               got |-> IF fits THEN reader.got \o plain ELSE reader.got])

NextKey == queue' = Tail(queue) /\ reader' = NoReader

ReadFails ==
  /\ Reading /\ reader.out = <<>>
  /\ ~CanDecrypt(tested, candidate[2], reader.block + 1)
  /\ NextKey
  /\ UNCHANGED <<env, status, todo, tried, game, index, cache, by_path, bytes, block>>

(* The first HeaderLen bytes of the plaintext, and only these, are a header. *)
HeaderOf(k) ==
  [p \in 1..HeaderLen |-> <<TRUE, 1 + (p - 1) \div OutLen(k), 1 + ((p - 1) % OutLen(k))>>]

TryKey ==
  /\ reader # NoReader /\ Len(reader.got) = HeaderLen
  /\ IF reader.got = HeaderOf(candidate[2])
     THEN /\ by_path' = Inserted(candidate[2])
          /\ game' = GameFound(candidate[1])
     ELSE UNCHANGED <<by_path, game>>
  /\ NextKey
  /\ UNCHANGED <<env, status, todo, tried, index, cache, bytes, block>>

LeaveArchive ==
  /\ status = "match" /\ tried /\ queue = <<>>
  /\ NextArchive
  /\ UNCHANGED <<env, status, queue, reader, game, index, cache, by_path, bytes, block>>

Matched ==
  /\ status = "match" /\ todo = <<>>
  /\ status' = "decrypt"
  /\ todo' = SetToSeq(DOMAIN by_path)
  /\ UNCHANGED <<env, matching, bytes, block>>

-----------------------------------------------------------------------------
(* decrypt_blocks_in_place, on bytes as those of RsaDecryptor::read.         *)
current == header[Head(todo)]
key == by_path[Head(todo)]
InLen == BlockLen[key]
Decrypting == status = "decrypt" /\ todo # <<>> /\ key # Plaintext

TakePlain ==
  /\ status = "decrypt" /\ todo # <<>> /\ key = Plaintext
  /\ todo' = Tail(todo)
  /\ UNCHANGED <<env, status, matching, bytes, block>>

ReadFile ==
  /\ Decrypting /\ bytes = <<>>
  /\ current.tail = 0
  /\ bytes' = [p \in 1..current.n * InLen |->
                <<FALSE, 1 + (p - 1) \div InLen, 1 + ((p - 1) % InLen)>>]
  /\ UNCHANGED <<env, status, todo, matching, block>>

(* A bug: the output keeps the distance of the input blocks.                 *)
OutStart_AtInput(j) == j * InLen

OutStart(j) == j * OutLen(key)

(* The block at j is decrypted to where the last one ended, which must leave *)
(* the blocks behind it as they are.                                         *)
DecryptBlock ==
  /\ Decrypting /\ bytes # <<>> /\ block < current.n
  /\ block + 1 \notin current.bad
  /\ LET whole == \A i \in 1..InLen :
                    bytes[block * InLen + i] = <<FALSE, block + 1, i>>
     IN  bytes' = [p \in DOMAIN bytes |->
                    IF p - OutStart(block) \in 1..OutLen(key)
                    THEN <<whole, block + 1, p - OutStart(block)>>
                    ELSE bytes[p]]
  /\ block' = block + 1
  /\ UNCHANGED <<env, status, todo, matching>>

DecryptFails ==
  /\ Decrypting
  /\ \/ bytes = <<>> /\ current.tail # 0
     \/ bytes # <<>> /\ block < current.n /\ block + 1 \in current.bad
  /\ Fail

Decrypted == Decrypting /\ bytes # <<>> /\ block = current.n

Truncate ==
  /\ Decrypted
  /\ todo' = Tail(todo) /\ bytes' = <<>> /\ block' = 0
  /\ UNCHANGED <<env, status, matching>>

Ready ==
  /\ status = "decrypt" /\ todo = <<>>
  /\ status' = "ready"
  /\ UNCHANGED <<env, todo, matching, bytes, block>>

Next ==
  \/ MatchPlain \/ ListCandidates \/ DecodeFails \/ OpenKey
  \/ ReadBuffered \/ ReadBlock \/ ReadFails \/ TryKey \/ LeaveArchive
  \/ Matched \/ TakePlain \/ ReadFile \/ DecryptBlock \/ DecryptFails
  \/ Truncate \/ Ready

Spec == Init /\ [][Next]_vars

-----------------------------------------------------------------------------
Given == Range(ArchivePaths(args))
OfGame == IF game \in Games THEN Range(Pem[game]) ELSE KeyFiles

(* A file is a header under a key that fits it if the blocks its first       *)
(* HeaderLen bytes of plaintext span are there and are less than the modulus.*)
IsHeader(h, k) ==
  LET span == (HeaderLen + OutLen(k) - 1) \div OutLen(k)
  IN  k \in h.key /\ span <= h.n /\ h.bad \cap 1..span = {}

(* An archive is left out of a mount only when it is no header as it is and  *)
(* under no key of the mount's game, or of any game where that is not known  *)
(* (keys.rs:78-111).                                                         *)
LeftOutFitsNothing ==
  status \in {"decrypt", "ready"} =>
    \A a \in Given \ DOMAIN by_path :
      ~IsPlain(header[a]) /\ \A k \in OfGame : ~IsHeader(header[a], k)

(* The archives of a mount are of one game, the one whose dictionary names   *)
(* their files, unless a game was given that has no keys (dvdbnd.rs:43-47,   *)
(* keys.rs:84-107).                                                          *)
OneGame ==
  status \in {"decrypt", "ready"} /\ request \in Games \cup {NoGame} =>
    \A a \in DOMAIN by_path :
      by_path[a] # Plaintext => game \in Games /\ by_path[a] \in Range(Pem[game])

(* Key files of other games cannot fail the mount of a given game, only its  *)
(* own and damaged headers can.                                              *)
OthersKeysDoNoHarm ==
  status = "err" /\ request \in Games =>
    \/ \E k \in Range(Pem[request]) : k \notin good
    \/ \E a \in DOMAIN by_path : header[a].bad # {} \/ header[a].tail # 0

(* Decrypted in place and truncated, a header is its plaintext from its      *)
(* first block to its last (rsa.rs:104-136).                                 *)
DecryptedIsPlaintext ==
  Decrypted =>
    LET out == OutLen(key)
    IN  SubSeq(bytes, 1, current.n * out) =
          [p \in 1..current.n * out |->
            <<TRUE, 1 + (p - 1) \div out, 1 + ((p - 1) % out)>>]
=============================================================================
