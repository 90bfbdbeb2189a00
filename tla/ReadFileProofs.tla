--------------------------- MODULE ReadFileProofs ---------------------------
(* Proofs about ReadFile: for every file, archive and request, and for every *)
(* size of blocks, windows and buffers that SizesAssumption allows.          *)
EXTENDS ReadFile, WellFoundedInduction, TLAPS

-----------------------------------------------------------------------------
(* The inductive invariant.  First the types: buffers are records, of which  *)
(* a raw one holds what the disk has.                                        *)
IsBuf(b) ==
  /\ b = [some |-> b.some, off |-> b.off, len |-> b.len, data |-> b.data]
  /\ b.some \in BOOLEAN /\ b.off \in Int /\ b.len \in Nat

IsRaw(b) == b.some /\ b.data = [i \in 0..(b.len - 1) |-> Disk(b.off + i)]

Streaming == {"plain", "pull"}
Turning == {"turn", "decrypt", "deliver"}
Active == pc \in Streaming \cup Turning

Types ==
  /\ rd \in Reads
  /\ pc \in {"entry"} \cup Streaming \cup Turning \cup Final
  /\ pos \in 0..2 /\ pushed \in BOOLEAN /\ last \in BOOLEAN /\ failed \in BOOLEAN
  /\ inner = [s \in 0..2 |-> inner[s]] /\ \A s \in 0..2 : IsBuf(inner[s])
  /\ out.len \in Nat

(* Where the stream is.                                                      *)
IsStream(s) ==
  /\ s = [at |-> s.at, cur |-> s.cur]
  /\ \/ s.at = "head" /\ s.cur = Max2(0, file_offset - Window) /\ file.encrypted
     \/ /\ s.at = "body"
        /\ s.cur \in Int /\ file_offset <= s.cur /\ s.cur < end
        /\ (s.cur - file_offset) % BufferLen = 0
     \/ s.at = "tail" /\ s.cur = end /\ file.encrypted
     \/ s.at = "window_head" /\ s.cur = file_offset - Window /\ OneWindow
     \/ s.at = "window_body" /\ s.cur = file_offset /\ OneWindow
     \/ s.at = "window_tail" /\ s.cur = end /\ OneWindow
     \/ s.at = "end" /\ s.cur = end

StreamAt ==
  Active =>
    /\ file.kind = "file" /\ (pc = "plain" <=> ~file.encrypted)
    /\ IsStream(stream)

(* What the ring holds: nothing until a chunk was pushed, then the newest    *)
(* chunk at pos, as it was read, and while main turns the one before it.     *)
RingIsEmpty == \A s \in 0..2 : ~inner[s].some
newest == inner[pos]
older == inner[PrevPos(pos)]

RingHolds ==
  /\ pc \in {"entry", "plain"} => RingIsEmpty /\ ~pushed /\ ~last
  /\ pc = "pull" => ~last /\ IF pushed THEN IsRaw(newest) ELSE RingIsEmpty
  /\ pc \in Turning =>
       /\ pushed
       /\ IF last THEN ~newest.some /\ stream.at = "end" ELSE IsRaw(newest)
       /\ ~older.some => pc = "turn" /\ RingIsEmpty
       /\ pc = "turn" /\ older.some => IsRaw(older)
       /\ pc # "turn" => IsBody

(* Which bytes they are.  The body chunks follow one another from the first  *)
(* byte that is not delivered; what is left out is not in the archive.       *)
IsBodyOf(b) == b.some /\ file_offset <= b.off /\ b.off < end
DeliveredTo == file_offset + out.len
Reach(b, from) == IF IsBodyOf(b) THEN b.off + b.len ELSE from
ReachOlder == IF pc \in Turning THEN Reach(older, DeliveredTo) ELSE DeliveredTo
Reached == Reach(newest, ReachOlder)
Position == IF stream.at \in {"head", "window_head"} THEN file_offset ELSE stream.cur

IsChunkFrom(b, from) ==
  IsBodyOf(b) =>
    /\ b.off = from /\ b.len > 0
    /\ b.off + b.len <= end
    /\ b.off + b.len = end \/ b.len = BufferLen
    /\ (b.off - file_offset) % BufferLen = 0

EndsBefore(p) == rd.bdt_size <= file.data_offset + p

ChunksFollow ==
  /\ pc = "entry" => out.len = 0
  /\ Active =>
       /\ pc \in Turning => IsChunkFrom(older, DeliveredTo)
       /\ IsChunkFrom(newest, ReachOlder)
       /\ Reached <= Position
       /\ Reached = Position \/ EndsBefore(Reached)
       /\ stream.at \in {"head", "window_head"} => ~pushed
       /\ stream.at \in {"window_body", "window_tail"} => Reached = Position

(* The chunk behind a body chunk is there, or the archive ends before it.    *)
TailLen == Min2(end + Window, file.len) - end
NoTail == TailLen = 0 \/ EndsBefore(end)

NeighbourIsNext ==
  /\ Active /\ stream.at = "end" /\ IsBodyOf(newest) => NoTail
  /\ pc \in Turning /\ IsBodyOf(older) =>
       IF last THEN NoTail
       ELSE /\ newest.off = older.off + older.len
            /\ newest.off >= end => newest.len = TailLen

(* What was delivered, and what the chunk being decrypted holds when the     *)
(* ranges below ri are done.                                                 *)
Covered(k, p) == file.ranges[k].start <= p /\ p < file.ranges[k].end
CoveredBelow(n, p) == \E k \in 1..file.n : k < n /\ Covered(k, p)
PlainBelow(n, p) == IF CoveredBelow(n, p) THEN Plain(p) ELSE Disk(p)
Benign == BlockAligned /\ ArchiveReaches

InPlace(n, data, from) ==
  \A i \in 0..(n - 1) :
    /\ data[i][2] = from + i
    /\ Expected(from + i)[1] = "disk" => data[i] = Disk(from + i)

DeliveredIsRight ==
  /\ out.len <= len
  /\ InPlace(out.len, out.data, file_offset)
  /\ Benign => \A i \in 0..(out.len - 1) : out.data[i] = Expected(file_offset + i)

ChunkIsRight ==
  /\ pc \in {"decrypt", "deliver"} =>
       /\ InPlace(older.len, older.data, older.off)
       /\ older.data = [i \in 0..(older.len - 1) |-> older.data[i]]
  /\ pc = "decrypt" =>
       /\ ri \in 1..file.n + 1
       /\ \A k \in 1..file.n : k >= ri => older.off < file.ranges[k].end
       /\ Benign => \A i \in 0..(older.len - 1) :
                      older.data[i] = PlainBelow(ri, older.off + i)
  /\ pc = "deliver" /\ Benign =>
       \A i \in 0..(older.len - 1) : older.data[i] = Expected(older.off + i)

(* A file of a complete archive.                                             *)
SomethingIsPushed ==
  Intact =>
    /\ pc = "err" => failed \/ file.kind # "file"
    /\ pc = "panic" => file.len = 0
    /\ pc = "pull" /\ ~pushed =>
         /\ stream.at \notin {"window_body", "window_tail"}
         /\ stream.at \in {"tail", "end"} => file_offset = 0 /\ end = 0
         /\ stream.at = "end" => file.len = 0
    /\ pc = "turn" /\ ~older.some => file.len = 0

IInv ==
  /\ Types /\ StreamAt /\ RingHolds /\ ChunksFollow /\ NeighbourIsNext
  /\ DeliveredIsRight /\ ChunkIsRight /\ SomethingIsPushed
  /\ NothingPresentIsDropped

-----------------------------------------------------------------------------
(* Arithmetic.                                                               *)
LEMMA ModIsRemainder ==
  ASSUME NEW a \in Int, NEW d \in Nat \ {0}
  PROVE  a % d \in Int /\ 0 <= a % d /\ a % d < d
OBVIOUS

LEMMA WithoutRemainder ==
  ASSUME NEW d \in Nat \ {0}, NEW a \in Int
  PROVE  (a - (a % d)) % d = 0
OBVIOUS

LEMMA Quotient ==
  ASSUME NEW d \in Nat \ {0}, NEW a \in Int, a % d = 0
  PROVE  \E q \in Int : a = d * q
OBVIOUS

LEMMA OfMultiple ==
  ASSUME NEW d \in Nat \ {0}, NEW q \in Int
  PROVE  (d * q) % d = 0
OBVIOUS

LEMMA Multiples ==
  ASSUME NEW d \in Nat \ {0}, NEW a \in Int, NEW b \in Int, a % d = 0, b % d = 0
  PROVE  (a + b) % d = 0 /\ (a - b) % d = 0
<1>1. PICK q \in Int : a = d * q
  BY Quotient
<1>2. PICK m \in Int : b = d * m
  BY Quotient
<1>3. a + b = d * (q + m) /\ a - b = d * (q - m)
  BY <1>1, <1>2
<1>4. (d * (q + m)) % d = 0 /\ (d * (q - m)) % d = 0
  BY OfMultiple
<1> QED
  BY <1>3, <1>4

LEMMA NextMultiple ==
  ASSUME NEW d \in Nat \ {0}, NEW a \in Int, NEW b \in Int,
         a % d = 0, b % d = 0, a < b
  PROVE  a + d <= b
<1>1. PICK q \in Int : a = d * q
  BY Quotient
<1>2. PICK m \in Int : b = d * m
  BY Quotient
<1>3. d * (m - q) = b - a
  BY <1>1, <1>2
<1>4. m - q >= 1
  BY <1>3
<1>5. d * (m - q) >= d
  BY <1>4
<1> QED
  BY <1>3, <1>5

LEMMA MultipleOfMultiple ==
  ASSUME NEW d \in Nat \ {0}, NEW e \in Nat \ {0}, NEW a \in Int,
         e % d = 0, a % e = 0
  PROVE  a % d = 0
<1>1. PICK q \in Int : a = e * q
  BY Quotient
<1>2. PICK m \in Int : e = d * m
  BY Quotient
<1>3. a = d * (m * q)
  BY <1>1, <1>2
<1>4. m * q \in Int
  OBVIOUS
<1>5. (d * (m * q)) % d = 0
  BY <1>4, OfMultiple
<1> QED
  BY <1>3, <1>5

-----------------------------------------------------------------------------
(* The request: it lies in the file, and so does the context behind it.      *)
LEMMA RequestOf ==
  ASSUME rd \in Reads
  PROVE  /\ file.len \in Nat /\ file.data_offset \in Nat /\ rd.bdt_size \in Nat
         /\ file.encrypted \in BOOLEAN /\ file.n \in Nat
         /\ file_offset \in Nat /\ len \in Nat /\ end \in Nat
         /\ end = file_offset + len /\ end <= file.len
         /\ data_start = file.data_offset + file_offset
<1> USE DEF file
<1>1. IsRead(rd)
  BY ReadsAssumption
<1>2. /\ file.len \in Nat /\ file.data_offset \in Nat /\ rd.bdt_size \in Nat
      /\ file.encrypted \in BOOLEAN /\ file.n \in Nat
      /\ file.unpadded_len \in 0..file.len /\ rd.offset \in Nat /\ rd.len \in Nat
  BY <1>1 DEF IsRead, IsFile
<1>3. unpadded_len \in Nat /\ unpadded_len <= file.len
  BY <1>2 DEF unpadded_len
<1> HIDE DEF file
<1>4. file_offset \in Nat /\ file_offset <= unpadded_len
  BY <1>2, <1>3 DEF file_offset, Min2
<1>5. len \in Nat /\ len <= unpadded_len - file_offset
  BY <1>2, <1>3, <1>4 DEF len, Min2
<1>6. end \in Nat /\ end = file_offset + len /\ end <= file.len
  BY <1>2, <1>3, <1>4, <1>5 DEF end
<1>7. data_start = file.data_offset + file_offset
  BY DEF data_start
<1> QED
  BY <1>2, <1>4, <1>5, <1>6, <1>7

LEMMA TailOf ==
  ASSUME rd \in Reads
  PROVE  /\ TailLen \in Nat /\ end + TailLen <= file.len
         /\ TailLen = Window \/ end + TailLen = file.len
         /\ TailLen <= Window
         /\ Min2(end + Window, file.len) = end + TailLen
BY RequestOf, SizesAssumption DEF TailLen, Min2

LEMMA RangesOf ==
  ASSUME rd \in Reads
  PROVE  /\ \A k \in 1..file.n : IsRange(file.ranges[k], file.len)
         /\ \A j, k \in 1..file.n : j < k => file.ranges[j].end <= file.ranges[k].start
<1>1. IsRead(rd)
  BY ReadsAssumption
<1> QED
  BY <1>1 DEF IsRead, IsFile, file

(* No step changes the request.                                              *)
LEMMA SameRequest ==
  ASSUME rd' = rd
  PROVE  /\ file' = file /\ file_offset' = file_offset /\ len' = len /\ end' = end
         /\ data_start' = data_start /\ OneWindow' = OneWindow
         /\ TailLen' = TailLen /\ Intact' = Intact /\ Benign' = Benign
<1>1. file' = file
  BY DEF file
<1>2. unpadded_len' = unpadded_len
  BY <1>1 DEF unpadded_len
<1>3. file_offset' = file_offset
  BY <1>2 DEF file_offset
<1>4. len' = len
  BY <1>2, <1>3 DEF len
<1>5. end' = end
  BY <1>3, <1>4 DEF end
<1>6. data_start' = data_start
  BY <1>1, <1>3 DEF data_start
<1>7. OneWindow' = OneWindow
  BY <1>1, <1>4, <1>6 DEF OneWindow
<1>8. TailLen' = TailLen
  BY <1>1, <1>5 DEF TailLen
<1>9. Intact' = Intact
  BY <1>1 DEF Intact
<1>10. BlockAligned' = BlockAligned
  BY <1>1, <1>3, <1>4 DEF BlockAligned
<1>11. ArchiveReaches' = ArchiveReaches
  BY <1>1, <1>5 DEF ArchiveReaches
<1>12. Benign' = Benign
  BY <1>10, <1>11 DEF Benign
<1> QED
  BY <1>1, <1>3, <1>4, <1>5, <1>6, <1>7, <1>8, <1>9, <1>12

LEMMA SameExpected ==
  ASSUME rd' = rd
  PROVE  \A p : Expected(p)' = Expected(p)
BY DEF Expected, InRange, file

-----------------------------------------------------------------------------
(* The ring.                                                                 *)
LEMMA RingPositions ==
  \A p \in 0..2 : /\ NextPos(p) \in 0..2 /\ PrevPos(p) \in 0..2
                 /\ PrevPos(NextPos(p)) = p
                 /\ NextPos(p) # p /\ PrevPos(p) # p
BY DEF NextPos, PrevPos

LEMMA DiskBufs ==
  ASSUME NEW p \in Int, NEW n \in Nat
  PROVE  /\ IsBuf(DiskBuf(p, n)) /\ IsRaw(DiskBuf(p, n))
         /\ DiskBuf(p, n).off = p /\ DiskBuf(p, n).len = n
BY DEF DiskBuf, IsBuf, IsRaw

LEMMA NoBufIs == IsBuf(NoBuf) /\ ~NoBuf.some
BY DEF NoBuf, IsBuf

LEMMA Pushes ==
  ASSUME Types, NEW buf, IsBuf(buf), Push(buf)
  PROVE  /\ newest' = buf /\ older' = newest /\ pushed' /\ pos' \in 0..2
         /\ inner' = [s \in 0..2 |-> inner'[s]] /\ \A s \in 0..2 : IsBuf(inner'[s])
<1>1. /\ pos \in 0..2 /\ inner = [s \in 0..2 |-> inner[s]]
      /\ \A s \in 0..2 : IsBuf(inner[s])
  BY DEF Types
<1>2. /\ pos' = NextPos(pos) /\ inner' = [inner EXCEPT ![NextPos(pos)] = buf]
      /\ pushed' = TRUE
  BY DEF Push
<1>3. NextPos(pos) \in 0..2 /\ PrevPos(NextPos(pos)) = pos /\ NextPos(pos) # pos
  BY <1>1, RingPositions
<1> HIDE DEF IsBuf
<1> DEFINE S == 0..2
<1> HIDE DEF S
<1>a. /\ pos \in S /\ NextPos(pos) \in S /\ inner = [s \in S |-> inner[s]]
      /\ \A s \in S : IsBuf(inner[s])
  BY <1>1, <1>3 DEF S
<1>4. inner' = [s \in S |-> IF s = NextPos(pos) THEN buf ELSE inner[s]]
  BY <1>a, <1>2
<1>5. newest' = buf
  BY <1>a, <1>2, <1>4 DEF newest
<1>6. older' = newest
  <2>1. older' = inner'[pos]
    BY <1>2, <1>3 DEF older
  <2> QED
    BY <2>1, <1>a, <1>3, <1>4 DEF newest
<1>7. inner' = [s \in S |-> inner'[s]] /\ \A s \in S : IsBuf(inner'[s])
  BY <1>a, <1>4
<1> QED
  BY <1>2, <1>3, <1>5, <1>6, <1>7 DEF S

LEMMA TurnsOlder ==
  ASSUME older.some
  PROVE  curr = older /\ CurrPos = PrevPos(pos) /\ next = newest
BY DEF older, newest, curr, CurrPos, next, HasPredecessor

LEMMA TurnsNone ==
  ASSUME RingIsEmpty, pos \in 0..2
  PROVE  ~curr.some /\ ~newest.some /\ ~older.some
BY RingPositions DEF RingIsEmpty, older, newest, curr, CurrPos, HasPredecessor

-----------------------------------------------------------------------------
(* The stream.                                                               *)
LEMMA BodyFromIs ==
  ASSUME rd \in Reads, NEW p \in Int, file_offset <= p, (p - file_offset) % BufferLen = 0
  PROVE  /\ IsStream(BodyFrom(p))
         /\ BodyFrom(p).cur = IF p < end THEN p ELSE end
         /\ BodyFrom(p).at = IF p < end THEN "body"
                             ELSE IF file.encrypted THEN "tail" ELSE "end"
<1>1. file_offset \in Nat /\ end \in Nat /\ file.encrypted \in BOOLEAN
  BY RequestOf
<1>2. CASE p < end
  <2>1. BodyFrom(p) = [at |-> "body", cur |-> p]
    BY <1>2 DEF BodyFrom
  <2> QED
    BY <1>1, <1>2, <2>1 DEF IsStream
<1>3. CASE ~(p < end) /\ file.encrypted
  <2>1. BodyFrom(p) = [at |-> "tail", cur |-> end]
    BY <1>3 DEF BodyFrom
  <2> QED
    BY <1>1, <1>3, <2>1 DEF IsStream
<1>4. CASE ~(p < end) /\ ~file.encrypted
  <2>1. BodyFrom(p) = [at |-> "end", cur |-> end]
    BY <1>4 DEF BodyFrom
  <2> QED
    BY <1>1, <1>4, <2>1 DEF IsStream
<1> QED
  BY <1>2, <1>3, <1>4

LEMMA StreamStarts ==
  ASSUME rd \in Reads
  PROVE  /\ IsStream(StreamInit)
         /\ file.encrypted => StreamInit.at \in {"head", "window_head"}
         /\ ~file.encrypted => StreamInit = BodyFrom(file_offset)
<1>1. file_offset \in Nat /\ end \in Nat /\ file.encrypted \in BOOLEAN
  BY RequestOf
<1>2. CASE OneWindow
  <2>1. StreamInit = [at |-> "window_head", cur |-> file_offset - Window]
    BY <1>2 DEF StreamInit
  <2> QED
    BY <1>2, <2>1 DEF IsStream, OneWindow
<1>3. CASE ~OneWindow /\ file.encrypted
  <2>1. StreamInit = [at |-> "head", cur |-> Max2(0, file_offset - Window)]
    BY <1>3 DEF StreamInit
  <2> QED
    BY <1>3, <2>1 DEF IsStream
<1>4. CASE ~OneWindow /\ ~file.encrypted
  <2>1. StreamInit = BodyFrom(file_offset)
    BY <1>4 DEF StreamInit
  <2>2. (file_offset - file_offset) % BufferLen = 0
    BY <1>1, SizesAssumption
  <2>3. IsStream(BodyFrom(file_offset))
    BY <1>1, <2>2, BodyFromIs
  <2> QED
    BY <1>4, <2>1, <2>3
<1> QED
  BY <1>2, <1>3, <1>4

(* What the item is that the stream is at: it lies in the file.              *)
LEMMA ItemOf ==
  ASSUME rd \in Reads, IsStream(stream), stream.at # "end"
  PROVE  /\ stream.cur \in Int /\ ItemLen \in Nat /\ ReadLen \in Nat
         /\ stream.cur + ReadLen <= file.len
         /\ stream.at = "head" =>
              /\ ItemLen = file_offset - stream.cur /\ ReadLen = ItemLen
              /\ ItemLen = 0 => file_offset = 0
         /\ stream.at = "body" =>
              /\ ItemLen = Min2(end - stream.cur, BufferLen) /\ ItemLen > 0
              /\ ReadLen = ItemLen
         /\ stream.at = "tail" => ItemLen = TailLen /\ ReadLen = ItemLen
         /\ stream.at = "window_head" => ItemLen = Window /\ ReadLen > 0
         /\ stream.at = "window_body" => ItemLen = len
         /\ stream.at = "window_tail" => ItemLen = TailLen
<1>1. /\ file_offset \in Nat /\ len \in Nat /\ end \in Nat
      /\ end = file_offset + len /\ end <= file.len /\ file.len \in Nat
  BY RequestOf
<1>2. /\ TailLen \in Nat /\ end + TailLen <= file.len
      /\ Min2(end + Window, file.len) = end + TailLen
  BY TailOf
<1>3. Window \in Nat /\ Window > 0 /\ BufferLen \in Nat /\ BufferLen > 0
  BY SizesAssumption
<1>4. CASE stream.at = "head"
  <2>1. stream.cur = Max2(0, file_offset - Window)
    BY <1>4 DEF IsStream
  <2>2. ItemLen = file_offset - stream.cur /\ ReadLen = ItemLen
    BY <1>4 DEF ItemLen, ReadLen
  <2> QED
    BY <1>1, <1>3, <1>4, <2>1, <2>2 DEF Max2
<1>5. CASE stream.at = "body"
  <2>1. stream.cur \in Int /\ file_offset <= stream.cur /\ stream.cur < end
    BY <1>5 DEF IsStream
  <2>2. ItemLen = Min2(end - stream.cur, BufferLen) /\ ReadLen = ItemLen
    BY <1>5 DEF ItemLen, ReadLen
  <2> QED
    BY <1>1, <1>3, <1>5, <2>1, <2>2 DEF Min2
<1>6. CASE stream.at = "tail"
  <2>1. stream.cur = end
    BY <1>6 DEF IsStream
  <2>2. ItemLen = Min2(end + Window, file.len) - end
    BY <1>6 DEF ItemLen
  <2>3. ReadLen = ItemLen
    BY <1>6 DEF ReadLen
  <2>4. ItemLen = end + TailLen - end
    BY <1>1, <1>2, <1>3, <2>2 DEF Min2, TailLen
  <2> QED
    BY <1>1, <1>2, <1>6, <2>1, <2>3, <2>4
<1>7. CASE stream.at = "window_head"
  <2>1. stream.cur = file_offset - Window
    BY <1>7 DEF IsStream
  <2>2. ItemLen = Window
    BY <1>7 DEF ItemLen
  <2>3. ReadLen = Min2(end + Window, file.len) - stream.cur
    BY <1>7 DEF ReadLen
  <2>4. ReadLen = end + TailLen - stream.cur
    BY <1>1, <1>2, <1>3, <2>1, <2>3 DEF Min2, TailLen
  <2> QED
    BY <1>1, <1>2, <1>3, <1>7, <2>1, <2>2, <2>4
<1>8. CASE stream.at = "window_body"
  <2>1. stream.cur = file_offset
    BY <1>8 DEF IsStream
  <2>2. ItemLen = len /\ ReadLen = ItemLen
    BY <1>8 DEF ItemLen, ReadLen
  <2> QED
    BY <1>1, <1>8, <2>1, <2>2
<1>9. CASE stream.at = "window_tail"
  <2>1. stream.cur = end
    BY <1>9 DEF IsStream
  <2>2. ItemLen = Min2(end + Window, file.len) - end
    BY <1>9 DEF ItemLen
  <2>3. ReadLen = ItemLen
    BY <1>9 DEF ReadLen
  <2>4. ItemLen = end + TailLen - end
    BY <1>1, <1>2, <1>3, <2>2 DEF Min2, TailLen
  <2> QED
    BY <1>1, <1>2, <1>9, <2>1, <2>3, <2>4
<1> QED
  BY <1>4, <1>5, <1>6, <1>7, <1>8, <1>9 DEF IsStream

(* Where the stream goes from there.                                         *)
LEMMA StreamGoesOn ==
  ASSUME rd \in Reads, IsStream(stream), stream.at # "end"
  PROVE  /\ IsStream(StreamNext) /\ IsStream(StreamSkip)
         /\ stream.at = "head" =>
              StreamNext = BodyFrom(file_offset) /\ StreamSkip = StreamNext
         /\ stream.at = "body" =>
              /\ StreamNext = BodyFrom(stream.cur + BufferLen) /\ StreamSkip = StreamNext
              /\ (stream.cur + BufferLen - file_offset) % BufferLen = 0
         /\ stream.at = "tail" =>
              StreamNext = [at |-> "end", cur |-> end] /\ StreamSkip = StreamNext
         /\ stream.at = "window_head" =>
              /\ StreamNext = [at |-> "window_body", cur |-> file_offset]
              /\ StreamSkip = [at |-> "end", cur |-> end]
         /\ stream.at = "window_body" => StreamNext = [at |-> "window_tail", cur |-> end]
         /\ stream.at = "window_tail" => StreamNext = [at |-> "end", cur |-> end]
<1>1. file_offset \in Nat /\ end \in Nat /\ BufferLen \in Nat \ {0}
  BY RequestOf, SizesAssumption
<1>2. IsStream([at |-> "end", cur |-> end])
  BY DEF IsStream
<1>3. CASE stream.at = "head"
  <2>1. StreamNext = BodyFrom(file_offset) /\ StreamSkip = StreamNext
    BY <1>3 DEF StreamNext, StreamSkip
  <2>2. (file_offset - file_offset) % BufferLen = 0
    BY <1>1
  <2>3. IsStream(BodyFrom(file_offset))
    BY <1>1, <2>2, BodyFromIs
  <2> QED
    BY <1>3, <2>1, <2>3
<1>4. CASE stream.at = "body"
  <2>1. StreamNext = BodyFrom(stream.cur + BufferLen) /\ StreamSkip = StreamNext
    BY <1>4 DEF StreamNext, StreamSkip
  <2>2. /\ stream.cur \in Int /\ file_offset <= stream.cur
        /\ (stream.cur - file_offset) % BufferLen = 0
    BY <1>4 DEF IsStream
  <2>3. (stream.cur + BufferLen - file_offset) % BufferLen = 0
    <3>1. BufferLen % BufferLen = 0
      BY <1>1
    <3>2. ((stream.cur - file_offset) + BufferLen) % BufferLen = 0
      BY <1>1, <2>2, <3>1, Multiples
    <3>3. (stream.cur - file_offset) + BufferLen = stream.cur + BufferLen - file_offset
      BY <1>1, <2>2
    <3> QED
      BY <3>2, <3>3
  <2>4. IsStream(BodyFrom(stream.cur + BufferLen))
    <3> DEFINE p == stream.cur + BufferLen
    <3>1. p \in Int /\ file_offset <= p /\ (p - file_offset) % BufferLen = 0
      BY <1>1, <2>2, <2>3
    <3> HIDE DEF p
    <3>2. IsStream(BodyFrom(p))
      BY <3>1, BodyFromIs
    <3> QED
      BY <3>2 DEF p
  <2> QED
    BY <1>4, <2>1, <2>3, <2>4
<1>5. CASE stream.at = "tail"
  <2>1. StreamNext = [at |-> "end", cur |-> end] /\ StreamSkip = StreamNext
    BY <1>5 DEF StreamNext, StreamSkip
  <2> QED
    BY <1>2, <1>5, <2>1
<1>6. CASE stream.at = "window_head"
  <2>1. /\ StreamNext = [at |-> "window_body", cur |-> file_offset]
        /\ StreamSkip = [at |-> "end", cur |-> end]
    BY <1>6 DEF StreamNext, StreamSkip
  <2>2. OneWindow
    BY <1>6 DEF IsStream
  <2>3. IsStream([at |-> "window_body", cur |-> file_offset])
    BY <2>2 DEF IsStream
  <2> QED
    BY <1>2, <1>6, <2>1, <2>3
<1>7. CASE stream.at = "window_body"
  <2>1. StreamNext = [at |-> "window_tail", cur |-> end] /\ StreamSkip = StreamNext
    BY <1>7 DEF StreamNext, StreamSkip
  <2>2. OneWindow
    BY <1>7 DEF IsStream
  <2>3. IsStream([at |-> "window_tail", cur |-> end])
    BY <2>2 DEF IsStream
  <2> QED
    BY <1>7, <2>1, <2>3
<1>8. CASE stream.at = "window_tail"
  <2>1. StreamNext = [at |-> "end", cur |-> end] /\ StreamSkip = StreamNext
    BY <1>8 DEF StreamNext, StreamSkip
  <2> QED
    BY <1>2, <1>8, <2>1
<1> QED
  BY <1>3, <1>4, <1>5, <1>6, <1>7, <1>8 DEF IsStream

-----------------------------------------------------------------------------
(* What a step that delivers nothing leaves alone.                           *)
LEMMA SameDelivered ==
  ASSUME DeliveredIsRight, rd' = rd, out' = out
  PROVE  DeliveredIsRight'
<1>1. /\ len' = len /\ file_offset' = file_offset /\ Benign' = Benign
      /\ \A p : Expected(p)' = Expected(p)
  BY SameRequest, SameExpected
<1> QED
  BY <1>1 DEF DeliveredIsRight, InPlace

(* A step that ends the read.                                                *)
LEMMA Stops ==
  ASSUME IInv, pc' \in Final, failed' \in BOOLEAN,
         UNCHANGED <<rd, stream, out>>, RingUnchanged,
         pc' = "done" => out.len = len \/ rd.bdt_size <= data_start + out.len,
         Intact /\ pc' = "err" => failed' \/ file.kind # "file",
         Intact /\ pc' = "panic" => file.len = 0
  PROVE  IInv'
<1>1. /\ file' = file /\ len' = len /\ data_start' = data_start /\ Intact' = Intact
  BY SameRequest
<1>2. /\ pc' \notin {"entry", "plain", "pull", "turn", "decrypt", "deliver"}
      /\ ~Active' /\ pc' \notin Turning
  BY DEF Final, Active, Turning, Streaming
<1>3. Types'
  BY DEF IInv, Types, RingUnchanged, IsBuf
<1>4. StreamAt' /\ RingHolds' /\ ChunksFollow' /\ NeighbourIsNext' /\ ChunkIsRight'
  BY <1>2 DEF StreamAt, RingHolds, ChunksFollow, NeighbourIsNext, ChunkIsRight
<1>5. DeliveredIsRight'
  BY SameDelivered DEF IInv
<1>6. SomethingIsPushed'
  BY <1>1, <1>2 DEF SomethingIsPushed
<1>7. NothingPresentIsDropped'
  BY <1>1 DEF NothingPresentIsDropped
<1> QED
  BY <1>3, <1>4, <1>5, <1>6, <1>7 DEF IInv

LEMMA Stutters == ASSUME IInv, UNCHANGED vars PROVE IInv'
<1> USE DEF vars
<1>1. /\ file' = file /\ file_offset' = file_offset /\ len' = len /\ end' = end
      /\ data_start' = data_start /\ OneWindow' = OneWindow
      /\ TailLen' = TailLen /\ Intact' = Intact /\ Benign' = Benign
      /\ \A p : Expected(p)' = Expected(p)
  BY SameRequest, SameExpected
<1>2. newest' = newest /\ older' = older /\ Active' = Active
  BY DEF newest, older, Active
<1>3. Types'
  BY DEF IInv, Types, IsBuf
<1>4. StreamAt'
  BY <1>1, <1>2 DEF IInv, StreamAt, IsStream
<1>5. RingHolds'
  BY <1>1, <1>2 DEF IInv, RingHolds, RingIsEmpty, IsRaw, IsBody, curr, CurrPos, HasPredecessor
<1>6. ChunksFollow'
  BY <1>1, <1>2 DEF IInv, ChunksFollow, IsChunkFrom, DeliveredTo, ReachOlder, Reached,
                    Reach, Position, EndsBefore, IsBodyOf
<1>7. NeighbourIsNext'
  BY <1>1, <1>2 DEF IInv, NeighbourIsNext, NoTail, EndsBefore, IsBodyOf
<1>8. DeliveredIsRight'
  BY SameDelivered DEF IInv
<1>9. ChunkIsRight'
  BY <1>1, <1>2 DEF IInv, ChunkIsRight, InPlace, PlainBelow, CoveredBelow, Covered
<1>10. SomethingIsPushed'
  BY <1>1, <1>2 DEF IInv, SomethingIsPushed
<1>11. NothingPresentIsDropped'
  BY <1>1 DEF IInv, NothingPresentIsDropped
<1> QED
  BY <1>3, <1>4, <1>5, <1>6, <1>7, <1>8, <1>9, <1>10, <1>11 DEF IInv

-----------------------------------------------------------------------------
(* One lemma for each action.                                                *)
LEMMA EntryKeeps == ASSUME IInv, Entry PROVE IInv'
<1>1. pc' \in Final /\ pc' = "err" /\ file.kind # "file" /\ failed' = failed
  BY DEF Entry, Final
<1>2. failed' \in BOOLEAN
  BY <1>1 DEF IInv, Types
<1> QED
  BY <1>1, <1>2, Stops DEF Entry

LEMMA OpenFailsKeeps == ASSUME IInv, OpenFails PROVE IInv'
BY Stops DEF OpenFails, Final

LEMMA ReadFailsKeeps == ASSUME IInv, ReadFails PROVE IInv'
BY Stops DEF ReadFails, Final

LEMMA PlainChunkRefusedKeeps == ASSUME IInv, PlainChunkRefused PROVE IInv'
BY Stops DEF PlainChunkRefused, Final

LEMMA DeliverRefusedKeeps == ASSUME IInv, DeliverRefused PROVE IInv'
BY Stops DEF DeliverRefused, Final

(* While main pulls, what is reached is what is delivered and the newest     *)
(* chunk.                                                                    *)
LEMMA Pulling ==
  ASSUME IInv, pc \in {"plain", "pull"}
  PROVE  /\ Active /\ pc \notin Turning /\ rd \in Reads /\ IsStream(stream)
         /\ ReachOlder = DeliveredTo /\ out.len \in Nat /\ DeliveredTo \in Nat
         /\ Reached \in Int
         /\ ~IsBodyOf(newest) => Reached = DeliveredTo
         /\ pc = "plain" => ~newest.some
         /\ pc = "pull" /\ ~pushed => ~newest.some
         /\ ~newest.some => ~IsBodyOf(newest)
<1>1. Active /\ pc \notin Turning
  BY DEF Active, Streaming, Turning
<1>2. rd \in Reads /\ out.len \in Nat /\ pos \in 0..2 /\ IsBuf(newest)
  BY DEF IInv, Types, newest
<1>3. IsStream(stream)
  BY <1>1 DEF IInv, StreamAt
<1>4. file_offset \in Nat
  BY <1>2, RequestOf
<1>5. ReachOlder = DeliveredTo /\ DeliveredTo \in Nat
  BY <1>1, <1>2, <1>4 DEF ReachOlder, DeliveredTo
<1>6. Reached \in Int /\ (~IsBodyOf(newest) => Reached = DeliveredTo)
  BY <1>2, <1>5 DEF Reached, Reach, IsBuf
<1>7. /\ pc = "plain" => ~newest.some
      /\ pc = "pull" /\ ~pushed => ~newest.some
  BY <1>2, TurnsNone DEF IInv, RingHolds
<1>8. ~newest.some => ~IsBodyOf(newest)
  BY DEF IsBodyOf
<1> QED
  BY <1>1, <1>2, <1>3, <1>5, <1>6, <1>7, <1>8

LEMMA PlainDoneKeeps == ASSUME IInv, PlainDone PROVE IInv'
<1>1. pc = "plain" /\ stream.at = "end" /\ pc' = "done"
  BY DEF PlainDone
<1>2. /\ Active /\ rd \in Reads /\ IsStream(stream) /\ out.len \in Nat
      /\ Reached = DeliveredTo
  BY <1>1, Pulling
<1>3. Position = end
  BY <1>1, <1>2 DEF Position, IsStream
<1>4. Reached = Position \/ EndsBefore(Reached)
  BY <1>2 DEF IInv, ChunksFollow
<1>5. out.len = len \/ rd.bdt_size <= data_start + out.len
  BY <1>2, <1>3, <1>4, RequestOf DEF DeliveredTo, EndsBefore
<1>6. failed' \in BOOLEAN
  BY DEF IInv, Types, PlainDone
<1> QED
  BY <1>1, <1>5, <1>6, Stops DEF PlainDone, Final

LEMMA ReadTruncatedKeeps == ASSUME IInv, ReadTruncated PROVE IInv'
<1>1. pc \in {"plain", "pull"} /\ stream.at # "end" /\ ReadShort /\ pc' = "err"
  BY DEF ReadTruncated
<1>2. rd \in Reads /\ IsStream(stream)
  BY <1>1, Pulling
<1>3. /\ stream.cur \in Int /\ ReadLen \in Nat /\ stream.cur + ReadLen <= file.len
  BY <1>1, <1>2, ItemOf
<1>4. ~Intact
  BY <1>1, <1>2, <1>3, RequestOf DEF Intact, ReadShort, ReadPos
<1>5. failed' \in BOOLEAN
  BY DEF IInv, Types, ReadTruncated
<1> QED
  BY <1>1, <1>4, <1>5, Stops DEF ReadTruncated, Final

LEMMA TurnEmptyKeeps == ASSUME IInv, TurnEmpty PROVE IInv'
<1>1. pc = "turn" /\ ~curr.some /\ pc' = "panic"
  BY DEF TurnEmpty
<1>2. ~older.some
  BY <1>1, TurnsOlder
<1>3. Intact => file.len = 0
  BY <1>1, <1>2 DEF IInv, SomethingIsPushed
<1>4. failed' \in BOOLEAN
  BY DEF IInv, Types, TurnEmpty
<1> QED
  BY <1>1, <1>3, <1>4, Stops DEF TurnEmpty, Final

LEMMA SameRing ==
  ASSUME RingUnchanged, rd' = rd
  PROVE  /\ newest' = newest /\ older' = older /\ RingIsEmpty' = RingIsEmpty
         /\ curr' = curr /\ IsBody' = IsBody
         /\ inner' = inner /\ pos' = pos /\ pushed' = pushed /\ last' = last /\ ri' = ri
         /\ IsBodyOf(newest)' = IsBodyOf(newest)
<1>1. inner' = inner /\ pos' = pos /\ pushed' = pushed /\ last' = last /\ ri' = ri
  BY DEF RingUnchanged
<1>2. newest' = newest /\ older' = older /\ RingIsEmpty' = RingIsEmpty
  BY <1>1 DEF newest, older, RingIsEmpty
<1>3. curr' = curr
  BY <1>1 DEF curr, CurrPos, HasPredecessor
<1>4. file_offset' = file_offset /\ end' = end
  BY SameRequest
<1> QED
  BY <1>1, <1>2, <1>3, <1>4 DEF IsBody, IsBodyOf

LEMMA OpenKeeps == ASSUME IInv, Open PROVE IInv'
<1>1. /\ pc = "entry" /\ file.kind = "file" /\ rd' = rd /\ out' = out /\ failed' = failed
      /\ RingUnchanged
  BY DEF Open
<1>2. rd \in Reads /\ pos \in 0..2 /\ failed \in BOOLEAN
  BY DEF IInv, Types
<1>3. EndBoundsHold
  BY <1>2, RequestOf DEF EndBoundsHold
<1>4. /\ pc' = (IF file.encrypted THEN "pull" ELSE "plain") /\ stream' = StreamInit
  BY <1>3 DEF Open
<1>5. /\ file' = file /\ file_offset' = file_offset /\ len' = len /\ end' = end
      /\ OneWindow' = OneWindow /\ Intact' = Intact
  BY <1>1, SameRequest
<1>6. /\ newest' = newest /\ older' = older /\ RingIsEmpty' = RingIsEmpty
      /\ inner' = inner /\ pos' = pos /\ pushed' = pushed /\ last' = last /\ ri' = ri
  BY <1>1, SameRing
<1>7. RingIsEmpty /\ ~pushed /\ ~last /\ out.len = 0 /\ ~newest.some
  BY <1>1, <1>2, TurnsNone DEF IInv, RingHolds, ChunksFollow
<1>8. /\ pc' \in {"plain", "pull"} /\ Active' /\ pc' \notin Turning
      /\ pc' \in Streaming /\ (pc' = "plain" <=> ~file.encrypted)
  BY <1>2, <1>4, RequestOf DEF Active, Streaming, Turning
<1>9. /\ IsStream(StreamInit)
      /\ file.encrypted => StreamInit.at \in {"head", "window_head"}
      /\ ~file.encrypted => StreamInit = BodyFrom(file_offset)
  BY <1>2, StreamStarts
<1>10. /\ file_offset \in Nat /\ end \in Nat /\ file_offset <= end
       /\ file.encrypted \in BOOLEAN
  BY <1>2, RequestOf
<1>11. ~file.encrypted =>
         /\ BodyFrom(file_offset).cur = file_offset
         /\ BodyFrom(file_offset).at \in {"body", "end"}
  <2>1. (file_offset - file_offset) % BufferLen = 0
    BY <1>10, SizesAssumption
  <2>2. /\ BodyFrom(file_offset).cur = IF file_offset < end THEN file_offset ELSE end
        /\ BodyFrom(file_offset).at = IF file_offset < end THEN "body"
                                      ELSE IF file.encrypted THEN "tail" ELSE "end"
    BY <1>2, <1>10, <2>1, BodyFromIs
  <2> QED
    BY <1>10, <2>2
<1>12. Types'
  BY <1>1, <1>6, <1>8 DEF IInv, Types, IsBuf
<1>13. StreamAt'
  BY <1>1, <1>4, <1>5, <1>8, <1>9 DEF StreamAt, IsStream
<1>14. RingHolds'
  BY <1>6, <1>7, <1>8 DEF RingHolds, Turning
<1>15. ChunksFollow'
  <2>1. ~IsBodyOf(newest)'
    BY <1>6, <1>7 DEF IsBodyOf
  <2>2. DeliveredTo' = file_offset
    BY <1>1, <1>5, <1>7, <1>10 DEF DeliveredTo
  <2>3. Reached' = file_offset
    BY <1>8, <2>1, <2>2 DEF Reached, Reach, ReachOlder
  <2>4. Position' = file_offset
    BY <1>4, <1>5, <1>9, <1>10, <1>11 DEF Position
  <2>5. stream'.at \notin {"window_body", "window_tail"}
    BY <1>4, <1>9, <1>10, <1>11
  <2>6. pc' # "entry" /\ ~pushed'
    BY <1>6, <1>7, <1>8
  <2> QED
    BY <1>8, <1>10, <2>1, <2>3, <2>4, <2>5, <2>6 DEF ChunksFollow, IsChunkFrom
<1>16. NeighbourIsNext'
  BY <1>6, <1>7, <1>8 DEF NeighbourIsNext, IsBodyOf
<1>17. DeliveredIsRight'
  BY <1>1, SameDelivered DEF IInv
<1>18. ChunkIsRight'
  BY <1>8 DEF ChunkIsRight
<1>19. SomethingIsPushed'
  BY <1>4, <1>8, <1>9, <1>10 DEF SomethingIsPushed
<1>20. NothingPresentIsDropped'
  BY <1>8 DEF NothingPresentIsDropped
<1> QED
  BY <1>12, <1>13, <1>14, <1>15, <1>16, <1>17, <1>18, <1>19, <1>20 DEF IInv

(* What a dropped item leaves: nothing that is in the archive.               *)
LEMMA SkipOf ==
  ASSUME IInv, pc \in {"plain", "pull"}, stream.at # "end", ReadNone
  PROVE  /\ StreamSkip.at \in {"body", "tail", "end"}
         /\ Reached <= StreamSkip.cur
         /\ Reached = StreamSkip.cur \/ EndsBefore(Reached)
         /\ StreamSkip.at = "end" /\ IsBodyOf(newest) => NoTail
         /\ Intact /\ pc = "pull" /\ ~pushed =>
              /\ StreamSkip.at \in {"tail", "end"} => file_offset = 0 /\ end = 0
              /\ StreamSkip.at = "end" => file.len = 0
<1>1. /\ Active /\ rd \in Reads /\ IsStream(stream)
      /\ DeliveredTo \in Nat /\ out.len \in Nat /\ Reached \in Int
      /\ ~IsBodyOf(newest) => Reached = DeliveredTo
      /\ pc = "plain" => ~newest.some
      /\ pc = "pull" /\ ~pushed => ~newest.some
      /\ ~newest.some => ~IsBodyOf(newest)
  BY Pulling
<1>2. /\ Reached <= Position /\ (Reached = Position \/ EndsBefore(Reached))
      /\ stream.at \in {"head", "window_head"} => ~pushed
  BY <1>1 DEF IInv, ChunksFollow
<1>3. /\ file_offset \in Nat /\ len \in Nat /\ end \in Nat /\ end = file_offset + len
      /\ end <= file.len /\ file.len \in Nat /\ file.data_offset \in Nat
      /\ rd.bdt_size \in Nat /\ file.encrypted \in BOOLEAN
  BY <1>1, RequestOf
<1>4. ~IsSplit /\ (ReadLen = 0 \/ file.data_offset + stream.cur >= rd.bdt_size)
  BY DEF ReadNone, ReadPos
<1>5. stream.cur \in Int /\ ItemLen \in Nat /\ ReadLen \in Nat
  BY <1>1, ItemOf
<1>6. Window \in Nat \ {0} /\ BufferLen \in Nat \ {0}
  BY SizesAssumption
<1>7. pc = "plain" <=> ~file.encrypted
  BY <1>1 DEF IInv, StreamAt
<1>8. ~pushed => ~newest.some
  BY <1>1
<1>9. CASE stream.at = "head"
  <2>1. StreamSkip = BodyFrom(file_offset)
    BY <1>1, <1>9, StreamGoesOn
  <2>2. (file_offset - file_offset) % BufferLen = 0
    BY <1>3, <1>6
  <2>3. /\ BodyFrom(file_offset).cur = IF file_offset < end THEN file_offset ELSE end
        /\ BodyFrom(file_offset).at = IF file_offset < end THEN "body"
                                      ELSE IF file.encrypted THEN "tail" ELSE "end"
    BY <1>1, <1>3, <2>2, BodyFromIs
  <2>4. file.encrypted /\ stream.cur = Max2(0, file_offset - Window)
    BY <1>1, <1>9 DEF IsStream
  <2>5. StreamSkip.cur = file_offset /\ Position = file_offset
    BY <1>3, <1>9, <2>1, <2>3 DEF Position
  <2>6. ReadLen = file_offset - stream.cur /\ (ReadLen = 0 => file_offset = 0)
    BY <1>1, <1>9, ItemOf
  <2>7. Intact => file_offset = 0
    BY <1>3, <1>4, <1>6, <2>4, <2>6 DEF Intact, Max2
  <2> QED
    BY <1>2, <1>3, <2>1, <2>3, <2>4, <2>5, <2>7
<1>10. CASE stream.at = "body"
  <2>1. /\ StreamSkip = BodyFrom(stream.cur + BufferLen)
        /\ (stream.cur + BufferLen - file_offset) % BufferLen = 0
    BY <1>1, <1>10, StreamGoesOn
  <2>2. file_offset <= stream.cur /\ stream.cur < end
    BY <1>1, <1>10 DEF IsStream
  <2>3. /\ BodyFrom(stream.cur + BufferLen).cur =
             (IF stream.cur + BufferLen < end THEN stream.cur + BufferLen ELSE end)
        /\ BodyFrom(stream.cur + BufferLen).at =
             (IF stream.cur + BufferLen < end THEN "body"
              ELSE IF file.encrypted THEN "tail" ELSE "end")
    <3> DEFINE p == stream.cur + BufferLen
    <3>1. p \in Int /\ file_offset <= p /\ (p - file_offset) % BufferLen = 0
      BY <1>3, <1>5, <1>6, <2>1, <2>2
    <3> HIDE DEF p
    <3>2. /\ BodyFrom(p).cur = IF p < end THEN p ELSE end
          /\ BodyFrom(p).at = IF p < end THEN "body"
                              ELSE IF file.encrypted THEN "tail" ELSE "end"
      BY <1>1, <3>1, BodyFromIs
    <3> QED
      BY <3>2 DEF p
  <2>4. ReadLen > 0
    BY <1>1, <1>10, ItemOf
  <2>5. Position = stream.cur
    BY <1>10 DEF Position
  <2>6. EndsBefore(Reached) /\ Reached <= stream.cur
    BY <1>1, <1>2, <1>3, <1>4, <1>5, <2>4, <2>5 DEF EndsBefore
  <2>7. ~Intact
    BY <1>3, <1>4, <1>5, <2>2, <2>4 DEF Intact
  <2>8. StreamSkip.cur >= stream.cur
    BY <1>3, <1>5, <1>6, <2>1, <2>2, <2>3
  <2>9. /\ StreamSkip.at \in {"body", "tail", "end"}
        /\ StreamSkip.at = "end" => ~file.encrypted
    BY <1>3, <2>1, <2>3
  <2>10. StreamSkip.at = "end" => ~IsBodyOf(newest)
    BY <1>1, <1>7, <2>9
  <2>11. StreamSkip.cur \in Int
    BY <1>3, <1>5, <1>6, <2>1, <2>3
  <2> QED
    BY <1>1, <1>5, <2>6, <2>7, <2>8, <2>9, <2>10, <2>11
<1>11. CASE stream.at = "tail"
  <2>1. StreamSkip = [at |-> "end", cur |-> end]
    BY <1>1, <1>11, StreamGoesOn
  <2>2. stream.cur = end
    BY <1>1, <1>11 DEF IsStream
  <2>3. ReadLen = TailLen
    BY <1>1, <1>11, ItemOf
  <2>4. Position = end
    BY <1>11, <2>2 DEF Position
  <2>5. NoTail
    BY <1>4, <2>2, <2>3 DEF NoTail, EndsBefore
  <2>6. TailLen \in Nat /\ (TailLen = Window \/ end + TailLen = file.len)
    BY <1>1, TailOf
  <2>7. Intact /\ pc = "pull" /\ ~pushed => file_offset = 0 /\ end = 0
    BY <1>11 DEF IInv, SomethingIsPushed
  <2>8. Intact => end = file.len
    BY <1>3, <1>4, <1>6, <2>2, <2>3, <2>6 DEF Intact
  <2> QED
    BY <1>2, <1>3, <2>1, <2>4, <2>5, <2>7, <2>8
<1>12. CASE stream.at = "window_head"
  <2>1. StreamSkip = [at |-> "end", cur |-> end]
    BY <1>1, <1>12, StreamGoesOn
  <2>2. stream.cur = file_offset - Window
    BY <1>1, <1>12 DEF IsStream
  <2>3. ReadLen > 0
    BY <1>1, <1>12, ItemOf
  <2>4. Position = file_offset
    BY <1>12 DEF Position
  <2>5. ~IsBodyOf(newest) /\ Reached = file_offset + out.len
    BY <1>1, <1>2, <1>8, <1>12 DEF DeliveredTo
  <2>6. EndsBefore(Reached) /\ Reached <= end
    BY <1>1, <1>2, <1>3, <1>4, <1>6, <2>2, <2>3, <2>4, <2>5 DEF EndsBefore
  <2>7. ~Intact
    BY <1>3, <1>4, <1>6, <2>2, <2>3 DEF Intact
  <2> QED
    BY <2>1, <2>5, <2>6, <2>7
<1> QED
  BY <1>1, <1>4, <1>9, <1>10, <1>11, <1>12 DEF IsStream, IsSplit

LEMMA ReadSkipsKeeps == ASSUME IInv, ReadSkips PROVE IInv'
<1>1. /\ pc \in {"plain", "pull"} /\ stream.at # "end" /\ ReadNone
      /\ stream' = StreamSkip
      /\ rd' = rd /\ pc' = pc /\ out' = out /\ failed' = failed /\ RingUnchanged
  BY DEF ReadSkips
<1>2. /\ Active /\ pc \notin Turning /\ rd \in Reads /\ IsStream(stream)
  BY <1>1, Pulling
<1>3. /\ file' = file /\ file_offset' = file_offset /\ len' = len /\ end' = end
      /\ OneWindow' = OneWindow /\ Intact' = Intact /\ TailLen' = TailLen
  BY <1>1, SameRequest
<1>4. /\ newest' = newest /\ older' = older /\ RingIsEmpty' = RingIsEmpty
      /\ inner' = inner /\ pos' = pos /\ pushed' = pushed /\ last' = last /\ ri' = ri
      /\ IsBodyOf(newest)' = IsBodyOf(newest)
  BY <1>1, SameRing
<1>5. /\ StreamSkip.at \in {"body", "tail", "end"}
      /\ Reached <= StreamSkip.cur
      /\ Reached = StreamSkip.cur \/ EndsBefore(Reached)
      /\ StreamSkip.at = "end" /\ IsBodyOf(newest) => NoTail
      /\ Intact /\ pc = "pull" /\ ~pushed =>
           /\ StreamSkip.at \in {"tail", "end"} => file_offset = 0 /\ end = 0
           /\ StreamSkip.at = "end" => file.len = 0
  BY <1>1, SkipOf
<1>6. IsStream(StreamSkip)
  BY <1>1, <1>2, StreamGoesOn
<1>7. Active' /\ pc' \notin Turning
  BY <1>1, <1>2 DEF Active
<1>8. Types'
  BY <1>1, <1>4 DEF IInv, Types, IsBuf
<1>9. StreamAt'
  BY <1>1, <1>2, <1>3, <1>6 DEF IInv, StreamAt, IsStream
<1>10. RingHolds'
  BY <1>1, <1>2, <1>4 DEF IInv, RingHolds, IsRaw, Turning
<1>11. ChunksFollow'
  <2>1. DeliveredTo' = DeliveredTo
    BY <1>1, <1>3 DEF DeliveredTo
  <2>2. ReachOlder' = DeliveredTo /\ ReachOlder = DeliveredTo
    BY <1>2, <1>7, <2>1 DEF ReachOlder
  <2>3. Reached' = Reached
    BY <1>4, <2>2 DEF Reached, Reach
  <2>4. Position' = StreamSkip.cur
    BY <1>1, <1>5 DEF Position
  <2>5. IsChunkFrom(newest, DeliveredTo)
    BY <1>2, <2>2 DEF IInv, ChunksFollow
  <2>6. IsChunkFrom(newest, ReachOlder)'
    BY <1>3, <1>4, <2>2, <2>5 DEF IsChunkFrom
  <2>7. Reached' <= Position' /\ (Reached' = Position' \/ EndsBefore(Reached)')
    BY <1>1, <1>3, <1>5, <2>3, <2>4 DEF EndsBefore
  <2>8. /\ pc' # "entry"
        /\ stream'.at \notin {"head", "window_head", "window_body", "window_tail"}
    BY <1>1, <1>5
  <2> QED
    BY <1>7, <2>6, <2>7, <2>8 DEF ChunksFollow
<1>12. NeighbourIsNext'
  BY <1>1, <1>3, <1>4, <1>5, <1>7 DEF NeighbourIsNext, NoTail, EndsBefore
<1>13. DeliveredIsRight'
  BY <1>1, SameDelivered DEF IInv
<1>14. ChunkIsRight'
  BY <1>1 DEF ChunkIsRight
<1>15. SomethingIsPushed'
  BY <1>1, <1>3, <1>4, <1>5 DEF SomethingIsPushed
<1>16. NothingPresentIsDropped'
  BY <1>1 DEF NothingPresentIsDropped
<1> QED
  BY <1>8, <1>9, <1>10, <1>11, <1>12, <1>13, <1>14, <1>15, <1>16 DEF IInv

(* What is read continues what was reached.                                  *)
LEMMA ItemFollows ==
  ASSUME IInv, pc \in {"plain", "pull"}, stream.at # "end", ReadOk,
         NEW b, b = DiskBuf(stream.cur, ItemLen)
  PROVE  /\ IsBuf(b) /\ IsRaw(b) /\ b.off = stream.cur /\ b.len = ItemLen
         /\ IsChunkFrom(b, Reached)
         /\ Reach(b, Reached) = StreamNext.cur
         /\ stream.at \notin {"head", "window_head"} => Reached = stream.cur
         /\ IsBodyOf(b) => stream.at \in {"body", "window_body"}
         /\ StreamNext.at \notin {"head", "window_head"}
         /\ StreamNext.at = "end" => ~file.encrypted \/ ~IsBodyOf(b)
         /\ b.off >= end /\ len > 0 => b.len = TailLen
         /\ stream.at \notin {"window_head", "window_body"} =>
              StreamNext.at \notin {"window_body", "window_tail"}
<1>1. /\ Active /\ rd \in Reads /\ IsStream(stream)
      /\ DeliveredTo \in Nat /\ out.len \in Nat /\ Reached \in Int
      /\ ~IsBodyOf(newest) => Reached = DeliveredTo
      /\ pc = "plain" => ~newest.some
      /\ pc = "pull" /\ ~pushed => ~newest.some
      /\ ~newest.some => ~IsBodyOf(newest)
  BY Pulling
<1>2. /\ Reached <= Position /\ (Reached = Position \/ EndsBefore(Reached))
      /\ stream.at \in {"head", "window_head"} => ~pushed
      /\ stream.at \in {"window_body", "window_tail"} => Reached = Position
  BY <1>1 DEF IInv, ChunksFollow
<1>3. /\ file_offset \in Nat /\ len \in Nat /\ end \in Nat /\ end = file_offset + len
      /\ end <= file.len /\ file.len \in Nat /\ file.data_offset \in Nat
      /\ rd.bdt_size \in Nat /\ file.encrypted \in BOOLEAN
  BY <1>1, RequestOf
<1>4. IsSplit \/ ~(ReadLen = 0 \/ file.data_offset + stream.cur >= rd.bdt_size)
  BY DEF ReadOk, ReadNone, ReadPos
<1>5. stream.cur \in Int /\ ItemLen \in Nat /\ ReadLen \in Nat
  BY <1>1, ItemOf
<1>6. Window \in Nat \ {0} /\ BufferLen \in Nat \ {0}
  BY SizesAssumption
<1>7. IsBuf(b) /\ IsRaw(b) /\ b.off = stream.cur /\ b.len = ItemLen /\ b.some
  BY <1>5, DiskBufs DEF IsRaw
<1>8. stream.at \notin {"head", "window_head"} => Reached = stream.cur
  <2> SUFFICES ASSUME stream.at \notin {"head", "window_head"} PROVE Reached = stream.cur
    OBVIOUS
  <2>1. Position = stream.cur
    BY DEF Position
  <2>2. CASE IsSplit
    BY <1>2, <2>1, <2>2 DEF IsSplit
  <2>3. CASE ~IsSplit
    BY <1>1, <1>2, <1>3, <1>4, <1>5, <2>1, <2>3 DEF EndsBefore
  <2> QED
    BY <2>2, <2>3
<1>9. stream.at \in {"head", "window_head"} => Reached = file_offset
  <2> SUFFICES ASSUME stream.at \in {"head", "window_head"} PROVE Reached = file_offset
    OBVIOUS
  <2>1. Position = file_offset
    BY DEF Position
  <2>2. Reached = file_offset + out.len
    BY <1>1, <1>2 DEF DeliveredTo
  <2> QED
    BY <1>1, <1>2, <1>3, <2>1, <2>2
<1>10. CASE stream.at \in {"head", "window_head"}
  <2>1. stream.cur < file_offset
    <3>1. CASE stream.at = "head"
      <4>1. ItemLen = file_offset - stream.cur /\ ReadLen = ItemLen
        BY <1>1, <3>1, ItemOf
      <4>2. ReadLen # 0
        BY <1>4, <3>1 DEF IsSplit
      <4> QED
        BY <1>3, <1>5, <4>1, <4>2
    <3>2. CASE stream.at = "window_head"
      <4>1. stream.cur = file_offset - Window
        BY <1>1, <3>2 DEF IsStream
      <4> QED
        BY <1>3, <1>6, <4>1
    <3> QED
      BY <1>10, <3>1, <3>2
  <2>2. ~IsBodyOf(b) /\ ~(b.off >= end)
    BY <1>3, <1>5, <1>7, <2>1 DEF IsBodyOf
  <2>3. StreamNext.cur = file_offset /\ StreamNext.at \notin {"head", "window_head", "end"}
    <3>1. CASE stream.at = "head"
      <4>1. StreamNext = BodyFrom(file_offset) /\ file.encrypted
        BY <1>1, <3>1, StreamGoesOn DEF IsStream
      <4>2. (file_offset - file_offset) % BufferLen = 0
        BY <1>3, <1>6
      <4>3. /\ BodyFrom(file_offset).cur = IF file_offset < end THEN file_offset ELSE end
            /\ BodyFrom(file_offset).at = IF file_offset < end THEN "body"
                                          ELSE IF file.encrypted THEN "tail" ELSE "end"
        BY <1>1, <1>3, <4>2, BodyFromIs
      <4> QED
        BY <1>3, <4>1, <4>3
    <3>2. CASE stream.at = "window_head"
      BY <1>1, <3>2, StreamGoesOn
    <3> QED
      BY <1>10, <3>1, <3>2
  <2>4. stream.at # "window_head" => StreamNext.at \notin {"window_body", "window_tail"}
    <3> SUFFICES ASSUME stream.at = "head"
                 PROVE  StreamNext.at \notin {"window_body", "window_tail"}
      BY <1>10
    <3>1. StreamNext = BodyFrom(file_offset)
      BY <1>1, StreamGoesOn
    <3> QED
      BY <3>1 DEF BodyFrom
  <2> QED
    BY <1>7, <1>9, <1>10, <2>2, <2>3, <2>4 DEF IsChunkFrom, Reach
<1>11. CASE stream.at = "body"
  <2>1. /\ StreamNext = BodyFrom(stream.cur + BufferLen)
        /\ (stream.cur + BufferLen - file_offset) % BufferLen = 0
    BY <1>1, <1>11, StreamGoesOn
  <2>2. /\ file_offset <= stream.cur /\ stream.cur < end
        /\ (stream.cur - file_offset) % BufferLen = 0
    BY <1>1, <1>11 DEF IsStream
  <2>3. /\ BodyFrom(stream.cur + BufferLen).cur =
             (IF stream.cur + BufferLen < end THEN stream.cur + BufferLen ELSE end)
        /\ BodyFrom(stream.cur + BufferLen).at =
             (IF stream.cur + BufferLen < end THEN "body"
              ELSE IF file.encrypted THEN "tail" ELSE "end")
    <3> DEFINE p == stream.cur + BufferLen
    <3>1. p \in Int /\ file_offset <= p /\ (p - file_offset) % BufferLen = 0
      BY <1>3, <1>5, <1>6, <2>1, <2>2
    <3> HIDE DEF p
    <3>2. /\ BodyFrom(p).cur = IF p < end THEN p ELSE end
          /\ BodyFrom(p).at = IF p < end THEN "body"
                              ELSE IF file.encrypted THEN "tail" ELSE "end"
      BY <1>1, <3>1, BodyFromIs
    <3> QED
      BY <3>2 DEF p
  <2>4. ItemLen = Min2(end - stream.cur, BufferLen) /\ ItemLen > 0
    BY <1>1, <1>11, ItemOf
  <2>5. IsBodyOf(b) /\ ~(b.off >= end)
    BY <1>3, <1>5, <1>7, <2>2 DEF IsBodyOf
  <2>6. b.off + b.len <= end /\ (b.off + b.len = end \/ b.len = BufferLen)
    BY <1>3, <1>5, <1>6, <1>7, <2>2, <2>4 DEF Min2
  <2>7. IsChunkFrom(b, Reached)
    BY <1>7, <1>8, <1>11, <2>2, <2>4, <2>6 DEF IsChunkFrom
  <2>8. Reach(b, Reached) = b.off + b.len
    BY <2>5 DEF Reach
  <2>9. StreamNext.cur = b.off + b.len
    BY <1>3, <1>5, <1>6, <1>7, <2>1, <2>2, <2>3, <2>4 DEF Min2
  <2>10. /\ StreamNext.at \in {"body", "tail", "end"}
         /\ StreamNext.at = "end" => ~file.encrypted
    BY <1>3, <2>1, <2>3
  <2> QED
    BY <1>7, <1>8, <1>11, <2>5, <2>7, <2>8, <2>9, <2>10
<1>12. CASE stream.at = "window_body"
  <2>1. StreamNext = [at |-> "window_tail", cur |-> end]
    BY <1>1, <1>12, StreamGoesOn
  <2>2. ItemLen = len
    BY <1>1, <1>12, ItemOf
  <2>3. stream.cur = file_offset
    BY <1>1, <1>12 DEF IsStream
  <2>4. (file_offset - file_offset) % BufferLen = 0
    BY <1>3, <1>6
  <2>5. IsBodyOf(b) => len > 0
    BY <1>3, <1>7, <2>3 DEF IsBodyOf
  <2>6. IsChunkFrom(b, Reached)
    BY <1>3, <1>7, <1>8, <1>12, <2>2, <2>3, <2>4, <2>5 DEF IsChunkFrom
  <2>7. Reach(b, Reached) = end
    BY <1>3, <1>7, <1>8, <1>12, <2>2, <2>3 DEF Reach, IsBodyOf
  <2>8. b.off >= end => len = 0
    BY <1>3, <1>7, <2>3
  <2> QED
    BY <1>3, <1>7, <1>8, <1>12, <2>1, <2>6, <2>7, <2>8
<1>13. CASE stream.at \in {"tail", "window_tail"}
  <2>1. StreamNext = [at |-> "end", cur |-> end]
    BY <1>1, <1>13, StreamGoesOn
  <2>2. ItemLen = TailLen
    BY <1>1, <1>13, ItemOf
  <2>3. stream.cur = end
    BY <1>1, <1>13 DEF IsStream
  <2>4. ~IsBodyOf(b)
    BY <1>3, <1>7, <2>3 DEF IsBodyOf
  <2>5. IsChunkFrom(b, Reached) /\ Reach(b, Reached) = Reached
    BY <2>4 DEF IsChunkFrom, Reach
  <2> QED
    BY <1>7, <1>8, <1>13, <2>1, <2>2, <2>3, <2>4, <2>5
<1> QED
  BY <1>1, <1>10, <1>11, <1>12, <1>13 DEF IsStream

-----------------------------------------------------------------------------
(* Delivering a chunk that continues what was delivered.                     *)
LEMMA DeliversWhole ==
  ASSUME rd \in Reads, out.len \in Nat, NEW b, IsBuf(b), 0 <= b.off, b.off + b.len <= end
  PROVE  Delivered(b) =
           [len |-> out.len + b.len,
            data |-> [i \in 0..(out.len + b.len - 1) |->
                        IF i < out.len THEN out.data[i] ELSE b.data[i - out.len]]]
<1> DEFINE n == IF b.off < 0 THEN 0 ELSE Max2(0, Min2(b.off + b.len, end) - b.off)
<1>1. end \in Nat /\ b.off \in Int /\ b.len \in Nat
  BY RequestOf DEF IsBuf
<1>2. n = b.len
  BY <1>1 DEF Max2, Min2
<1>3. Delivered(b) =
        [len |-> out.len + n,
         data |-> [i \in 0..(out.len + n - 1) |->
                     IF i < out.len THEN out.data[i] ELSE b.data[i - out.len]]]
  BY DEF Delivered
<1> HIDE DEF n
<1> QED
  BY <1>2, <1>3

LEMMA DeliversRight ==
  ASSUME IInv, rd' = rd, NEW b, IsBuf(b), out' = Delivered(b),
         b.off = DeliveredTo, b.off + b.len <= end,
         InPlace(b.len, b.data, b.off),
         Benign => \A i \in 0..(b.len - 1) : b.data[i] = Expected(b.off + i)
  PROVE  DeliveredIsRight' /\ out'.len = out.len + b.len /\ out'.len \in Nat
<1>1. rd \in Reads /\ out.len \in Nat
  BY DEF IInv, Types
<1>2. /\ file_offset \in Nat /\ end \in Nat /\ len \in Nat /\ end = file_offset + len
  BY <1>1, RequestOf
<1>3. b.off = file_offset + out.len /\ b.len \in Nat
  BY DEF DeliveredTo, IsBuf
<1>4. 0 <= b.off
  BY <1>1, <1>2, <1>3
<1>5. out' = [len |-> out.len + b.len,
              data |-> [i \in 0..(out.len + b.len - 1) |->
                          IF i < out.len THEN out.data[i] ELSE b.data[i - out.len]]]
  BY <1>1, <1>4, DeliversWhole
<1>6. out'.len = out.len + b.len /\ out'.len \in Nat
  BY <1>1, <1>3, <1>5
<1>7. /\ \A i \in 0..(out.len - 1) : out'.data[i] = out.data[i]
      /\ \A i \in 0..(b.len - 1) : out'.data[out.len + i] = b.data[i]
  <2>1. \A i \in 0..(out.len + b.len - 1) :
          out'.data[i] = IF i < out.len THEN out.data[i] ELSE b.data[i - out.len]
    BY <1>5
  <2>2. ASSUME NEW i \in 0..(b.len - 1)
        PROVE  out'.data[out.len + i] = b.data[i]
    <3>1. out.len + i \in 0..(out.len + b.len - 1) /\ ~(out.len + i < out.len)
          /\ (out.len + i) - out.len = i
      BY <1>1, <1>3
    <3> DEFINE m == out.len + i
    <3>2. out'.data[m] = b.data[m - out.len]
      BY <2>1, <3>1
    <3> QED
      BY <3>1, <3>2
  <2>3. ASSUME NEW i \in 0..(out.len - 1)
        PROVE  out'.data[i] = out.data[i]
    BY <1>1, <1>3, <2>1
  <2> QED
    BY <2>2, <2>3
<1>8. ASSUME NEW i \in 0..(out'.len - 1)
      PROVE  \/ i \in 0..(out.len - 1)
             \/ \E j \in 0..(b.len - 1) : i = out.len + j /\ file_offset + i = b.off + j
  <2>1. CASE i < out.len
    BY <1>1, <2>1
  <2>2. CASE ~(i < out.len)
    <3>1. i - out.len \in 0..(b.len - 1) /\ i = out.len + (i - out.len)
          /\ file_offset + i = b.off + (i - out.len)
      BY <1>1, <1>2, <1>3, <1>6, <2>2
    <3> QED
      BY <3>1
  <2> QED
    BY <2>1, <2>2
<1>9. /\ len' = len /\ file_offset' = file_offset /\ Benign' = Benign
      /\ \A p : Expected(p)' = Expected(p)
  BY SameRequest, SameExpected
<1>10. (out.len <= len)'
  BY <1>1, <1>2, <1>3, <1>6, <1>9
<1>11. ASSUME NEW i \in 0..(out'.len - 1)
       PROVE  /\ out'.data[i][2] = file_offset + i
              /\ Expected(file_offset + i)[1] = "disk" => out'.data[i] = Disk(file_offset + i)
              /\ Benign => out'.data[i] = Expected(file_offset + i)
  <2>1. CASE i \in 0..(out.len - 1)
    BY <1>7, <2>1 DEF IInv, DeliveredIsRight, InPlace
  <2>2. ASSUME NEW j \in 0..(b.len - 1), i = out.len + j, file_offset + i = b.off + j
        PROVE  /\ out'.data[i][2] = file_offset + i
               /\ Expected(file_offset + i)[1] = "disk" => out'.data[i] = Disk(file_offset + i)
               /\ Benign => out'.data[i] = Expected(file_offset + i)
    <3>1. out'.data[i] = b.data[j]
      BY <1>7, <2>2
    <3>2. /\ b.data[j][2] = b.off + j
          /\ Expected(b.off + j)[1] = "disk" => b.data[j] = Disk(b.off + j)
          /\ Benign => b.data[j] = Expected(b.off + j)
      BY DEF InPlace
    <3> QED
      BY <2>2, <3>1, <3>2
  <2> QED
    BY <1>8, <2>1, <2>2
<1>12. DeliveredIsRight'
  BY <1>9, <1>10, <1>11 DEF DeliveredIsRight, InPlace
<1> QED
  BY <1>6, <1>12

LEMMA PlainChunkKeeps == ASSUME IInv, PlainChunk PROVE IInv'
<1> DEFINE b == DiskBuf(stream.cur, ItemLen)
<1>1. /\ pc = "plain" /\ stream.at # "end" /\ ReadOk
      /\ stream' = StreamNext /\ out' = Delivered(b)
      /\ rd' = rd /\ pc' = pc /\ failed' = failed /\ RingUnchanged
  BY DEF PlainChunk
<1> HIDE DEF b
<1>2. /\ Active /\ pc \notin Turning /\ rd \in Reads /\ IsStream(stream)
      /\ ReachOlder = DeliveredTo /\ out.len \in Nat /\ DeliveredTo \in Nat
      /\ Reached = DeliveredTo /\ ~newest.some
  BY <1>1, Pulling
<1>3. /\ file' = file /\ file_offset' = file_offset /\ len' = len /\ end' = end
      /\ OneWindow' = OneWindow /\ Intact' = Intact
  BY <1>1, SameRequest
<1>4. /\ newest' = newest /\ older' = older /\ RingIsEmpty' = RingIsEmpty
      /\ inner' = inner /\ pos' = pos /\ pushed' = pushed /\ last' = last /\ ri' = ri
  BY <1>1, SameRing
<1>5. /\ IsBuf(b) /\ IsRaw(b) /\ b.off = stream.cur /\ b.len = ItemLen
      /\ IsChunkFrom(b, Reached)
      /\ Reach(b, Reached) = StreamNext.cur
      /\ stream.at \notin {"head", "window_head"} => Reached = stream.cur
      /\ StreamNext.at \notin {"head", "window_head"}
      /\ stream.at \notin {"window_head", "window_body"} =>
           StreamNext.at \notin {"window_body", "window_tail"}
  BY <1>1, ItemFollows DEF b
<1>6. ~file.encrypted
  BY <1>1, <1>2 DEF IInv, StreamAt
<1>7. stream.at = "body" /\ file_offset <= stream.cur /\ stream.cur < end /\ stream.cur \in Int
  BY <1>1, <1>2, <1>6 DEF IsStream, OneWindow
<1>8. IsBodyOf(b) /\ b.off = DeliveredTo /\ b.off + b.len <= end
  <2>1. IsBodyOf(b)
    BY <1>5, <1>7 DEF IsBodyOf, IsRaw
  <2> QED
    BY <1>2, <1>5, <1>7, <2>1 DEF IsChunkFrom
<1>9. \A i \in 0..(b.len - 1) : b.data[i] = Disk(b.off + i)
  BY <1>5 DEF IsRaw
<1>10. /\ InPlace(b.len, b.data, b.off)
       /\ \A i \in 0..(b.len - 1) : b.data[i] = Expected(b.off + i)
  BY <1>6, <1>9 DEF InPlace, Expected, Disk
<1>11. DeliveredIsRight' /\ out'.len = out.len + b.len /\ out'.len \in Nat
  BY <1>1, <1>5, <1>8, <1>10, DeliversRight
<1>12. Active' /\ pc' \notin Turning
  BY <1>1, <1>2 DEF Active
<1>13. IsStream(StreamNext)
  BY <1>1, <1>2, StreamGoesOn
<1>14. Types'
  BY <1>1, <1>4, <1>11 DEF IInv, Types, IsBuf
<1>15. StreamAt'
  BY <1>1, <1>2, <1>3, <1>13 DEF IInv, StreamAt, IsStream
<1>16. RingHolds'
  BY <1>1, <1>4 DEF IInv, RingHolds, Turning
<1>17. ~IsBodyOf(newest)'
  BY <1>2, <1>4 DEF IsBodyOf
<1>18. ChunksFollow'
  <2>1. DeliveredTo' = b.off + b.len
    BY <1>2, <1>3, <1>5, <1>7, <1>8, <1>11, RequestOf DEF DeliveredTo, IsBuf
  <2>2. Reached' = b.off + b.len
    BY <1>12, <1>17, <2>1 DEF Reached, Reach, ReachOlder
  <2>3. Position' = b.off + b.len
    BY <1>1, <1>5, <1>8 DEF Position, Reach
  <2>4. /\ pc' # "entry"
        /\ stream'.at \notin {"head", "window_head", "window_body", "window_tail"}
    BY <1>1, <1>5, <1>7
  <2>5. b.off + b.len \in Int
    BY <1>5 DEF IsBuf
  <2> QED
    BY <1>12, <1>17, <2>2, <2>3, <2>4, <2>5 DEF ChunksFollow, IsChunkFrom
<1>19. NeighbourIsNext'
  BY <1>12, <1>17 DEF NeighbourIsNext
<1>20. ChunkIsRight' /\ SomethingIsPushed' /\ NothingPresentIsDropped'
  BY <1>1 DEF ChunkIsRight, SomethingIsPushed, NothingPresentIsDropped
<1> QED
  BY <1>11, <1>14, <1>15, <1>16, <1>18, <1>19, <1>20 DEF IInv

LEMMA PushChunkKeeps == ASSUME IInv, PushChunk PROVE IInv'
<1> DEFINE b == DiskBuf(stream.cur, ItemLen)
<1>1. /\ pc = "pull" /\ stream.at # "end" /\ ReadOk /\ Push(b)
      /\ stream' = StreamNext /\ pc' = (IF pushed THEN "turn" ELSE "pull")
      /\ rd' = rd /\ last' = last /\ ri' = ri /\ out' = out /\ failed' = failed
  BY DEF PushChunk
<1> HIDE DEF b
<1>2. /\ Active /\ pc \notin Turning /\ rd \in Reads /\ IsStream(stream)
      /\ ReachOlder = DeliveredTo /\ out.len \in Nat /\ DeliveredTo \in Nat
      /\ Reached \in Int /\ (~IsBodyOf(newest) => Reached = DeliveredTo)
      /\ ~pushed => ~newest.some
      /\ ~newest.some => ~IsBodyOf(newest)
  BY <1>1, Pulling
<1>3. /\ file' = file /\ file_offset' = file_offset /\ len' = len /\ end' = end
      /\ OneWindow' = OneWindow /\ Intact' = Intact /\ TailLen' = TailLen
  BY <1>1, SameRequest
<1>4. /\ IsBuf(b) /\ IsRaw(b) /\ b.off = stream.cur /\ b.len = ItemLen
      /\ IsChunkFrom(b, Reached)
      /\ Reach(b, Reached) = StreamNext.cur
      /\ stream.at \notin {"head", "window_head"} => Reached = stream.cur
      /\ StreamNext.at \notin {"head", "window_head"}
      /\ StreamNext.at = "end" => ~file.encrypted \/ ~IsBodyOf(b)
      /\ b.off >= end /\ len > 0 => b.len = TailLen
  BY <1>1, ItemFollows DEF b
<1>5. /\ newest' = b /\ older' = newest /\ pushed' /\ pos' \in 0..2
      /\ inner' = [s \in 0..2 |-> inner'[s]] /\ \A s \in 0..2 : IsBuf(inner'[s])
  BY <1>1, <1>4, Pushes DEF IInv
<1>6. file.encrypted /\ file.kind = "file" /\ ~last
  BY <1>1, <1>2, RequestOf DEF IInv, StreamAt, RingHolds
<1>7. pushed => IsRaw(newest)
  BY <1>1 DEF IInv, RingHolds
<1>8. /\ Active' /\ pc' \in {"turn", "pull"} /\ pushed \in BOOLEAN
      /\ pc' \in Turning <=> pushed
      /\ pc' = "turn" <=> pushed
  BY <1>1 DEF Active, Streaming, Turning, IInv, Types
<1>9. IsStream(StreamNext)
  BY <1>1, <1>2, StreamGoesOn
<1>10. Types'
  BY <1>1, <1>5, <1>8 DEF IInv, Types, Push, Turning, Streaming
<1>11. StreamAt'
  BY <1>1, <1>3, <1>6, <1>8, <1>9 DEF StreamAt, IsStream
<1>12. RingHolds'
  BY <1>1, <1>4, <1>5, <1>6, <1>7, <1>8 DEF RingHolds, IsRaw
<1>13. DeliveredTo' = DeliveredTo
  BY <1>1, <1>3 DEF DeliveredTo
<1>14. /\ IsBodyOf(older)' = IsBodyOf(newest) /\ IsBodyOf(newest)' = IsBodyOf(b)
  BY <1>3, <1>5 DEF IsBodyOf
<1>15. ReachOlder' = Reached
  <2>1. CASE pushed
    BY <1>2, <1>5, <1>8, <1>13, <1>14, <2>1 DEF ReachOlder, Reach, Reached
  <2>2. CASE ~pushed
    BY <1>2, <1>8, <1>13, <2>2 DEF ReachOlder
  <2> QED
    BY <2>1, <2>2, <1>8
<1>16. Reached' = StreamNext.cur
  BY <1>4, <1>5, <1>14, <1>15 DEF Reached, Reach
<1>17. Position' = StreamNext.cur
  BY <1>1, <1>4 DEF Position
<1>18. StreamNext.cur \in Int
  BY <1>9, <1>2, <1>4, RequestOf DEF IsStream
<1>19. ChunksFollow'
  <2>1. IsChunkFrom(newest, DeliveredTo)
    BY <1>2 DEF IInv, ChunksFollow
  <2>2. IsChunkFrom(older, DeliveredTo)'
    BY <1>3, <1>5, <1>13, <1>14, <2>1 DEF IsChunkFrom
  <2>3. IsChunkFrom(newest, ReachOlder)'
    BY <1>3, <1>4, <1>5, <1>14, <1>15 DEF IsChunkFrom
  <2>4. pc' # "entry" /\ stream'.at \notin {"head", "window_head"}
    BY <1>1, <1>4, <1>8
  <2> QED
    BY <1>16, <1>17, <1>18, <2>2, <2>3, <2>4 DEF ChunksFollow
<1>20. NeighbourIsNext'
  <2>1. stream'.at = "end" => ~IsBodyOf(newest)'
    BY <1>1, <1>4, <1>6, <1>14
  <2>2. ASSUME pushed, IsBodyOf(newest)
        PROVE  b.off = newest.off + newest.len /\ (b.off >= end => b.len = TailLen)
    <3>1. stream.at \notin {"head", "window_head"}
      BY <1>2, <2>2 DEF IInv, ChunksFollow
    <3>2. Reached = newest.off + newest.len
      BY <2>2 DEF Reached, Reach
    <3>3. len > 0
      <4>1. IsBuf(newest)
        BY DEF IInv, Types, newest
      <4> QED
        BY <1>2, <2>2, <4>1, RequestOf DEF IsBodyOf, IsBuf
    <3> QED
      BY <1>4, <3>1, <3>2, <3>3
  <2> QED
    BY <1>1, <1>3, <1>5, <1>6, <1>8, <1>14, <2>1, <2>2 DEF NeighbourIsNext
<1>21. DeliveredIsRight'
  BY <1>1, SameDelivered DEF IInv
<1>22. ChunkIsRight' /\ NothingPresentIsDropped'
  BY <1>8 DEF ChunkIsRight, NothingPresentIsDropped
<1>23. SomethingIsPushed'
  BY <1>5, <1>7, <1>8 DEF SomethingIsPushed, IsRaw
<1> QED
  BY <1>10, <1>11, <1>12, <1>19, <1>20, <1>21, <1>22, <1>23 DEF IInv

LEMMA FinishRingKeeps == ASSUME IInv, FinishRing PROVE IInv'
<1>1. /\ pc = "pull" /\ stream.at = "end" /\ Push(NoBuf) /\ last' = TRUE /\ pc' = "turn"
      /\ rd' = rd /\ stream' = stream /\ ri' = ri /\ out' = out /\ failed' = failed
  BY DEF FinishRing
<1>2. /\ Active /\ pc \notin Turning /\ rd \in Reads /\ IsStream(stream)
      /\ ReachOlder = DeliveredTo /\ out.len \in Nat /\ DeliveredTo \in Nat
      /\ Reached \in Int /\ (~IsBodyOf(newest) => Reached = DeliveredTo)
      /\ ~pushed => ~newest.some
  BY <1>1, Pulling
<1>3. /\ file' = file /\ file_offset' = file_offset /\ len' = len /\ end' = end
      /\ OneWindow' = OneWindow /\ Intact' = Intact /\ TailLen' = TailLen
  BY <1>1, SameRequest
<1>4. /\ newest' = NoBuf /\ older' = newest /\ pushed' /\ pos' \in 0..2
      /\ inner' = [s \in 0..2 |-> inner'[s]] /\ \A s \in 0..2 : IsBuf(inner'[s])
  BY <1>1, Pushes, NoBufIs DEF IInv
<1>5. ~newest'.some /\ ~IsBodyOf(newest)'
  BY <1>4, NoBufIs DEF IsBodyOf
<1>6. IF pushed THEN IsRaw(newest) ELSE RingIsEmpty
  BY <1>1 DEF IInv, RingHolds
<1>7. Active' /\ pc' \in Turning /\ pushed \in BOOLEAN
  BY <1>1 DEF Active, Turning, IInv, Types
<1>8. ~older'.some => RingIsEmpty'
  <2> SUFFICES ASSUME RingIsEmpty PROVE RingIsEmpty'
    BY <1>4, <1>6, <1>7 DEF IsRaw
  <2>1. /\ inner' = [inner EXCEPT ![NextPos(pos)] = NoBuf]
        /\ inner = [s \in 0..2 |-> inner[s]]
    BY <1>1 DEF Push, IInv, Types
  <2>2. \A s \in 0..2 : inner'[s] = NoBuf \/ inner'[s] = inner[s]
    BY <2>1
  <2> QED
    BY <2>2, NoBufIs DEF RingIsEmpty
<1>9. Types'
  BY <1>1, <1>4, <1>7 DEF IInv, Types, Push
<1>10. StreamAt'
  BY <1>1, <1>2, <1>3 DEF IInv, StreamAt, IsStream
<1>11. RingHolds'
  <2>1. older'.some => IsRaw(older)'
    BY <1>2, <1>4, <1>6, <1>7 DEF IsRaw
  <2> QED
    BY <1>1, <1>4, <1>5, <1>8, <2>1 DEF RingHolds
<1>12. DeliveredTo' = DeliveredTo
  BY <1>1, <1>3 DEF DeliveredTo
<1>13. IsBodyOf(older)' = IsBodyOf(newest)
  BY <1>3, <1>4 DEF IsBodyOf
<1>14. ReachOlder' = Reached
  BY <1>2, <1>4, <1>7, <1>12, <1>13 DEF ReachOlder, Reach, Reached
<1>15. Reached' = Reached /\ Position' = Position
  BY <1>1, <1>3, <1>5, <1>14 DEF Reached, Reach, Position
<1>16. ChunksFollow'
  <2>1. /\ IsChunkFrom(newest, DeliveredTo) /\ Reached <= Position
        /\ Reached = Position \/ EndsBefore(Reached)
    BY <1>2 DEF IInv, ChunksFollow
  <2>2. IsChunkFrom(older, DeliveredTo)'
    BY <1>3, <1>4, <1>12, <1>13, <2>1 DEF IsChunkFrom
  <2>3. IsChunkFrom(newest, ReachOlder)'
    BY <1>5 DEF IsChunkFrom
  <2>4. EndsBefore(Reached)' = EndsBefore(Reached)
    BY <1>1, <1>3, <1>15 DEF EndsBefore
  <2> QED
    BY <1>1, <1>15, <2>1, <2>2, <2>3, <2>4 DEF ChunksFollow
<1>17. NeighbourIsNext'
  <2>1. IsBodyOf(newest) => NoTail
    BY <1>1, <1>2 DEF IInv, NeighbourIsNext
  <2>2. NoTail' = NoTail
    BY <1>1, <1>3 DEF NoTail, EndsBefore
  <2> QED
    BY <1>1, <1>5, <1>13, <2>1, <2>2 DEF NeighbourIsNext
<1>18. DeliveredIsRight'
  BY <1>1, SameDelivered DEF IInv
<1>19. ChunkIsRight' /\ NothingPresentIsDropped'
  BY <1>1 DEF ChunkIsRight, NothingPresentIsDropped
<1>20. SomethingIsPushed'
  BY <1>1, <1>3, <1>4, <1>6, <1>7 DEF IInv, SomethingIsPushed, IsRaw
<1> QED
  BY <1>9, <1>10, <1>11, <1>16, <1>17, <1>18, <1>19, <1>20 DEF IInv

(* The end of a turn: whether the chunk was delivered or passed over, the    *)
(* newest chunk is what comes next, and after the last turn nothing does.    *)
LEMMA TurnEnds ==
  ASSUME IInv, pc \in Turning, pc' = AfterTurn, UNCHANGED <<rd, stream, failed>>,
         RingUnchanged, DeliveredIsRight', out'.len \in Nat, DeliveredTo' = ReachOlder
  PROVE  IInv'
<1>1. /\ file' = file /\ file_offset' = file_offset /\ len' = len /\ end' = end
      /\ OneWindow' = OneWindow /\ Intact' = Intact /\ TailLen' = TailLen
      /\ data_start' = data_start
  BY SameRequest
<1>2. /\ newest' = newest /\ older' = older /\ RingIsEmpty' = RingIsEmpty
      /\ inner' = inner /\ pos' = pos /\ pushed' = pushed /\ last' = last /\ ri' = ri
      /\ IsBodyOf(newest)' = IsBodyOf(newest)
  BY SameRing
<1>3. /\ Active /\ rd \in Reads /\ last \in BOOLEAN
      /\ pc' \in {"pull", "done"} /\ (pc' = "pull" <=> ~last) /\ pc' \notin Turning
      /\ Active' <=> ~last
  BY DEF IInv, Types, Active, AfterTurn, Turning, Streaming
<1>4. /\ IsChunkFrom(newest, ReachOlder) /\ Reached <= Position
      /\ Reached = Position \/ EndsBefore(Reached)
      /\ stream.at \in {"head", "window_head"} => ~pushed
      /\ stream.at \in {"window_body", "window_tail"} => Reached = Position
  BY <1>3 DEF IInv, ChunksFollow
<1>5. pushed /\ IF last THEN ~newest.some /\ stream.at = "end" ELSE IsRaw(newest)
  BY DEF IInv, RingHolds
<1>6. ReachOlder' = ReachOlder
  BY <1>3 DEF ReachOlder
<1>7. Reached' = Reached /\ Position' = Position
  BY <1>1, <1>2, <1>6 DEF Reached, Reach, Position
<1>8. file.kind = "file" /\ file.encrypted /\ IsStream(stream)
  <2>1. pc # "plain"
    BY DEF Turning
  <2> QED
    BY <1>3, <2>1, RequestOf DEF IInv, StreamAt
<1>9. Types'
  BY <1>2, <1>3 DEF IInv, Types, IsBuf, Streaming, Final
<1>10. StreamAt'
  BY <1>1, <1>3, <1>8 DEF StreamAt, IsStream
<1>11. RingHolds'
  BY <1>2, <1>3, <1>5 DEF RingHolds, IsRaw
<1>12. ChunksFollow'
  <2>1. IsChunkFrom(newest, ReachOlder)'
    BY <1>1, <1>2, <1>4, <1>6 DEF IsChunkFrom
  <2>2. EndsBefore(Reached)' = EndsBefore(Reached)
    BY <1>1, <1>7 DEF EndsBefore
  <2> QED
    BY <1>2, <1>3, <1>4, <1>7, <2>1, <2>2 DEF ChunksFollow
<1>13. NeighbourIsNext'
  <2>1. stream.at = "end" /\ IsBodyOf(newest) => NoTail
    BY <1>3 DEF IInv, NeighbourIsNext
  <2>2. NoTail' = NoTail
    BY <1>1 DEF NoTail, EndsBefore
  <2> QED
    BY <1>2, <1>3, <2>1, <2>2 DEF NeighbourIsNext
<1>14. ChunkIsRight'
  BY <1>3 DEF ChunkIsRight
<1>15. SomethingIsPushed'
  BY <1>2, <1>3, <1>5 DEF SomethingIsPushed
<1>16. NothingPresentIsDropped'
  <2> SUFFICES ASSUME last PROVE out'.len = len \/ rd.bdt_size <= data_start + out'.len
    BY <1>1, <1>3 DEF NothingPresentIsDropped
  <2>1. Reached = ReachOlder
    BY <1>5 DEF Reached, Reach, IsBodyOf
  <2>2. Position = end
    BY <1>5, <1>8 DEF Position, IsStream
  <2>3. ReachOlder = file_offset + out'.len
    BY <1>1 DEF DeliveredTo
  <2> QED
    BY <1>3, <1>4, <2>1, <2>2, <2>3, RequestOf DEF EndsBefore
<1> QED
  BY <1>9, <1>10, <1>11, <1>12, <1>13, <1>14, <1>15, <1>16 DEF IInv

LEMMA TurnContextKeeps == ASSUME IInv, TurnContext PROVE IInv'
<1>1. /\ pc = "turn" /\ curr.some /\ ~IsBody /\ pc' = AfterTurn
      /\ rd' = rd /\ stream' = stream /\ out' = out /\ failed' = failed /\ RingUnchanged
  BY DEF TurnContext
<1>2. pc \in Turning /\ pos \in 0..2 /\ out.len \in Nat
  BY <1>1 DEF Turning, IInv, Types
<1>3. older.some
  BY <1>1, <1>2, TurnsNone DEF IInv, RingHolds
<1>4. ~IsBodyOf(older)
  BY <1>1, <1>3, TurnsOlder DEF IsBody, IsBodyOf
<1>5. ReachOlder = DeliveredTo
  BY <1>2, <1>4 DEF ReachOlder, Reach
<1>6. DeliveredTo' = DeliveredTo
  BY <1>1, SameRequest DEF DeliveredTo
<1>7. DeliveredIsRight'
  BY <1>1, SameDelivered DEF IInv
<1> QED
  BY <1>1, <1>2, <1>5, <1>6, <1>7, TurnEnds

(* The chunk that is decrypted and delivered.                                *)
LEMMA Decrypting ==
  ASSUME IInv, pc \in {"decrypt", "deliver"}
  PROVE  /\ pc \in Turning /\ Active /\ rd \in Reads /\ pos \in 0..2
         /\ older.some /\ curr = older /\ CurrPos = PrevPos(pos) /\ next = newest
         /\ IsBodyOf(older) /\ IsBuf(older) /\ IsBuf(newest)
         /\ older.off = DeliveredTo /\ older.len > 0 /\ older.off + older.len <= end
         /\ older.off + older.len = end \/ older.len = BufferLen
         /\ (older.off - file_offset) % BufferLen = 0
<1>1. pc \in Turning /\ pos \in 0..2 /\ rd \in Reads /\ Active
  BY DEF Turning, IInv, Types, Active
<1>2. older.some /\ IsBody
  BY <1>1 DEF IInv, RingHolds
<1>3. curr = older /\ CurrPos = PrevPos(pos) /\ next = newest
  BY <1>2, TurnsOlder
<1>4. IsBodyOf(older)
  BY <1>2, <1>3 DEF IsBody, IsBodyOf
<1>5. IsBuf(older) /\ IsBuf(newest)
  BY <1>1, RingPositions DEF IInv, Types, older, newest
<1>6. IsChunkFrom(older, DeliveredTo)
  BY <1>1 DEF IInv, ChunksFollow
<1> QED
  BY <1>1, <1>2, <1>3, <1>4, <1>5, <1>6 DEF IsChunkFrom

LEMMA DeliverKeeps == ASSUME IInv, Deliver PROVE IInv'
<1>1. /\ pc = "deliver" /\ pc' = AfterTurn /\ out' = Delivered(curr)
      /\ rd' = rd /\ stream' = stream /\ failed' = failed /\ RingUnchanged
  BY DEF Deliver
<1>2. /\ pc \in Turning /\ rd \in Reads /\ curr = older /\ IsBodyOf(older) /\ IsBuf(older)
      /\ older.off = DeliveredTo /\ older.off + older.len <= end
  BY <1>1, Decrypting
<1>3. /\ InPlace(older.len, older.data, older.off)
      /\ Benign => \A i \in 0..(older.len - 1) : older.data[i] = Expected(older.off + i)
  BY <1>1 DEF IInv, ChunkIsRight
<1>4. DeliveredIsRight' /\ out'.len = out.len + older.len /\ out'.len \in Nat
  BY <1>1, <1>2, <1>3, DeliversRight
<1>5. ReachOlder = older.off + older.len
  BY <1>2 DEF ReachOlder, Reach
<1>6. DeliveredTo' = older.off + older.len
  <2>1. file_offset' = file_offset /\ file_offset \in Nat
    BY <1>1, <1>2, SameRequest, RequestOf
  <2>2. out.len \in Nat
    BY DEF IInv, Types
  <2> QED
    BY <1>2, <1>4, <2>1, <2>2 DEF DeliveredTo, IsBuf
<1> QED
  BY <1>1, <1>2, <1>4, <1>5, <1>6, TurnEnds

-----------------------------------------------------------------------------
(* Decrypting one range.                                                     *)
LEMMA SmallMod ==
  ASSUME NEW a \in Nat, NEW d \in Nat \ {0}
  PROVE  a % d <= a
OBVIOUS

LEMMA RangeStartIs ==
  ASSUME NEW r, r.start \in Nat, curr.off \in Nat
  PROVE  /\ RangeStart(r) \in Int /\ r.start <= RangeStart(r)
         /\ (RangeStart(r) - r.start) % Block = 0
         /\ curr.off >= r.start =>
              RangeStart(r) <= curr.off /\ curr.off - RangeStart(r) < Block
         /\ curr.off < r.start => RangeStart(r) = r.start
<1>1. Block \in Nat \ {0}
  BY SizesAssumption
<1>2. CASE curr.off >= r.start
  <2> DEFINE a == curr.off - r.start
  <2>1. a \in Nat /\ a \in Int
    BY <1>2
  <2>2. RangeStart(r) = curr.off - (a % Block)
    BY <1>2 DEF RangeStart
  <2> HIDE DEF a
  <2>3. a % Block \in Int /\ 0 <= a % Block /\ a % Block < Block /\ a % Block <= a
    BY <1>1, <2>1, ModIsRemainder, SmallMod
  <2>4. (a - (a % Block)) % Block = 0
    <3>1. \A d \in Nat \ {0}, x \in Int : (x - (x % d)) % d = 0
      BY WithoutRemainder
    <3> QED
      BY <1>1, <2>1, <3>1
  <2>5. RangeStart(r) - r.start = a - (a % Block) /\ a = curr.off - r.start
    BY <2>2, <2>3 DEF a
  <2> QED
    BY <1>1, <1>2, <2>1, <2>2, <2>3, <2>4, <2>5
<1>3. CASE curr.off < r.start
  <2>1. RangeStart(r) = r.start
    BY <1>3 DEF RangeStart
  <2>2. (r.start - r.start) % Block = 0
    BY <1>1
  <2> QED
    BY <1>1, <1>3, <2>1, <2>2
<1> QED
  BY <1>2, <1>3

LEMMA BlockCells ==
  ASSUME NEW r, NEW blk, NEW j \in 0..(Block - 1)
  PROVE  /\ DecryptBlock(r, blk)[j][2] = blk[j][2]
         /\ IsStoredBlock(r, blk) => DecryptBlock(r, blk)[j] = <<"plain", blk[j][2]>>
<1> DEFINE kind == IF IsStoredBlock(r, blk) THEN "plain" ELSE "junk"
<1>1. DecryptBlock(r, blk)[j] = <<kind, blk[j][2]>>
  BY DEF DecryptBlock
<1>2. IsStoredBlock(r, blk) => kind = "plain"
  OBVIOUS
<1> HIDE DEF kind
<1> QED
  BY <1>1, <1>2

(* The block split by the start of the chunk ends inside the range.          *)
LEMMA FirstBlockCells ==
  ASSUME NEW r, r.start \in Nat, r.end \in Nat, (r.end - r.start) % Block = 0,
         curr.off \in Nat, curr.len \in Nat, curr.off < r.end, RangeStart(r) < curr.off,
         NEW i \in 0..(curr.len - 1)
  PROVE  /\ FirstBlock(r)[i][2] = curr.data[i][2]
         /\ ~(r.start <= curr.off + i /\ curr.off + i < r.end) =>
              FirstBlock(r)[i] = curr.data[i]
<1> DEFINE left == curr.off - RangeStart(r)
           left_len == Block - left
           mid_len == Min2(left_len, curr.len)
           whole == [j \in 0..(Block - 1) |->
                       IF j < left THEN head[left_len + j]
                       ELSE IF j < left + mid_len THEN curr.data[j - left]
                       ELSE tail[j - left - mid_len]]
           blk == DecryptBlock(r, whole)
<1>1. FirstBlock(r) =
        [k \in 0..(curr.len - 1) |-> IF k < mid_len THEN blk[left + k] ELSE curr.data[k]]
  BY DEF FirstBlock
<1>2. /\ RangeStart(r) \in Int /\ r.start <= RangeStart(r)
      /\ (RangeStart(r) - r.start) % Block = 0
      /\ curr.off >= r.start => curr.off - RangeStart(r) < Block
      /\ curr.off < r.start => RangeStart(r) = r.start
  BY RangeStartIs
<1>3. Block \in Nat \ {0}
  BY SizesAssumption
<1>4. left \in 1..(Block - 1) /\ r.start <= curr.off
  BY <1>2, <1>3
<1>5. mid_len \in Nat /\ mid_len <= Block - left /\ mid_len <= curr.len
  BY <1>3, <1>4 DEF Min2
<1>6. RangeStart(r) + Block <= r.end
  <2> DEFINE a == RangeStart(r) - r.start
             b == r.end - r.start
  <2>1. a \in Int /\ b \in Int /\ a % Block = 0 /\ b % Block = 0 /\ a < b
    BY <1>2
  <2> HIDE DEF a, b
  <2>2. a + Block <= b
    BY <1>3, <2>1, NextMultiple
  <2> QED
    BY <1>2, <1>3, <2>2 DEF a, b
<1>7. CASE i < mid_len
  <2>1. left + i \in 0..(Block - 1) /\ ~(left + i < left) /\ left + i < left + mid_len
        /\ (left + i) - left = i
    BY <1>3, <1>4, <1>5, <1>7
  <2> DEFINE m == left + i
  <2>2. whole[m] = curr.data[m - left]
    BY <2>1
  <2>3. FirstBlock(r)[i] = blk[m]
    BY <1>1, <1>7
  <2> HIDE DEF whole, m
  <2>4. blk[m][2] = whole[m][2]
    BY <2>1, BlockCells DEF m
  <2>5. r.start <= curr.off + i /\ curr.off + i < r.end
    BY <1>2, <1>3, <1>4, <1>5, <1>6, <1>7
  <2>6. m - left = i
    BY <2>1 DEF m
  <2> HIDE DEF blk, left, mid_len
  <2> QED
    BY <2>2, <2>3, <2>4, <2>5, <2>6
<1>8. CASE ~(i < mid_len)
  <2> HIDE DEF blk, left, mid_len
  <2> QED
    BY <1>1, <1>8
<1> QED
  BY <1>7, <1>8

(* Decrypting a range keeps every byte in its place and writes nothing       *)
(* outside the range.                                                        *)
LEMMA DecryptsInPlace ==
  ASSUME NEW r, r.start \in Nat, r.end \in Nat, (r.end - r.start) % Block = 0,
         curr.off \in Nat, curr.len \in Nat, curr.off < r.end,
         NEW i \in 0..(curr.len - 1)
  PROVE  /\ DecryptRange(r)[i][2] = curr.data[i][2]
         /\ ~(r.start <= curr.off + i /\ curr.off + i < r.end) =>
              DecryptRange(r)[i] = curr.data[i]
<1> DEFINE data == IF RangeStart(r) < curr.off THEN FirstBlock(r) ELSE curr.data
           from == WholeFrom(r)
           to == Min2(curr.len, r.end - curr.off)
           blockOf(k) == k - ((k - from) % Block)
           cell(b) == [j \in 0..(Block - 1) |->
                         IF b + j < to THEN data[b + j] ELSE tail[b + j - to]]
<1>1. DecryptRange(r) =
        [k \in 0..(curr.len - 1) |->
           IF from <= k /\ k < to
           THEN DecryptBlock(r, cell(blockOf(k)))[k - blockOf(k)]
           ELSE data[k]]
  BY DEF DecryptRange
<1>2. Block \in Nat \ {0}
  BY SizesAssumption
<1>3. /\ RangeStart(r) \in Int /\ r.start <= RangeStart(r)
      /\ curr.off >= r.start => curr.off - RangeStart(r) < Block
      /\ curr.off < r.start => RangeStart(r) = r.start
  BY RangeStartIs
<1>4. from \in Nat /\ (from <= i => r.start <= curr.off + i)
  BY <1>2, <1>3 DEF WholeFrom
<1>5. to \in Int /\ to <= curr.len /\ to <= r.end - curr.off
  BY DEF Min2
<1>6. /\ data[i][2] = curr.data[i][2]
      /\ ~(r.start <= curr.off + i /\ curr.off + i < r.end) => data[i] = curr.data[i]
  <2>1. CASE RangeStart(r) < curr.off
    BY <2>1, FirstBlockCells
  <2>2. CASE ~(RangeStart(r) < curr.off)
    BY <2>2
  <2> QED
    BY <2>1, <2>2
<1> HIDE DEF data, from, to
<1>7. CASE from <= i /\ i < to
  <2> DEFINE b == blockOf(i)
             c == cell(b)
             j == i - b
  <2>1. (i - from) % Block \in Int /\ 0 <= (i - from) % Block /\ (i - from) % Block < Block
    BY <1>2, <1>4
  <2>2. b \in Int /\ j \in 0..(Block - 1) /\ b + j = i
    BY <1>2, <2>1
  <2>3. DecryptRange(r)[i] = DecryptBlock(r, c)[j]
    BY <1>1, <1>7
  <2> HIDE DEF b, j
  <2>4. c[j] = data[i]
    BY <1>7, <2>2
  <2> HIDE DEF c
  <2>5. DecryptBlock(r, c)[j][2] = c[j][2]
    BY <2>2, BlockCells
  <2>6. r.start <= curr.off + i /\ curr.off + i < r.end
    BY <1>4, <1>5, <1>7
  <2> QED
    BY <1>6, <2>3, <2>4, <2>5, <2>6
<1>8. CASE ~(from <= i /\ i < to)
  <2>1. DecryptRange(r)[i] = data[i]
    BY <1>1, <1>8
  <2> QED
    BY <1>6, <2>1
<1> QED
  BY <1>7, <1>8

(* A chunk that does not begin inside a block, and whose last block is whole *)
(* or completed by what follows, has the range decrypted.                    *)
LEMMA DecryptsBlocks ==
  ASSUME NEW r, r.start \in Nat, r.end \in Nat, (r.end - r.start) % Block = 0,
         curr.off \in Nat, curr.len \in Nat, curr.off <= RangeStart(r),
         \A k \in 0..(curr.len - 1) :
           r.start <= curr.off + k /\ curr.off + k < r.end =>
             curr.data[k] = Disk(curr.off + k),
         \/ (curr.off + curr.len - r.start) % Block = 0
         \/ \A k \in 0..(Block - 1) :
              curr.off + curr.len + k < r.end => tail[k] = Disk(curr.off + curr.len + k),
         NEW i \in 0..(curr.len - 1), r.start <= curr.off + i, curr.off + i < r.end
  PROVE  DecryptRange(r)[i] = Plain(curr.off + i)
<1> DEFINE data == IF RangeStart(r) < curr.off THEN FirstBlock(r) ELSE curr.data
           from == WholeFrom(r)
           to == Min2(curr.len, r.end - curr.off)
           blockOf(k) == k - ((k - from) % Block)
           cell(b) == [j \in 0..(Block - 1) |->
                         IF b + j < to THEN data[b + j] ELSE tail[b + j - to]]
<1>1. DecryptRange(r) =
        [k \in 0..(curr.len - 1) |->
           IF from <= k /\ k < to
           THEN DecryptBlock(r, cell(blockOf(k)))[k - blockOf(k)]
           ELSE data[k]]
  BY DEF DecryptRange
<1>2. Block \in Nat \ {0}
  BY SizesAssumption
<1>3. /\ RangeStart(r) \in Int /\ r.start <= RangeStart(r)
      /\ (RangeStart(r) - r.start) % Block = 0
      /\ curr.off >= r.start => RangeStart(r) <= curr.off
      /\ curr.off < r.start => RangeStart(r) = r.start
  BY RangeStartIs
<1>4. data = curr.data
  BY <1>3
<1>5. from = RangeStart(r) - curr.off /\ from \in Nat /\ from <= i
  BY <1>3 DEF WholeFrom
<1>6. to \in Int /\ i < to /\ (to = curr.len \/ to = r.end - curr.off)
      /\ to <= curr.len
  BY DEF Min2
<1> HIDE DEF data, from, to
<1> DEFINE b == blockOf(i)
           c == cell(b)
           m == i - b
           p == curr.off + b
<1>7. (i - from) % Block \in Int /\ 0 <= (i - from) % Block /\ (i - from) % Block < Block
      /\ (i - from) % Block <= i - from
  <2> DEFINE a == i - from
  <2>1. a \in Nat /\ a \in Int
    BY <1>5
  <2> HIDE DEF a
  <2>2. a % Block \in Int /\ 0 <= a % Block /\ a % Block < Block /\ a % Block <= a
    BY <1>2, <2>1, ModIsRemainder, SmallMod
  <2> QED
    BY <2>2 DEF a
<1>8. b \in Int /\ m \in 0..(Block - 1) /\ b + m = i /\ from <= b /\ b <= i
  BY <1>2, <1>5, <1>7
<1>9. (b - from) % Block = 0
  <2> DEFINE a == i - from
  <2>1. a \in Int
    BY <1>5
  <2>2. b - from = a - (a % Block)
    BY <1>5, <1>7
  <2> HIDE DEF a, b
  <2>3. (a - (a % Block)) % Block = 0
    BY <1>2, <2>1, WithoutRemainder
  <2> QED
    BY <2>2, <2>3
<1>10. DecryptRange(r)[i] = DecryptBlock(r, c)[m]
  BY <1>1, <1>5, <1>6
<1> HIDE DEF b, m
<1>11. p \in Int /\ r.start <= p /\ p < r.end /\ (p - r.start) % Block = 0
  <2>1. p \in Int /\ r.start <= p /\ p < r.end
    BY <1>3, <1>5, <1>8
  <2>2. p - r.start = (b - from) + (RangeStart(r) - r.start)
    BY <1>3, <1>5, <1>8
  <2> DEFINE x == b - from
             y == RangeStart(r) - r.start
  <2>3. x \in Int /\ y \in Int /\ x % Block = 0 /\ y % Block = 0
    BY <1>3, <1>5, <1>8, <1>9
  <2> HIDE DEF x, y
  <2>4. (x + y) % Block = 0
    BY <1>2, <2>3, Multiples
  <2> QED
    BY <2>1, <2>2, <2>4 DEF x, y
<1>12. p + Block <= r.end
  <2> DEFINE x == p - r.start
             y == r.end - r.start
  <2>1. x \in Int /\ y \in Int /\ x % Block = 0 /\ y % Block = 0 /\ x < y
    BY <1>11
  <2> HIDE DEF x, y, p
  <2>2. x + Block <= y
    BY <1>2, <2>1, NextMultiple
  <2> QED
    BY <1>2, <1>11, <2>2 DEF x, y
<1>13. ASSUME NEW j \in 0..(Block - 1) PROVE c[j] = Disk(p + j)
  <2>1. c[j] = IF b + j < to THEN curr.data[b + j] ELSE tail[b + j - to]
    BY <1>4
  <2>2. CASE b + j < to
    <3> DEFINE k == b + j
    <3>1. k \in 0..(curr.len - 1) /\ r.start <= curr.off + k /\ curr.off + k < r.end
          /\ curr.off + k = p + j
      BY <1>2, <1>5, <1>6, <1>8, <1>11, <1>12, <2>2
    <3> HIDE DEF k, p
    <3>2. curr.data[k] = Disk(curr.off + k)
      BY <3>1
    <3> QED
      BY <2>1, <2>2, <3>1, <3>2 DEF k
  <2>3. CASE ~(b + j < to)
    <3>1. to = curr.len
      BY <1>2, <1>6, <1>8, <1>12, <2>3
    <3> DEFINE k == b + j - curr.len
    <3>2. k \in 0..(Block - 1) /\ curr.off + curr.len + k = p + j /\ p + j < r.end
      BY <1>2, <1>6, <1>8, <1>12, <2>3, <3>1
    <3>3. ~((curr.off + curr.len - r.start) % Block = 0)
      <4> SUFFICES ASSUME (curr.off + curr.len - r.start) % Block = 0 PROVE FALSE
        OBVIOUS
      <4> DEFINE x == p - r.start
                 y == curr.off + curr.len - r.start
      <4>1. x \in Int /\ y \in Int /\ x % Block = 0 /\ y % Block = 0 /\ x < y
        BY <1>6, <1>8, <1>11, <3>1
      <4> HIDE DEF x, y, p
      <4>2. x + Block <= y
        BY <1>2, <4>1, NextMultiple
      <4> QED
        BY <1>2, <1>8, <2>3, <3>1, <4>2 DEF x, y, p
    <3> HIDE DEF k, p
    <3>4. tail[k] = Disk(curr.off + curr.len + k)
      BY <3>2, <3>3
    <3>5. c[j] = tail[k]
      BY <2>1, <2>3, <3>1 DEF k
    <3> QED
      BY <3>2, <3>4, <3>5
  <2> QED
    BY <2>2, <2>3
<1> HIDE DEF c
<1>14. c[0][2] = p
  <2>1. 0 \in 0..(Block - 1) /\ p + 0 = p
    BY <1>2, <1>11
  <2> HIDE DEF p
  <2>2. c[0] = Disk(p)
    BY <1>13, <2>1
  <2> QED
    BY <2>2 DEF Disk
<1>15. IsStoredBlock(r, c)
  <2> HIDE DEF p
  <2> QED
    BY <1>11, <1>13, <1>14 DEF IsStoredBlock
<1>16. c[m][2] = curr.off + i
  <2>1. p + m = curr.off + i
    BY <1>8
  <2>2. c[m] = Disk(p + m)
    BY <1>8, <1>13
  <2> HIDE DEF p
  <2> QED
    BY <2>1, <2>2 DEF Disk
<1>17. DecryptBlock(r, c)[m] = <<"plain", c[m][2]>>
  BY <1>8, <1>15, BlockCells
<1> QED
  BY <1>10, <1>16, <1>17 DEF Plain

-----------------------------------------------------------------------------
(* A step within a turn.                                                     *)
LEMMA TurnStays ==
  ASSUME IInv, pc \in Turning, pc' \in {"decrypt", "deliver"},
         UNCHANGED <<rd, stream, pos, pushed, last, out, failed>>, IsBodyOf(older),
         newest' = newest,
         older'.some = older.some, older'.off = older.off, older'.len = older.len,
         inner' = [s \in 0..2 |-> inner'[s]], \A s \in 0..2 : IsBuf(inner'[s]),
         ChunkIsRight'
  PROVE  IInv'
<1>1. /\ file' = file /\ file_offset' = file_offset /\ len' = len /\ end' = end
      /\ OneWindow' = OneWindow /\ Intact' = Intact /\ TailLen' = TailLen
  BY SameRequest
<1>2. Active /\ Active' /\ pc' \in Turning /\ pc # "plain" /\ pc' # "plain"
  BY DEF Active, Turning
<1>3. /\ IsBodyOf(newest)' = IsBodyOf(newest) /\ IsBodyOf(older)' = IsBodyOf(older)
      /\ older.some
  BY <1>1 DEF IsBodyOf
<1>4. Types'
  BY <1>2 DEF IInv, Types
<1>5. StreamAt'
  BY <1>1, <1>2 DEF IInv, StreamAt, IsStream
<1>6. RingHolds'
  <2>1. curr' = older'
    BY <1>3 DEF curr, CurrPos, HasPredecessor, older
  <2>2. IsBody'
    BY <1>1, <1>3, <2>1 DEF IsBody, IsBodyOf
  <2>3. pushed /\ IF last THEN ~newest.some /\ stream.at = "end" ELSE IsRaw(newest)
    BY DEF IInv, RingHolds
  <2>4. (IF last THEN ~newest.some /\ stream.at = "end" ELSE IsRaw(newest))'
    BY <2>3 DEF IsRaw
  <2> QED
    BY <1>3, <2>2, <2>3, <2>4 DEF RingHolds
<1>7. ChunksFollow'
  <2>1. /\ IsChunkFrom(older, DeliveredTo) /\ IsChunkFrom(newest, ReachOlder)
        /\ Reached <= Position /\ (Reached = Position \/ EndsBefore(Reached))
        /\ stream.at \in {"head", "window_head"} => ~pushed
        /\ stream.at \in {"window_body", "window_tail"} => Reached = Position
    BY <1>2 DEF IInv, ChunksFollow
  <2>2. DeliveredTo' = DeliveredTo
    BY <1>1 DEF DeliveredTo
  <2>3. ReachOlder' = ReachOlder
    BY <1>2, <1>3, <2>2 DEF ReachOlder, Reach
  <2>4. Reached' = Reached /\ Position' = Position
    BY <1>1, <1>3, <2>3 DEF Reached, Reach, Position
  <2>5. IsChunkFrom(older, DeliveredTo)' /\ IsChunkFrom(newest, ReachOlder)'
    BY <1>1, <1>3, <2>1, <2>2, <2>3 DEF IsChunkFrom
  <2>6. EndsBefore(Reached)' = EndsBefore(Reached)
    BY <1>1, <2>4 DEF EndsBefore
  <2> QED
    BY <2>1, <2>4, <2>5, <2>6 DEF ChunksFollow
<1>8. NeighbourIsNext'
  <2>1. NoTail' = NoTail
    BY <1>1 DEF NoTail, EndsBefore
  <2> QED
    BY <1>1, <1>2, <1>3, <2>1 DEF IInv, NeighbourIsNext
<1>9. DeliveredIsRight'
  BY SameDelivered DEF IInv
<1>10. SomethingIsPushed' /\ NothingPresentIsDropped'
  BY DEF SomethingIsPushed, NothingPresentIsDropped
<1> QED
  BY <1>4, <1>5, <1>6, <1>7, <1>8, <1>9, <1>10 DEF IInv

LEMMA LowestExists ==
  ASSUME NEW S \in SUBSET Nat, S # {}
  PROVE  \E i \in S : \A j \in S : i <= j
<1> DEFINE R == { p \in Nat \X Nat : p[1] < p[2] }
<1>1. IsWellFoundedOn(R, Nat)
  <2>1. R = OpToRel(<, Nat)
    BY DEF OpToRel
  <2>2. IsWellFoundedOn(OpToRel(<, Nat), Nat)
    BY NatLessThanWellFounded
  <2> QED
    BY <2>1, <2>2
<1>2. PICK i \in S : \A j \in S : ~ (<<j, i>> \in R)
  <2> HIDE DEF R
  <2> QED
    BY <1>1, WFMin, Zenon
<1>3. ASSUME NEW j \in S PROVE i <= j
  <2>1. i \in Nat /\ j \in Nat /\ (j < i => <<j, i>> \in R)
    OBVIOUS
  <2>2. ~ (j < i)
    BY <2>1, <1>2
  <2> QED
    BY <2>1, <2>2
<1> QED
  BY <1>3

(* partition_point finds the first range that ends behind the chunk's start. *)
LEMMA FirstRangeIs ==
  ASSUME rd \in Reads, curr.off \in Nat
  PROVE  /\ FirstRange \in 1..(file.n + 1)
         /\ \A j \in 1..file.n : j < FirstRange => file.ranges[j].end <= curr.off
         /\ \A k \in 1..file.n : k >= FirstRange => curr.off < file.ranges[k].end
<1>1. file.n \in Nat
  BY RequestOf
<1>2. /\ \A k \in 1..file.n : /\ file.ranges[k].start \in Nat /\ file.ranges[k].end \in Nat
                              /\ file.ranges[k].start < file.ranges[k].end
      /\ \A j, k \in 1..file.n : j < k => file.ranges[j].end <= file.ranges[k].start
  BY RangesOf DEF IsRange
<1> DEFINE P(k) == /\ \A j \in 1..(k - 1) : curr.off >= file.ranges[j].end
                   /\ k <= file.n => curr.off < file.ranges[k].end
           S == { k \in 1..(file.n + 1) : k <= file.n => curr.off < file.ranges[k].end }
<1>3. S \in SUBSET Nat /\ file.n + 1 \in S
  BY <1>1
<1>4. PICK m \in S : \A j \in S : m <= j
  <2> HIDE DEF S
  <2> QED
    BY <1>3, LowestExists
<1>5. m \in 1..(file.n + 1) /\ P(m)
  <2>1. ASSUME NEW j \in 1..(m - 1) PROVE curr.off >= file.ranges[j].end
    <3>1. j \in 1..(file.n + 1) /\ j < m /\ j <= file.n
      BY <1>1, <1>4
    <3>2. j \notin S
      BY <1>1, <1>4, <3>1
    <3> QED
      BY <1>1, <1>2, <3>1, <3>2
  <2> QED
    BY <1>4, <2>1
<1>6. FirstRange = CHOOSE k \in 1..(file.n + 1) : P(k)
  BY DEF FirstRange
<1>7. FirstRange \in 1..(file.n + 1) /\ P(FirstRange)
  <2> HIDE DEF P
  <2> QED
    BY <1>5, <1>6
<1>8. ASSUME NEW k \in 1..file.n, k >= FirstRange PROVE curr.off < file.ranges[k].end
  <2>1. FirstRange \in 1..file.n /\ curr.off < file.ranges[FirstRange].end
    BY <1>1, <1>7, <1>8
  <2>2. CASE k = FirstRange
    BY <2>1, <2>2
  <2>3. CASE FirstRange < k
    BY <1>2, <2>1, <2>3
  <2> QED
    BY <1>1, <1>7, <1>8, <2>2, <2>3
<1>9. ASSUME NEW j \in 1..file.n, j < FirstRange PROVE file.ranges[j].end <= curr.off
  <2>1. j \in 1..(FirstRange - 1)
    BY <1>1, <1>7, <1>9
  <2> QED
    BY <1>2, <1>7, <2>1
<1> QED
  BY <1>7, <1>8, <1>9

LEMMA TurnBodyKeeps == ASSUME IInv, TurnBody PROVE IInv'
<1>1. /\ pc = "turn" /\ curr.some /\ IsBody /\ pc' = "decrypt"
      /\ inner' = [inner EXCEPT ![CurrPos] = Truncated(curr)] /\ ri' = FirstRange
      /\ rd' = rd /\ stream' = stream /\ pos' = pos /\ pushed' = pushed /\ last' = last
      /\ out' = out /\ failed' = failed
  BY DEF TurnBody
<1>2. /\ pc \in Turning /\ Active /\ pos \in 0..2 /\ rd \in Reads
      /\ inner = [s \in 0..2 |-> inner[s]] /\ \A s \in 0..2 : IsBuf(inner[s])
  BY <1>1 DEF Turning, Active, IInv, Types
<1>3. older.some /\ IsRaw(older)
  BY <1>1, <1>2, TurnsNone DEF IInv, RingHolds
<1>4. curr = older /\ CurrPos = PrevPos(pos) /\ PrevPos(pos) \in 0..2
  BY <1>2, <1>3, TurnsOlder, RingPositions
<1>5. IsBodyOf(older) /\ IsBuf(older)
  BY <1>1, <1>2, <1>3, <1>4 DEF IsBody, IsBodyOf, older
<1>6. older.len > 0 /\ older.off + older.len <= end
  BY <1>2, <1>5 DEF IInv, ChunksFollow, IsChunkFrom
<1>7. Truncated(older) = older
  <2> DEFINE over == older.off + older.len - end
             keep == IF over >= 0 THEN Min2(older.len, Max2(0, older.len - over) + Block - 1)
                     ELSE older.len
  <2>1. Truncated(older) =
          [older EXCEPT !.len = keep, !.data = [i \in 0..(keep - 1) |-> older.data[i]]]
    BY DEF Truncated
  <2>2. keep = older.len
    BY <1>2, <1>5, <1>6, RequestOf, SizesAssumption DEF Min2, Max2, IsBuf
  <2> HIDE DEF keep
  <2> DEFINE S == 0..(older.len - 1)
  <2>3. [i \in S |-> older.data[i]] = older.data
    <3>1. older.data = [i \in S |-> Disk(older.off + i)]
      BY <1>3 DEF IsRaw
    <3> HIDE DEF S
    <3> QED
      BY <3>1
  <2>4. Truncated(older) = [older EXCEPT !.len = older.len, !.data = older.data]
    BY <2>1, <2>2, <2>3
  <2>5. older = [some |-> older.some, off |-> older.off, len |-> older.len, data |-> older.data]
    BY <1>5 DEF IsBuf
  <2> QED
    BY <2>4, <2>5
<1>8. inner' = inner
  BY <1>1, <1>2, <1>4, <1>7 DEF older
<1>9. newest' = newest /\ older' = older
  BY <1>1, <1>8 DEF newest, older
<1>10. /\ file' = file /\ \A p : Expected(p)' = Expected(p)
  BY <1>1, SameRequest, SameExpected
<1>11. file_offset \in Nat /\ older.off \in Nat /\ older.len \in Nat /\ file.n \in Nat
  BY <1>2, <1>5, RequestOf DEF IsBodyOf, IsBuf
<1>12. /\ FirstRange \in 1..(file.n + 1)
       /\ \A j \in 1..file.n : j < FirstRange => file.ranges[j].end <= older.off
       /\ \A k \in 1..file.n : k >= FirstRange => older.off < file.ranges[k].end
  BY <1>2, <1>4, <1>11, FirstRangeIs
<1>13. \A i \in 0..(older.len - 1) : older.data[i] = Disk(older.off + i)
  BY <1>3 DEF IsRaw
<1>14. ASSUME NEW i \in 0..(older.len - 1)
       PROVE  Disk(older.off + i) = PlainBelow(FirstRange, older.off + i)
  <2>1. \A k \in 1..file.n : file.ranges[k].end \in Nat
    BY <1>2, RangesOf DEF IsRange
  <2>2. ~CoveredBelow(FirstRange, older.off + i)
    BY <1>11, <1>12, <2>1 DEF CoveredBelow, Covered
  <2> QED
    BY <2>2 DEF PlainBelow
<1>15. ChunkIsRight'
  <2>1. InPlace(older.len, older.data, older.off)'
    BY <1>9, <1>10, <1>13 DEF InPlace, Disk
  <2>2. older'.data = [i \in 0..(older'.len - 1) |-> older'.data[i]]
    <3> DEFINE S == 0..(older.len - 1)
    <3>1. older.data = [i \in S |-> Disk(older.off + i)]
      BY <1>3 DEF IsRaw
    <3> HIDE DEF S
    <3>2. older.data = [i \in S |-> older.data[i]]
      BY <3>1
    <3> QED
      BY <1>9, <3>2 DEF S
  <2>3. \A i \in 0..(older'.len - 1) : older'.data[i] = PlainBelow(FirstRange, older'.off + i)
    BY <1>9, <1>13, <1>14
  <2>4. \A i \in 0..(older'.len - 1) : older'.data[i] = PlainBelow(ri, older.off + i)'
    BY <1>1, <1>10, <2>3 DEF PlainBelow, CoveredBelow, Covered
  <2> QED
    BY <1>1, <1>9, <1>10, <1>12, <2>1, <2>2, <2>4 DEF ChunkIsRight
<1>16. inner' = [s \in 0..2 |-> inner'[s]] /\ \A s \in 0..2 : IsBuf(inner'[s])
  BY <1>2, <1>8
<1> QED
  BY <1>1, <1>2, <1>5, <1>9, <1>15, <1>16, TurnStays

LEMMA DecryptDoneKeeps == ASSUME IInv, DecryptDone PROVE IInv'
<1>1. /\ pc = "decrypt" /\ pc' = "deliver"
      /\ ri <= file.n => file.ranges[ri].start >= curr.off + curr.len
      /\ rd' = rd /\ stream' = stream /\ out' = out /\ failed' = failed /\ RingUnchanged
  BY DEF DecryptDone
<1>2. /\ pc \in Turning /\ Active /\ rd \in Reads /\ curr = older /\ IsBodyOf(older)
      /\ IsBuf(older)
  BY <1>1, Decrypting
<1>3. /\ newest' = newest /\ older' = older
      /\ inner' = inner /\ pos' = pos /\ pushed' = pushed /\ last' = last /\ ri' = ri
  BY <1>1, SameRing
<1>4. /\ Benign' = Benign /\ \A p : Expected(p)' = Expected(p)
  BY <1>1, SameRequest, SameExpected
<1>5. /\ InPlace(older.len, older.data, older.off)
      /\ older.data = [i \in 0..(older.len - 1) |-> older.data[i]]
      /\ ri \in 1..file.n + 1
      /\ Benign => \A i \in 0..(older.len - 1) :
                     older.data[i] = PlainBelow(ri, older.off + i)
  BY <1>1 DEF IInv, ChunkIsRight
<1>6. /\ file.n \in Nat
      /\ \A k \in 1..file.n : file.ranges[k].start \in Nat /\ file.ranges[k].end \in Nat
                              /\ file.ranges[k].start < file.ranges[k].end
      /\ \A j, k \in 1..file.n : j < k => file.ranges[j].end <= file.ranges[k].start
  BY <1>2, RequestOf, RangesOf DEF IsRange
<1>7. older.off \in Int /\ older.len \in Nat /\ file.encrypted
  <2>1. pc # "plain"
    BY <1>1
  <2> QED
    BY <1>2, <2>1, RequestOf DEF IsBuf, IInv, StreamAt
<1>8. ASSUME NEW i \in 0..(older.len - 1)
      PROVE  PlainBelow(ri, older.off + i) = Expected(older.off + i)
  <2> DEFINE p == older.off + i
  <2>1. ASSUME NEW k \in 1..file.n, Covered(k, p) PROVE k < ri
    <3> SUFFICES ASSUME ~(k < ri) PROVE FALSE
      OBVIOUS
    <3>1. ri \in 1..file.n /\ file.ranges[ri].start >= older.off + older.len
      BY <1>1, <1>2, <1>5, <1>6
    <3>2. file.ranges[ri].start <= file.ranges[k].start
      <4>1. CASE k = ri
        BY <1>6, <3>1, <4>1
      <4>2. CASE ri < k
        <5>1. file.ranges[ri].end <= file.ranges[k].start
          BY <1>6, <3>1, <4>2
        <5> QED
          BY <1>6, <3>1, <5>1
      <4> QED
        BY <3>1, <4>1, <4>2
    <3> QED
      BY <1>6, <1>7, <2>1, <3>1, <3>2 DEF Covered
  <2> HIDE DEF p
  <2>2. CoveredBelow(ri, p) <=> InRange(p)
    BY <2>1 DEF CoveredBelow, InRange, Covered
  <2>3. PlainBelow(ri, p) = Expected(p)
    BY <1>7, <2>2 DEF PlainBelow, Expected
  <2> QED
    BY <2>3 DEF p
<1>9. ChunkIsRight'
  <2>1. InPlace(older.len, older.data, older.off)'
    BY <1>3, <1>4, <1>5 DEF InPlace
  <2> QED
    BY <1>1, <1>3, <1>4, <1>5, <1>8, <2>1 DEF ChunkIsRight
<1>10. inner' = [s \in 0..2 |-> inner'[s]] /\ \A s \in 0..2 : IsBuf(inner'[s])
  BY <1>3 DEF IInv, Types
<1> QED
  BY <1>1, <1>2, <1>3, <1>9, <1>10, TurnStays

(* Under a benign request no chunk begins inside a block, and a block that   *)
(* the chunk's end cuts is completed by the chunk pushed behind it.          *)
LEMMA BenignChunk ==
  ASSUME IInv, pc = "decrypt", Benign, NEW k \in 1..file.n,
         NEW r, r = file.ranges[k], curr.off < r.end
  PROVE  /\ curr.off <= RangeStart(r)
         /\ \/ (curr.off + curr.len - r.start) % Block = 0
            \/ \A j \in 0..(Block - 1) :
                 curr.off + curr.len + j < r.end => tail[j] = Disk(curr.off + curr.len + j)
<1>1. /\ pc \in Turning /\ Active /\ rd \in Reads
      /\ older.some /\ curr = older /\ next = newest
      /\ IsBodyOf(older) /\ IsBuf(older) /\ IsBuf(newest)
      /\ older.len > 0 /\ older.off + older.len <= end
      /\ older.off + older.len = end \/ older.len = BufferLen
      /\ (older.off - file_offset) % BufferLen = 0
  BY Decrypting
<1>2. /\ file_offset \in Nat /\ len \in Nat /\ end \in Nat /\ end = file_offset + len
      /\ end <= file.len /\ file.len \in Nat /\ file.data_offset \in Nat
      /\ rd.bdt_size \in Nat
  BY <1>1, RequestOf
<1>3. /\ older.off \in Nat /\ older.len \in Nat /\ newest.off \in Int /\ newest.len \in Nat
      /\ file_offset <= older.off /\ older.off < end
  BY <1>1, <1>2 DEF IsBodyOf, IsBuf
<1>4. r.start \in Nat /\ r.end \in Nat /\ r.end <= file.len
  BY <1>1, RangesOf DEF IsRange
<1>5. /\ Block \in Nat \ {0} /\ BufferLen \in Nat \ {0} /\ BufferLen % Block = 0
      /\ Window \in Nat /\ Window >= Block
  BY SizesAssumption
<1>6. /\ RangeStart(r) \in Int /\ r.start <= RangeStart(r)
      /\ curr.off < r.start => RangeStart(r) = r.start
  BY <1>1, <1>3, <1>4, RangeStartIs
<1>7. file.encrypted
  <2>1. pc # "plain"
    OBVIOUS
  <2> QED
    BY <1>1, <2>1, RequestOf DEF IInv, StreamAt
<1>8. \/ (file_offset - r.start) % Block = 0
      \/ file_offset <= r.start /\ len <= BufferLen
  BY <1>7 DEF Benign, BlockAligned
<1>9. ASSUME (file_offset - r.start) % Block = 0
      PROVE  (older.off - r.start) % Block = 0
  <2> DEFINE a == older.off - file_offset
             b == file_offset - r.start
  <2>1. a \in Int /\ b \in Int /\ a % BufferLen = 0 /\ b % Block = 0
    BY <1>1, <1>2, <1>3, <1>4, <1>9
  <2>2. a + b = older.off - r.start
    BY <1>2, <1>3, <1>4
  <2> HIDE DEF a, b
  <2>3. a % Block = 0
    BY <1>5, <2>1, MultipleOfMultiple
  <2>4. (a + b) % Block = 0
    BY <1>5, <2>1, <2>3, Multiples
  <2> QED
    BY <2>2, <2>4
<1>10. ASSUME len <= BufferLen
       PROVE  older.off = file_offset
  <2> DEFINE a == older.off - file_offset
  <2>1. a \in Int /\ a % BufferLen = 0 /\ a < BufferLen /\ 0 <= a
    BY <1>1, <1>2, <1>3, <1>5, <1>10
  <2> HIDE DEF a
  <2>2. a = 0
    BY <1>5, <2>1
  <2> QED
    BY <1>2, <1>3, <2>2 DEF a
<1>11. curr.off <= RangeStart(r)
  <2>1. CASE (file_offset - r.start) % Block = 0
    <3>1. CASE curr.off >= r.start
      <4>1. RangeStart(r) = curr.off - ((curr.off - r.start) % Block)
        BY <3>1 DEF RangeStart
      <4> QED
        BY <1>1, <1>3, <1>9, <2>1, <4>1
    <3>2. CASE ~(curr.off >= r.start)
      BY <1>1, <1>3, <1>4, <1>6, <3>2
    <3> QED
      BY <3>1, <3>2
  <2>2. CASE file_offset <= r.start /\ len <= BufferLen
    <3>1. older.off = file_offset
      BY <1>10, <2>2
    <3> QED
      BY <1>1, <1>2, <1>4, <1>6, <2>2, <3>1
  <2> QED
    BY <1>8, <2>1, <2>2
<1>12. rd.bdt_size >= file.data_offset + Min2(file.len, end + 1)
  BY DEF Benign, ArchiveReaches
<1>13. EndsBefore(end) => end = file.len
  BY <1>2, <1>12 DEF EndsBefore, Min2
<1>14. last => older.off + older.len = end
  <2> SUFFICES ASSUME last PROVE older.off + older.len = end
    OBVIOUS
  <2>1. ~newest.some /\ stream.at = "end"
    BY <1>1 DEF IInv, RingHolds
  <2>2. Reached = older.off + older.len
    BY <1>1, <2>1 DEF Reached, Reach, ReachOlder, IsBodyOf
  <2>3. Position = end
    BY <1>1, <2>1 DEF IInv, StreamAt, IsStream, Position
  <2>4. Reached = Position \/ EndsBefore(Reached)
    BY <1>1 DEF IInv, ChunksFollow
  <2>5. older.off + older.len <= end
    BY <1>1
  <2> DEFINE p == older.off + older.len
  <2>6. p \in Int /\ p <= end /\ (p = end \/ rd.bdt_size <= file.data_offset + p)
    BY <1>3, <2>2, <2>3, <2>4, <2>5 DEF EndsBefore
  <2> HIDE DEF p
  <2>7. p = end
    BY <1>2, <1>12, <2>6 DEF Min2
  <2> QED
    BY <2>7 DEF p
<1>15. ASSUME older.off + older.len = end, NEW j \in 0..(Block - 1), end + j < r.end
       PROVE  tail[j] = Disk(end + j)
  <2>1. TailLen \in Nat /\ (TailLen = Window \/ end + TailLen = file.len)
    BY <1>1, TailOf
  <2>2. j < TailLen
    BY <1>2, <1>4, <1>5, <1>15, <2>1
  <2>3. ~last
    <3> SUFFICES ASSUME last PROVE FALSE
      OBVIOUS
    <3>1. NoTail
      BY <1>1 DEF IInv, NeighbourIsNext
    <3> QED
      BY <1>2, <1>4, <1>5, <1>13, <1>15, <2>1, <2>2, <3>1 DEF NoTail
  <2>4. newest.off = end /\ newest.len = TailLen
    BY <1>1, <1>2, <1>3, <1>15, <2>3 DEF IInv, NeighbourIsNext
  <2>5. IsRaw(newest)
    BY <1>1, <2>3 DEF IInv, RingHolds
  <2>6. newest.data[j] = Disk(end + j)
    <3>1. j \in 0..(newest.len - 1)
      BY <1>5, <2>1, <2>2, <2>4
    <3> QED
      BY <2>4, <2>5, <3>1 DEF IsRaw
  <2> QED
    BY <1>1, <1>5, <2>2, <2>4, <2>6 DEF tail
<1>16. CASE older.off + older.len = end
  BY <1>1, <1>11, <1>15, <1>16
<1>17. CASE older.off + older.len # end
  <2>1. older.len = BufferLen
    BY <1>1, <1>17
  <2>2. ~(len <= BufferLen)
    <3> SUFFICES ASSUME len <= BufferLen PROVE FALSE
      OBVIOUS
    <3>1. older.off = file_offset /\ older.off + older.len <= end
      BY <1>1, <1>10
    <3>2. BufferLen \in Nat
      BY <1>5
    <3> QED
      BY <1>2, <1>3, <1>17, <2>1, <3>1, <3>2
  <2>3. (older.off - r.start) % Block = 0
    BY <1>8, <1>9, <2>2
  <2> DEFINE a == older.off - r.start
  <2>4. a \in Int /\ a % Block = 0 /\ a + BufferLen = older.off + older.len - r.start
    BY <1>3, <1>4, <1>5, <2>1, <2>3
  <2> HIDE DEF a
  <2>5. (a + BufferLen) % Block = 0
    <3>1. a \in Int /\ BufferLen \in Int /\ a % Block = 0 /\ BufferLen % Block = 0
      BY <1>5, <2>4
    <3> QED
      BY <1>5, <3>1, Multiples
  <2> QED
    BY <1>1, <1>11, <2>4, <2>5
<1> QED
  BY <1>16, <1>17

LEMMA DecryptNextKeeps == ASSUME IInv, DecryptNext PROVE IInv'
<1> DEFINE r == file.ranges[ri]
           D == DecryptRange(r)
<1>1. /\ pc = "decrypt" /\ ri <= file.n /\ ri' = ri + 1 /\ pc' = pc
      /\ inner' = [inner EXCEPT ![CurrPos].data = D]
      /\ rd' = rd /\ stream' = stream /\ pos' = pos /\ pushed' = pushed /\ last' = last
      /\ out' = out /\ failed' = failed
  BY DEF DecryptNext
<1>2. /\ pc \in Turning /\ Active /\ rd \in Reads /\ pos \in 0..2
      /\ older.some /\ curr = older /\ CurrPos = PrevPos(pos)
      /\ IsBodyOf(older) /\ IsBuf(older)
  BY <1>1, Decrypting
<1>3. /\ inner = [s \in 0..2 |-> inner[s]] /\ \A s \in 0..2 : IsBuf(inner[s])
  BY DEF IInv, Types
<1>4. PrevPos(pos) \in 0..2 /\ PrevPos(pos) # pos
  BY <1>2, RingPositions
<1>5. /\ InPlace(older.len, older.data, older.off)
      /\ ri \in 1..file.n + 1
      /\ \A k \in 1..file.n : k >= ri => older.off < file.ranges[k].end
      /\ Benign => \A i \in 0..(older.len - 1) :
                     older.data[i] = PlainBelow(ri, older.off + i)
  BY <1>1 DEF IInv, ChunkIsRight
<1>6. /\ file.n \in Nat
      /\ \A k \in 1..file.n :
           /\ file.ranges[k].start \in Nat /\ file.ranges[k].end \in Nat
           /\ file.ranges[k].start < file.ranges[k].end
           /\ (file.ranges[k].end - file.ranges[k].start) % Block = 0
      /\ \A j, k \in 1..file.n : j < k => file.ranges[j].end <= file.ranges[k].start
  BY <1>2, RequestOf, RangesOf DEF IsRange
<1>7. ri \in 1..file.n
  BY <1>1, <1>5, <1>6
<1>8. /\ r.start \in Nat /\ r.end \in Nat /\ (r.end - r.start) % Block = 0
      /\ older.off < r.end
  BY <1>5, <1>6, <1>7
<1>9. older.off \in Nat /\ older.len \in Nat /\ file.encrypted
  <2>1. pc # "plain"
    BY <1>1
  <2> QED
    BY <1>2, <2>1, RequestOf DEF IsBodyOf, IsBuf, IInv, StreamAt
<1>10. D = [i \in 0..(older.len - 1) |-> D[i]]
  <2> DEFINE data == IF RangeStart(r) < curr.off THEN FirstBlock(r) ELSE curr.data
             from == WholeFrom(r)
             to == Min2(curr.len, r.end - curr.off)
             blockOf(i) == i - ((i - from) % Block)
             cell(b) == [j \in 0..(Block - 1) |->
                           IF b + j < to THEN data[b + j] ELSE tail[b + j - to]]
             value(i) == IF from <= i /\ i < to
                         THEN DecryptBlock(r, cell(blockOf(i)))[i - blockOf(i)]
                         ELSE data[i]
             S == 0..(older.len - 1)
  <2>1. D = [i \in S |-> value(i)]
    BY <1>2 DEF DecryptRange
  <2> HIDE DEF D, value, S
  <2>2. D = [i \in S |-> D[i]]
    BY <2>1
  <2> QED
    BY <2>2 DEF S
<1>11. ASSUME NEW i \in 0..(older.len - 1)
       PROVE  /\ D[i][2] = older.data[i][2]
              /\ ~Covered(ri, older.off + i) => D[i] = older.data[i]
  <2>1. /\ D[i][2] = curr.data[i][2]
        /\ ~(r.start <= curr.off + i /\ curr.off + i < r.end) => D[i] = curr.data[i]
    <3> HIDE DEF r
    <3> QED
      BY <1>2, <1>8, <1>9, DecryptsInPlace
  <2> QED
    BY <1>2, <2>1 DEF Covered
<1>12. ASSUME Benign, NEW i \in 0..(older.len - 1), Covered(ri, older.off + i)
       PROVE  D[i] = Plain(older.off + i)
  <2>1. r.start <= curr.off + i /\ curr.off + i < r.end
    BY <1>2, <1>12 DEF Covered
  <2>2. /\ curr.off <= RangeStart(r)
        /\ \/ (curr.off + curr.len - r.start) % Block = 0
           \/ \A j \in 0..(Block - 1) :
                curr.off + curr.len + j < r.end => tail[j] = Disk(curr.off + curr.len + j)
    BY <1>1, <1>2, <1>7, <1>8, <1>12, BenignChunk
  <2>3. ASSUME NEW j \in 0..(curr.len - 1), r.start <= curr.off + j, curr.off + j < r.end
        PROVE  curr.data[j] = Disk(curr.off + j)
    <3>1. ~CoveredBelow(ri, curr.off + j)
      <4> SUFFICES ASSUME NEW k \in 1..file.n, k < ri, Covered(k, curr.off + j) PROVE FALSE
        BY DEF CoveredBelow
      <4>1. file.ranges[k].end <= r.start
        BY <1>6, <1>7
      <4> QED
        BY <1>2, <1>6, <1>8, <1>9, <2>3, <4>1 DEF Covered
    <3>2. curr.data[j] = PlainBelow(ri, curr.off + j)
      BY <1>2, <1>5, <1>12
    <3> QED
      BY <3>1, <3>2 DEF PlainBelow
  <2> HIDE DEF r
  <2>4. D[i] = Plain(curr.off + i)
    BY <1>2, <1>8, <1>9, <2>1, <2>2, <2>3, DecryptsBlocks
  <2> QED
    BY <1>2, <2>4
<1> HIDE DEF D
<1>13. inner' = [s \in 0..2 |->
                   IF s = PrevPos(pos) THEN [older EXCEPT !.data = D] ELSE inner[s]]
  <2> DEFINE S == 0..2
  <2>1. /\ inner = [s \in S |-> inner[s]] /\ PrevPos(pos) \in S
    BY <1>3, <1>4
  <2> HIDE DEF S
  <2>2. inner' = [inner EXCEPT ![PrevPos(pos)] = [inner[PrevPos(pos)] EXCEPT !.data = D]]
    BY <1>1, <1>2
  <2>3. inner' = [s \in S |->
                   IF s = PrevPos(pos) THEN [older EXCEPT !.data = D] ELSE inner[s]]
    BY <2>1, <2>2 DEF older
  <2> QED
    BY <2>3 DEF S
<1>14. /\ older' = [older EXCEPT !.data = D] /\ newest' = newest
  <2>1. older' = inner'[PrevPos(pos)] /\ newest' = inner'[pos]
    BY <1>1 DEF older, newest
  <2>2. inner'[PrevPos(pos)] = [older EXCEPT !.data = D]
    BY <1>4, <1>13
  <2>3. inner'[pos] = inner[pos]
    BY <1>2, <1>4, <1>13
  <2> QED
    BY <2>1, <2>2, <2>3 DEF newest
<1>15. /\ older' = [some |-> older.some, off |-> older.off, len |-> older.len, data |-> D]
  <2>1. older = [some |-> older.some, off |-> older.off, len |-> older.len, data |-> older.data]
    BY <1>2 DEF IsBuf
  <2>2. PICK s, o, l, d : older = [some |-> s, off |-> o, len |-> l, data |-> d]
    BY <2>1
  <2>3. older' = [some |-> s, off |-> o, len |-> l, data |-> D]
    BY <1>14, <2>2
  <2> QED
    BY <2>2, <2>3
<1>16. /\ older'.some = older.some /\ older'.off = older.off /\ older'.len = older.len
       /\ older'.data = D /\ IsBuf(older')
  BY <1>2, <1>15 DEF IsBuf
<1>17. inner' = [s \in 0..2 |-> inner'[s]] /\ \A s \in 0..2 : IsBuf(inner'[s])
  <2> DEFINE S == 0..2
             f(s) == IF s = PrevPos(pos) THEN older' ELSE inner[s]
  <2>1. inner' = [s \in S |-> f(s)]
    BY <1>13, <1>14
  <2>2. \A s \in S : IsBuf(f(s))
    BY <1>3, <1>16
  <2> HIDE DEF S, f
  <2>3. inner' = [s \in S |-> inner'[s]] /\ \A s \in S : IsBuf(inner'[s])
    BY <2>1, <2>2
  <2> QED
    BY <2>3 DEF S
<1>18. /\ file' = file /\ Benign' = Benign /\ \A p : Expected(p)' = Expected(p)
  BY <1>1, SameRequest, SameExpected
<1>19. ASSUME NEW i \in 0..(older.len - 1)
       PROVE  /\ D[i][2] = older.off + i
              /\ Expected(older.off + i)[1] = "disk" => D[i] = Disk(older.off + i)
  <2>1. /\ older.data[i][2] = older.off + i
        /\ Expected(older.off + i)[1] = "disk" => older.data[i] = Disk(older.off + i)
    BY <1>5 DEF InPlace
  <2>2. Expected(older.off + i)[1] = "disk" => ~Covered(ri, older.off + i)
    BY <1>7, <1>9 DEF Expected, InRange, Covered, Plain
  <2> QED
    BY <1>11, <2>1, <2>2
<1>20. ASSUME Benign, NEW i \in 0..(older.len - 1)
       PROVE  D[i] = PlainBelow(ri + 1, older.off + i)
  <2> DEFINE p == older.off + i
  <2>1. CoveredBelow(ri + 1, p) <=> CoveredBelow(ri, p) \/ Covered(ri, p)
    BY <1>6, <1>7 DEF CoveredBelow
  <2>2. CASE Covered(ri, p)
    BY <1>12, <1>20, <2>1, <2>2 DEF PlainBelow
  <2>3. CASE ~Covered(ri, p)
    BY <1>5, <1>11, <1>20, <2>1, <2>3 DEF PlainBelow
  <2> QED
    BY <2>2, <2>3
<1>21. ChunkIsRight'
  <2>1. InPlace(older.len, older.data, older.off)'
    BY <1>16, <1>18, <1>19 DEF InPlace
  <2>2. older'.data = [i \in 0..(older'.len - 1) |-> older'.data[i]]
    BY <1>10, <1>16
  <2>3. Benign => \A i \in 0..(older.len - 1) : D[i] = PlainBelow(ri, older.off + i)'
    BY <1>1, <1>16, <1>18, <1>20 DEF PlainBelow, CoveredBelow, Covered
  <2>4. ri' \in 1..file.n + 1 /\ \A k \in 1..file.n : k >= ri' => older.off < file.ranges[k].end
    BY <1>1, <1>5, <1>6, <1>7
  <2> QED
    BY <1>1, <1>16, <1>18, <2>1, <2>2, <2>3, <2>4 DEF ChunkIsRight
<1>22. pc' \in {"decrypt", "deliver"}
  BY <1>1
<1> QED
  BY <1>1, <1>2, <1>14, <1>16, <1>17, <1>21, <1>22, TurnStays

-----------------------------------------------------------------------------
LEMMA InitHolds == ASSUME Init PROVE IInv
<1>1. /\ rd \in Reads /\ pc = "entry" /\ inner = [s \in 0..2 |-> NoBuf] /\ pos = 1
      /\ pushed = FALSE /\ last = FALSE /\ failed = FALSE
      /\ out = [len |-> 0, data |-> <<>>]
  BY DEF Init
<1>2. ~Active /\ pc \notin Turning /\ len \in Nat
  BY <1>1, RequestOf DEF Active, Turning, Streaming
<1>3. Types
  <2>1. \A s \in 0..2 : inner[s] = NoBuf
    BY <1>1
  <2>2. inner = [s \in 0..2 |-> inner[s]]
    BY <1>1
  <2>3. \A s \in 0..2 : IsBuf(inner[s])
    BY <2>1, NoBufIs
  <2>4. out.len = 0
    BY <1>1
  <2>5. pc \in {"entry"} \cup Streaming \cup Turning \cup Final /\ pos \in 0..2
    BY <1>1
  <2>6. pushed \in BOOLEAN /\ last \in BOOLEAN /\ failed \in BOOLEAN
    BY <1>1, Zenon
  <2>7. out.len \in Nat
    BY <2>4
  <2> QED
    BY <1>1, <2>2, <2>3, <2>5, <2>6, <2>7, Zenon DEF Types
<1>4. RingHolds
  BY <1>1, <1>2, NoBufIs DEF RingHolds, RingIsEmpty
<1>5. StreamAt /\ ChunksFollow /\ NeighbourIsNext /\ ChunkIsRight
  BY <1>1, <1>2 DEF StreamAt, ChunksFollow, NeighbourIsNext, ChunkIsRight
<1>6. DeliveredIsRight
  BY <1>1, <1>2 DEF DeliveredIsRight, InPlace
<1>7. SomethingIsPushed /\ NothingPresentIsDropped
  BY <1>1 DEF SomethingIsPushed, NothingPresentIsDropped
<1> QED
  BY <1>3, <1>4, <1>5, <1>6, <1>7 DEF IInv

LEMMA NextKeeps == ASSUME IInv, [Next]_vars PROVE IInv'
<1>1. CASE UNCHANGED vars
  BY <1>1, Stutters
<1>2. CASE Finished
  BY <1>2, Stutters DEF Finished
<1>3. CASE Entry \/ OpenFails \/ Open
  BY <1>3, EntryKeeps, OpenFailsKeeps, OpenKeeps
<1>4. CASE ReadSkips \/ ReadTruncated \/ ReadFails
  BY <1>4, ReadSkipsKeeps, ReadTruncatedKeeps, ReadFailsKeeps
<1>5. CASE PlainChunk \/ PlainChunkRefused \/ PlainDone
  BY <1>5, PlainChunkKeeps, PlainChunkRefusedKeeps, PlainDoneKeeps
<1>6. CASE PushChunk \/ FinishRing
  BY <1>6, PushChunkKeeps, FinishRingKeeps
<1>7. CASE TurnEmpty \/ TurnContext \/ TurnBody
  BY <1>7, TurnEmptyKeeps, TurnContextKeeps, TurnBodyKeeps
<1>8. CASE DecryptNext \/ DecryptDone
  BY <1>8, DecryptNextKeeps, DecryptDoneKeeps
<1>9. CASE Deliver \/ DeliverRefused
  BY <1>9, DeliverKeeps, DeliverRefusedKeeps
<1> QED
  BY <1>1, <1>2, <1>3, <1>4, <1>5, <1>6, <1>7, <1>8, <1>9 DEF Next

LEMMA Inductive == Spec => []IInv
<1>1. Init => IInv
  BY InitHolds
<1>2. IInv /\ [Next]_vars => IInv'
  BY NextKeeps
<1> QED
  BY <1>1, <1>2, PTL DEF Spec

(* Every byte a read hands to the callback is the byte at its place in the   *)
(* request, in order, once, and none lies behind the request, for every      *)
(* request, archive and size of buffers: read_file (mount.rs:176-215).       *)
THEOREM ChunksAreInOrder == Spec => []DeliveredInOrder
<1>1. IInv => DeliveredInOrder
  BY DEF IInv, DeliveredIsRight, InPlace, DeliveredInOrder
<1> QED
  BY <1>1, Inductive, PTL

(* Aes128::decrypt never writes outside the range it works on, whatever the  *)
(* chunk: a byte that no range holds is delivered as the archive stores it   *)
(* (encryption.rs:389-450).                                                  *)
THEOREM ClearBytesPass == Spec => []ClearBytesUntouched
<1>1. IInv => ClearBytesUntouched
  BY DEF IInv, DeliveredIsRight, InPlace, ClearBytesUntouched
<1> QED
  BY <1>1, Inductive, PTL

(* A read whose chunks begin at block boundaries is decrypted right: each    *)
(* block is in one chunk, or the window behind the request completes it      *)
(* (encryption.rs:369-453, aligned.rs:99-104).                               *)
THEOREM AlignedReadDecrypts == Spec => []AlignedReadIsPlaintext
<1>1. IInv => AlignedReadIsPlaintext
  BY DEF IInv, DeliveredIsRight, Benign, AlignedReadIsPlaintext
<1> QED
  BY <1>1, Inductive, PTL

(* The chunks the stream drops hold nothing: a read that ends well delivered *)
(* the request or all the archive has of it (aligned.rs:198).                *)
THEOREM DroppedIsAbsent == Spec => []NothingPresentIsDropped
<1>1. IInv => NothingPresentIsDropped
  BY DEF IInv
<1> QED
  BY <1>1, Inductive, PTL

(* With the archive complete and the I/O working, no read is refused, and    *)
(* only an empty file reaches an expect of the path (aligned.rs:117-125,     *)
(* encryption.rs:139).                                                       *)
THEOREM CompleteArchiveIsRead == Spec => []IntactFileIsRead
<1>1. IInv => IntactFileIsRead
  BY DEF IInv, SomethingIsPushed, IntactFileIsRead
<1> QED
  BY <1>1, Inductive, PTL
=============================================================================
