------------------------------ MODULE ReadFile ------------------------------
(* One read of one file of the mounted archives, from the inode to the bytes *)
(* handed to the caller: DvdbndMount::read_file and read_and_decrypt_file    *)
(* (dvdbnd/mount.rs), the chunk streams of filesystem/aligned.rs, the        *)
(* three-slot CiphertextBuffer and the AES-128 range decryption of           *)
(* filesystem/encryption.rs.                                                 *)
(*                                                                           *)
(* Positions are relative to the file's first byte in the .bdt archive, as   *)
(* the i64 offsets of the code are; a negative one belongs to the file       *)
(* before it.  A byte is a pair <<kind, position>>: "disk" is the byte as    *)
(* stored, "plain" the byte correctly decrypted, "junk" what decrypting      *)
(* anything but a whole cipher block of the range yields, "zero" padding.    *)
EXTENDS Integers, Sequences

CONSTANTS
  Block,       \* BLOCK_SIZE, bytes of one cipher block (16)
  Window,      \* WINDOW_SIZE, context read on either side (64 unix, 512 windows)
  BufferLen,   \* BUFFER_LEN, bytes of one pool buffer (32768)
  Reads        \* the reads considered: file, archive size and request

(* The constants of the build: aligned.rs:24-30, 240-245; encryption.rs:24.  *)
ASSUME SizesAssumption ==
  /\ Block \in Nat \ {0} /\ Window \in Nat /\ BufferLen \in Nat \ {0}
  /\ Window >= Block
  /\ BufferLen % Block = 0

Min2(a, b) == IF a <= b THEN a ELSE b
Max2(a, b) == IF a >= b THEN a ELSE b

-----------------------------------------------------------------------------
(* Files and requests.  A range is half open and whole blocks long; ranges   *)
(* are ordered by their end, which is how store_encryption leaves them.  Two *)
(* assumptions about headers come with them: that no range starts at 0 and   *)
(* is longer than its file, the one that goes beyond its file and is stored  *)
(* (encryption.rs:241), and that the ranges of a file do not overlap, which  *)
(* store_encryption does not check.                                          *)
IsRange(r, len) ==
  /\ r.start \in Nat /\ r.end \in Nat
  /\ r.start < r.end /\ r.end <= len
  /\ (r.end - r.start) % Block = 0

IsFile(f) ==
  /\ f.kind \in {"file", "dir", "stale"}
  /\ f.data_offset \in Nat /\ f.len \in Nat
  /\ f.unpadded_len \in 0..f.len
  /\ f.encrypted \in BOOLEAN
  /\ f.n \in Nat
  /\ \A k \in 1..f.n : IsRange(f.ranges[k], f.len)
  /\ \A j, k \in 1..f.n : j < k => f.ranges[j].end <= f.ranges[k].start

IsRead(x) ==
  IsFile(x.file) /\ x.bdt_size \in Nat /\ x.offset \in Nat /\ x.len \in Nat

ASSUME ReadsAssumption == \A x \in Reads : IsRead(x)

VARIABLES
  rd,      \* the read being served
  pc,      \* where read_file or read_and_decrypt_file is
  stream,  \* the chunk stream: the part it is in and its position
  inner,   \* CiphertextBuffer::inner
  pos,     \* CiphertextBuffer::pos
  pushed,  \* CiphertextBuffer::is_pushed
  last,    \* is_last
  ri,      \* the next range of the decryption loop
  out,     \* the bytes the callback was given so far, as one buffer
  failed   \* an I/O call or the callback failed

vars == <<rd, pc, stream, inner, pos, pushed, last, ri, out, failed>>

file == rd.file
Final == {"done", "err", "panic"}

unpadded_len == IF file.unpadded_len = 0 THEN file.len ELSE file.unpadded_len
file_offset == Min2(rd.offset, unpadded_len)
len == Min2(rd.len, unpadded_len - file_offset)
end == file_offset + len
data_start == file.data_offset + file_offset

(* The two assertions of end_bounds.                                         *)
EndBoundsHold == 0 <= file_offset /\ end <= file.len

-----------------------------------------------------------------------------
(* Buffers.  data is a function on 0..len-1; an empty slot of the ring is a  *)
(* buffer that is not some, and reads as the empty slice.                    *)
Disk(p) == <<"disk", p>>
Plain(p) == <<"plain", p>>
Zero == <<"zero", 0>>
NoBuf == [some |-> FALSE, off |-> 0, len |-> 0, data |-> <<>>]

DiskBuf(p, n) == [some |-> TRUE, off |-> p, len |-> n,
                  data |-> [i \in 0..(n - 1) |-> Disk(p + i)]]

-----------------------------------------------------------------------------
(* The chunk streams.  stream_read yields the body chunks; the windowed one  *)
(* adds one window before and one after; when head, body and tail fit one    *)
(* buffer they come from a single read that is then split in three.          *)
OneWindow ==
  /\ file.encrypted
  /\ len <= BufferLen - 2 * Window
  /\ data_start >= Window

BodyFrom(p) ==
  IF p < end THEN [at |-> "body", cur |-> p]
  ELSE [at |-> IF file.encrypted THEN "tail" ELSE "end", cur |-> end]

StreamInit ==
  IF OneWindow THEN [at |-> "window_head", cur |-> file_offset - Window]
  ELSE IF file.encrypted
       THEN [at |-> "head", cur |-> Max2(0, file_offset - Window)]
       ELSE BodyFrom(file_offset)

(* Bytes of the item the stream is at, as pushed to the consumer.            *)
ItemLen ==
  CASE stream.at = "head" -> file_offset - stream.cur
    [] stream.at = "body" -> Min2(end - stream.cur, BufferLen)
    [] stream.at = "tail" -> Min2(end + Window, file.len) - end
    [] stream.at = "window_head" -> Window
    [] stream.at = "window_body" -> len
    [] stream.at = "window_tail" -> Min2(end + Window, file.len) - end

(* Bytes of the read call made to produce it; the split parts need none.     *)
ReadLen ==
  IF stream.at = "window_head"
  THEN Min2(end + Window, file.len) - stream.cur ELSE ItemLen

StreamNext ==
  CASE stream.at = "head" -> BodyFrom(file_offset)
    [] stream.at = "body" -> BodyFrom(stream.cur + BufferLen)
    [] stream.at = "tail" -> [at |-> "end", cur |-> end]
    [] stream.at = "window_head" -> [at |-> "window_body", cur |-> file_offset]
    [] stream.at = "window_body" -> [at |-> "window_tail", cur |-> end]
    [] stream.at = "window_tail" -> [at |-> "end", cur |-> end]

(* Variant: an item that is dropped is asked for again.                      *)
StreamSkip_Again == stream

(* A window read that finds the end of the archive yields no item at all.    *)
StreamSkip ==
  IF stream.at = "window_head" THEN [at |-> "end", cur |-> end] ELSE StreamNext

IsSplit == stream.at \in {"window_body", "window_tail"}

(* aligned::read.  The archive answers with what it holds at the position:   *)
(* nothing at or past its end, which the stream drops, fewer bytes than      *)
(* asked across its end, which is an error.                                  *)
ReadPos == file.data_offset + stream.cur
(* Variant: a short read counts as the end of the archive.                   *)
ReadNone_Short ==
  ~IsSplit /\ (ReadLen = 0 \/ ReadPos + ReadLen > rd.bdt_size)

ReadNone == ~IsSplit /\ (ReadLen = 0 \/ ReadPos >= rd.bdt_size)
ReadShort == ~IsSplit /\ ~ReadNone /\ ReadPos + ReadLen > rd.bdt_size
ReadOk == ~ReadNone /\ ~ReadShort

-----------------------------------------------------------------------------
(* Variant: the ring is filled backwards.                                    *)
NextPos_Back(p) == (p + 2) % 3

(* CiphertextBuffer.                                                         *)
NextPos(p) == (p + 1) % 3
PrevPos(p) == (p + 2) % 3

HasPredecessor == inner[PrevPos(pos)].some
CurrPos == IF HasPredecessor THEN PrevPos(pos) ELSE pos
curr == inner[CurrPos]
prev == IF HasPredecessor THEN inner[PrevPos(PrevPos(pos))] ELSE NoBuf
next == IF HasPredecessor THEN inner[pos] ELSE NoBuf

Push(buf) ==
  /\ pos' = NextPos(pos)
  /\ inner' = [inner EXCEPT ![NextPos(pos)] = buf]
  /\ pushed' = TRUE

(* Ciphertext::from_buffer: the last block of the previous chunk and the     *)
(* first of the next, padded with zeros.                                     *)
head == [j \in 0..(Block - 1) |->
           LET i == j + prev.len - Block IN IF i >= 0 THEN prev.data[i] ELSE Zero]
(* Variant: a block cut by the end of the chunk is padded with zeros.        *)
tail_Zero == [j \in 0..(Block - 1) |-> Zero]

tail == [j \in 0..(Block - 1) |-> IF j < next.len THEN next.data[j] ELSE Zero]

-----------------------------------------------------------------------------
(* Aes128::decrypt.  DecryptBlock is the cipher on one block: the plaintext  *)
(* when the block is a stored block of range r, junk otherwise.              *)
IsStoredBlock(r, blk) ==
  LET p == blk[0][2] IN
  /\ r.start <= p /\ p < r.end /\ (p - r.start) % Block = 0
  /\ \A j \in 0..(Block - 1) : blk[j] = Disk(p + j)

DecryptBlock(r, blk) ==
  [j \in 0..(Block - 1) |->
     <<IF IsStoredBlock(r, blk) THEN "plain" ELSE "junk", blk[j][2]>>]

(* The block boundary of r at or before the chunk, or the start of r.        *)
RangeStart(r) ==
  IF curr.off >= r.start THEN curr.off - ((curr.off - r.start) % Block) ELSE r.start

(* The block that begins in the previous chunk: completed from head and      *)
(* tail, decrypted, and its middle copied back.                              *)
FirstBlock(r) ==
  LET left == curr.off - RangeStart(r)
      left_len == Block - left
      mid_len == Min2(left_len, curr.len)
      blk == DecryptBlock(r,
               [j \in 0..(Block - 1) |->
                  IF j < left THEN head[left_len + j]
                  ELSE IF j < left + mid_len THEN curr.data[j - left]
                  ELSE tail[j - left - mid_len]])
  IN [i \in 0..(curr.len - 1) |-> IF i < mid_len THEN blk[left + i] ELSE curr.data[i]]

(* The first index of the whole blocks.  After a split first block the code  *)
(* adds the file offset of the chunk (encryption.rs:417).                    *)
WholeFrom(r) ==
  IF RangeStart(r) < curr.off
  THEN curr.off + (Block - (curr.off - RangeStart(r)))
  ELSE RangeStart(r) - curr.off

(* Variant: the range is decrypted to the end of the chunk.                  *)
DecryptRange_NoEnd(r) ==
  LET data == IF RangeStart(r) < curr.off THEN FirstBlock(r) ELSE curr.data
      from == WholeFrom(r)
      to == curr.len
      blockOf(i) == i - ((i - from) % Block)
      cell(b) == [j \in 0..(Block - 1) |->
                    IF b + j < to THEN data[b + j] ELSE tail[b + j - to]]
  IN [i \in 0..(curr.len - 1) |->
        IF from <= i /\ i < to
        THEN DecryptBlock(r, cell(blockOf(i)))[i - blockOf(i)]
        ELSE data[i]]

(* What range r leaves in the chunk: the whole blocks, the last of which may *)
(* be completed from tail.                                                   *)
DecryptRange(r) ==
  LET data == IF RangeStart(r) < curr.off THEN FirstBlock(r) ELSE curr.data
      from == WholeFrom(r)
      to == Min2(curr.len, r.end - curr.off)
      blockOf(i) == i - ((i - from) % Block)
      cell(b) == [j \in 0..(Block - 1) |->
                    IF b + j < to THEN data[b + j] ELSE tail[b + j - to]]
  IN [i \in 0..(curr.len - 1) |->
        IF from <= i /\ i < to
        THEN DecryptBlock(r, cell(blockOf(i)))[i - blockOf(i)]
        ELSE data[i]]

(* partition_point: the ranges that end at or before the chunk are passed.   *)
FirstRange ==
  CHOOSE k \in 1..(file.n + 1) :
    /\ \A j \in 1..(k - 1) : curr.off >= file.ranges[j].end
    /\ k <= file.n => curr.off < file.ranges[k].end

-----------------------------------------------------------------------------
(* The callback: the part of the buffer before the end of the request is     *)
(* appended to what was delivered.                                           *)
Delivered(buf) ==
  LET n == IF buf.off < 0 THEN 0 ELSE Max2(0, Min2(buf.off + buf.len, end) - buf.off)
  IN [len |-> out.len + n,
      data |-> [i \in 0..(out.len + n - 1) |->
                  IF i < out.len THEN out.data[i] ELSE buf.data[i - out.len]]]

-----------------------------------------------------------------------------
Init ==
  /\ rd \in Reads
  /\ pc = "entry"
  /\ stream = [at |-> "end", cur |-> 0]
  /\ inner = [s \in 0..2 |-> NoBuf]
  /\ pos = 1 /\ pushed = FALSE /\ last = FALSE
  /\ ri = 1
  /\ out = [len |-> 0, data |-> <<>>]
  /\ failed = FALSE

RingUnchanged == UNCHANGED <<inner, pos, pushed, last, ri>>

(* read_file up to the stream: the entry, then BdtTls::open, then the        *)
(* stream, whose construction asserts its bounds.                            *)
Entry ==
  /\ pc = "entry" /\ file.kind # "file"
  /\ pc' = "err"
  /\ UNCHANGED <<rd, stream, out, failed>> /\ RingUnchanged

OpenFails ==
  /\ pc = "entry" /\ file.kind = "file"
  /\ pc' = "err" /\ failed' = TRUE
  /\ UNCHANGED <<rd, stream, out>> /\ RingUnchanged

Open ==
  /\ pc = "entry" /\ file.kind = "file"
  /\ IF EndBoundsHold
     THEN /\ pc' = IF file.encrypted THEN "pull" ELSE "plain"
          /\ stream' = StreamInit
     ELSE pc' = "panic" /\ UNCHANGED stream
  /\ UNCHANGED <<rd, out, failed>> /\ RingUnchanged

(* The stream's read: an item that is dropped, or an error of either kind.   *)
ReadSkips ==
  /\ pc \in {"plain", "pull"} /\ stream.at # "end"
  /\ ReadNone
  /\ stream' = StreamSkip
  /\ UNCHANGED <<rd, pc, out, failed>> /\ RingUnchanged

ReadTruncated ==
  /\ pc \in {"plain", "pull"} /\ stream.at # "end"
  /\ ReadShort
  /\ pc' = "err"
  /\ UNCHANGED <<rd, stream, out, failed>> /\ RingUnchanged

ReadFails ==
  /\ pc \in {"plain", "pull"} /\ stream.at # "end"
  /\ ~IsSplit /\ ReadLen > 0
  /\ pc' = "err" /\ failed' = TRUE
  /\ UNCHANGED <<rd, stream, out>> /\ RingUnchanged

(* The loop over an unencrypted file.                                        *)
PlainChunk ==
  /\ pc = "plain" /\ stream.at # "end"
  /\ ReadOk
  /\ stream' = StreamNext
  /\ out' = Delivered(DiskBuf(stream.cur, ItemLen))
  /\ UNCHANGED <<rd, pc, failed>> /\ RingUnchanged

PlainChunkRefused ==
  /\ pc = "plain" /\ stream.at # "end"
  /\ ReadOk
  /\ pc' = "err" /\ failed' = TRUE
  /\ UNCHANGED <<rd, stream, out>> /\ RingUnchanged

PlainDone ==
  /\ pc = "plain" /\ stream.at = "end"
  /\ pc' = "done"
  /\ UNCHANGED <<rd, stream, out, failed>> /\ RingUnchanged

(* The loop over an encrypted file: push the next chunk, or finish.          *)
PushChunk ==
  /\ pc = "pull" /\ stream.at # "end"
  /\ ReadOk
  /\ Push(DiskBuf(stream.cur, ItemLen))
  /\ stream' = StreamNext
  /\ pc' = IF pushed THEN "turn" ELSE "pull"
  /\ UNCHANGED <<rd, last, ri, out, failed>>

FinishRing ==
  /\ pc = "pull" /\ stream.at = "end"
  /\ Push(NoBuf)
  /\ last' = TRUE
  /\ pc' = "turn"
  /\ UNCHANGED <<rd, stream, ri, out, failed>>

(* A chunk that runs past the request keeps at most Block - 1 bytes more.     *)
Truncated(buf) ==
  LET over == buf.off + buf.len - end
      keep == IF over >= 0 THEN Min2(buf.len, Max2(0, buf.len - over) + Block - 1)
              ELSE buf.len
  IN [buf EXCEPT !.len = keep, !.data = [i \in 0..(keep - 1) |-> buf.data[i]]]

(* The chunk before the newest one: context is passed over, body decrypted.  *)
AfterTurn == IF last THEN "done" ELSE "pull"

TurnEmpty ==
  /\ pc = "turn" /\ ~curr.some
  /\ pc' = "panic"
  /\ UNCHANGED <<rd, stream, out, failed>> /\ RingUnchanged

(* Variant: the context before the request counts as body.                   *)
IsBody_HeadToo == curr.off < end

IsBody == file_offset <= curr.off /\ curr.off < end

TurnContext ==
  /\ pc = "turn" /\ curr.some /\ ~IsBody
  /\ pc' = AfterTurn
  /\ UNCHANGED <<rd, stream, out, failed>> /\ RingUnchanged

TurnBody ==
  /\ pc = "turn" /\ curr.some /\ IsBody
  /\ pc' = "decrypt"
  /\ inner' = [inner EXCEPT ![CurrPos] = Truncated(curr)]
  /\ ri' = FirstRange
  /\ UNCHANGED <<rd, stream, pos, pushed, last, out, failed>>

DecryptNext ==
  /\ pc = "decrypt" /\ ri <= file.n
  /\ file.ranges[ri].start < curr.off + curr.len
  /\ inner' = [inner EXCEPT ![CurrPos].data = DecryptRange(file.ranges[ri])]
  /\ ri' = ri + 1
  /\ UNCHANGED <<rd, pc, stream, pos, pushed, last, out, failed>>

DecryptDone ==
  /\ pc = "decrypt"
  /\ ri <= file.n => file.ranges[ri].start >= curr.off + curr.len
  /\ pc' = "deliver"
  /\ UNCHANGED <<rd, stream, out, failed>> /\ RingUnchanged

Deliver ==
  /\ pc = "deliver"
  /\ out' = Delivered(curr)
  /\ pc' = AfterTurn
  /\ UNCHANGED <<rd, stream, failed>> /\ RingUnchanged

DeliverRefused ==
  /\ pc = "deliver"
  /\ pc' = "err" /\ failed' = TRUE
  /\ UNCHANGED <<rd, stream, out>> /\ RingUnchanged

Finished == pc \in Final /\ UNCHANGED vars

Next ==
  \/ Entry \/ OpenFails \/ Open
  \/ ReadSkips \/ ReadTruncated \/ ReadFails
  \/ PlainChunk \/ PlainChunkRefused \/ PlainDone
  \/ PushChunk \/ FinishRing
  \/ TurnEmpty \/ TurnContext \/ TurnBody
  \/ DecryptNext \/ DecryptDone
  \/ Deliver \/ DeliverRefused
  \/ Finished

Spec == Init /\ [][Next]_vars

(* The executor polls a woken task and every read completes or fails.        *)
FairSpec == Spec /\ WF_vars(Next)

-----------------------------------------------------------------------------
InRange(p) == \E k \in 1..file.n : file.ranges[k].start <= p /\ p < file.ranges[k].end
Expected(p) == IF file.encrypted /\ InRange(p) THEN Plain(p) ELSE Disk(p)

(* The callback is given the requested bytes in order, each once and none    *)
(* beyond the request, whatever the chunks: read_file (mount.rs:176-215).    *)
DeliveredInOrder ==
  /\ out.len <= len
  /\ \A i \in 0..(out.len - 1) : out.data[i][2] = file_offset + i

(* Bytes outside every encrypted range reach the caller as they are stored,  *)
(* also when the chunk boundaries split cipher blocks: Aes128::decrypt       *)
(* (encryption.rs:389-450) never writes outside the range it works on.       *)
ClearBytesUntouched ==
  \A i \in 0..(out.len - 1) :
     Expected(file_offset + i)[1] = "disk" => out.data[i] = Disk(file_offset + i)

(* No chunk of the request starts inside a block: the request is aligned to  *)
(* the blocks of every range, or it is one chunk that starts before them.    *)
BlockAligned ==
  file.encrypted =>
    \A k \in 1..file.n :
       \/ (file_offset - file.ranges[k].start) % Block = 0
       \/ file_offset <= file.ranges[k].start /\ len <= BufferLen

(* The archive does not end inside the file at or before the request's end.  *)
ArchiveReaches == rd.bdt_size >= file.data_offset + Min2(file.len, end + 1)

(* A block-aligned read delivers plaintext and nothing else, across chunks,  *)
(* windows and partial last blocks (encryption.rs:369-453), when the archive *)
(* is not cut where the request needs it.                                    *)
AlignedReadIsPlaintext ==
  BlockAligned /\ ArchiveReaches =>
    \A i \in 0..(out.len - 1) : out.data[i] = Expected(file_offset + i)

(* The same for every request: a read at any offset delivers plaintext.      *)
AnyReadIsPlaintext ==
  \A i \in 0..(out.len - 1) : out.data[i] = Expected(file_offset + i)

Intact == rd.bdt_size >= file.data_offset + file.len

(* A read that ends well delivered the whole request, or the archive really  *)
(* ends where the delivery stopped: the dropped chunks (aligned.rs:198) hide *)
(* nothing that is there.                                                    *)
NothingPresentIsDropped ==
  pc = "done" => out.len = len \/ rd.bdt_size <= data_start + out.len

(* A file of a complete archive is read: with working I/O it is never        *)
(* refused, as the context windows never reach past the file                 *)
(* (aligned.rs:99-104, 147), and unless it is empty the asserts and expects  *)
(* of the path stay unreachable (aligned.rs:117-125, encryption.rs:139).     *)
IntactFileIsRead ==
  Intact =>
    /\ pc = "err" => failed \/ file.kind # "file"
    /\ pc = "panic" => file.len = 0

(* Every read ends: the loops of read_file and read_and_decrypt_file stop.   *)
ReadEnds == <>(pc \in Final)
=============================================================================
