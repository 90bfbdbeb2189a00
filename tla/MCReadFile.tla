----------------------------- MODULE MCReadFile -----------------------------
(* Small instances of ReadFile: cipher blocks of 3 bytes, windows of 3 and   *)
(* buffers of 9, so that the one-window read, the windowed stream, one to    *)
(* three body chunks and blocks cut by every boundary all happen.            *)
EXTENDS ReadFile

MCBlock == 3
MCWindow == 3
MCBufferLen == 9

R(s, e) == [start |-> s, end |-> e]

F(off, n, unpadded, enc, rs) ==
  [kind |-> "file", data_offset |-> off, len |-> n, unpadded_len |-> unpadded,
   encrypted |-> enc, n |-> Len(rs), ranges |-> rs]

Ranges == { <<R(0, 21)>>, <<R(1, 7), R(10, 22)>>, <<R(3, 6), R(6, 12)>>, <<R(18, 21)>> }

(* Files at the start of the archive, closer to it than a window, and        *)
(* further in; padded to whole blocks or not; and the entries that are not   *)
(* files.                                                                    *)
Encrypted ==
  { F(off, 22, u, TRUE, rs) : off \in {0, 5}, u \in {0, 20}, rs \in Ranges }
    \cup { F(1, n, 0, TRUE, <<>>) : n \in {0, 1, 22} }
Clear == { F(off, n, 0, FALSE, <<>>) : off \in {0, 5}, n \in {0, 3, 19} }
NotFiles == { [F(0, 0, 0, FALSE, <<>>) EXCEPT !.kind = k] : k \in {"dir", "stale"} }

Request(files, sizes, offsets, lens) ==
  { [file |-> f, bdt_size |-> b, offset |-> o, len |-> n] :
      f \in files, b \in sizes, o \in offsets, n \in lens }

(* Requests at every kind of offset, past the end included, on a complete    *)
(* archive; and archives cut where chunks and windows begin and end, or one  *)
(* byte around these points.                                                 *)
MCReads ==
  Request(Encrypted, {100}, {0, 1, 2, 3, 4, 6, 9, 11, 18, 25}, {0, 1, 2, 3, 8, 10, 18, 30})
    \cup Request(Encrypted \cup Clear, {0, 5, 9, 10, 14, 20, 21, 22, 25, 26},
                 {0, 4, 6}, {3, 30})
    \cup Request(Clear, {100}, {0, 1, 15}, {0, 2, 30})
    \cup Request(NotFiles, {100}, {0}, {2})

(* Requests of a file of one encrypted range in a complete archive.          *)
MCUnaligned ==
  Request({F(5, 22, 0, TRUE, <<R(0, 21)>>)}, {100}, 0..5, {3, 18})
=============================================================================
