---------------------------- MODULE MCFrameDecoder ----------------------------
(* FrameDecoder on every stream of three pieces out of ten, and on every     *)
(* stream of two pieces that ends in the middle of the second.               *)
EXTENDS FrameDecoder

CONSTANT Version  \* of the frames on the wire

None == [p \in {} |-> 0]
Head8(v, t, len, crc, n, seqs) ==
  [version |-> v, type |-> t, len |-> len, crc |-> crc, placements |-> n, seqs |-> seqs]

\* a piece: its bytes and claims as a wire; the batches number their records
Plain(n) == [size |-> n, first |-> {}, second |-> {}, claim |-> None, sent |-> {}]
Framed(c, sent) ==
  [size |-> FrameOverhead + c.len, first |-> {0}, second |-> {1},
   claim |-> 0 :> c, sent |-> IF sent THEN {0} ELSE {}]
\* the magic in ordinary text, or the head of a frame that was cut off
Loose(c) == [Framed(c, FALSE) EXCEPT !.size = 2]

Header(v, n) ==
  Head8(v, HeaderType, HeaderSize(v) + n * PlacementSize, TRUE, n, <<>>)
Batch(at, n) ==
  Head8(Version, BatchType, n * RecordSize, TRUE, 0, [i \in 1 .. n |-> 2 * at + i])

Pieces(at) ==
  { Plain(1),
    [Plain(1) EXCEPT !.first = {0}],
    Loose([Batch(at, 1) EXCEPT !.version = 9]),
    Loose([Batch(at, 9) EXCEPT !.crc = FALSE]),
    Framed(Header(1, 0), TRUE),
    Framed(Header(Version, 1), TRUE),
    Framed(Batch(at, 2), TRUE),
    Framed([Batch(at, 1) EXCEPT !.crc = FALSE], FALSE),
    Framed([Header(Version, 1) EXCEPT !.placements = 2], FALSE),
    [Framed(Batch(at, 5), TRUE) EXCEPT
       !.first = {0, 8}, !.second = {1, 9}, !.claim = (0 :> Batch(at, 5)) @@ (8 :> Header(1, 0))] }

Shift(S, n) == {p + n : p \in S}
Join(v, w) ==
  [size   |-> v.size + w.size,
   first  |-> v.first \cup Shift(w.first, v.size),
   second |-> v.second \cup Shift(w.second, v.size),
   claim  |-> v.claim @@ [p \in Shift(DOMAIN w.claim, v.size) |-> w.claim[p - v.size]],
   sent   |-> v.sent \cup Shift(w.sent, v.size)]
Cut(w, n) ==
  [w EXCEPT !.size = n,
            !.first = {p \in @ : p < n}, !.second = {p \in @ : p < n},
            !.sent = {p \in @ : End(w, p) <= n}]

MCWires ==
  {Join(Join(u, v), w) : u \in Pieces(0), v \in Pieces(1), w \in Pieces(2)}
    \cup UNION {{Cut(Join(v, w), n) : n \in v.size .. v.size + w.size - 1} :
                  v \in Pieces(0), w \in Pieces(1)}
===============================================================================
