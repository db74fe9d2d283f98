-------------------------------- MODULE Zrle --------------------------------
(***************************************************************************)
(* The ZRLE decoder (bolide-rfb: zrle.rs): the bytes a rect's payload      *)
(* inflates to, read tile by tile into the rect's pixels.  It reads from a *)
(* machine it does not control, so the bytes may be anything.              *)
(*                                                                         *)
(* A step is an iteration of the decoder's loops.  In RGBX_32, the format  *)
(* bolide asks for, a CPIXEL is its three bytes red, green, blue, and that *)
(* is a colour here (PixelFormats has the others).  The inflater, which is *)
(* external, has done its work.                                            *)
(***************************************************************************)
EXTENDS Integers, Sequences

CONSTANT Jobs   \* the rects to decode: their bytes, their size, that of a tile,
                \* and the pixels they were written for, which no step reads

CpixelBytes == 3
Byte == 0..255

ASSUME ZrleAssumption ==
    \A j \in Jobs : /\ j.data \in Seq(Byte)
                     /\ j.w \in Nat /\ j.h \in Nat /\ j.tile \in Nat \ {0}

VARIABLES
    job,       \* the rect
    tx, ty,    \* the tile's corner
    loop,      \* which loop of decode_tile runs, or "tile", "done", "error"
    pos,       \* bytes read
    palette,   \* the tile's palette
    px,        \* the tile's pixels so far
    out        \* the rect's pixels so far: cell -> colour

vars == <<job, tx, ty, loop, pos, palette, px, out>>

Smaller(a, b) == IF a < b THEN a ELSE b
Tw == Smaller(job.tile, job.w - tx)
Th == Smaller(job.tile, job.h - ty)
Count == Tw * Th

\* The loop that follows a tile which ended at tx and ty.
Rest(x, y) == IF y < job.h /\ x < job.w THEN "tile" ELSE "done"

Init ==
    /\ job \in Jobs
    /\ tx = 0 /\ ty = 0 /\ loop = Rest(0, 0)
    /\ pos = 0 /\ palette = <<>> /\ px = <<>> /\ out = <<>>

-----------------------------------------------------------------------------
(* The read head *)

Left == Len(job.data) - pos
Has(n) == n <= Left
At(i) == job.data[pos + i]

\* Cursor::take, of n bytes.
Takes(n) == Has(n) /\ pos' = pos + n

\* read_cpixel, i bytes further on.
Cpixel(i) == SubSeq(job.data, pos + i + 1, pos + i + CpixelBytes)
Cpixels(i, n) == [k \in 1..n |-> Cpixel(i + (k - 1) * CpixelBytes)]

\* The bytes of the run length i bytes further on: those of 255, and the first
\* that is not.  None when the stream ends before that.
LengthBytes(i) ==
    { n \in 1..Left : /\ i + n <= Left /\ At(i + n) # 255
                      /\ \A k \in 1..n - 1 : At(i + k) = 255 }

\* read_run_length: their sum plus one.
Run(i, n) == 255 * (n - 1) + At(i + n) + 1

\* packed_bits, and the index in the field of column c of a row.
PackedBits == IF Len(palette) <= 2 THEN 1 ELSE IF Len(palette) <= 4 THEN 2 ELSE 4
RowBytes == (Tw * PackedBits + 7) \div 8
Index(c) ==
    LET bit == c * PackedBits
        shift == 8 - PackedBits - (bit % 8)
    IN  (At(bit \div 8 + 1) \div 2^shift) % 2^PackedBits

Repeat(colour, n) == [i \in 1..n |-> colour]

-----------------------------------------------------------------------------
(* decode_tile *)

Fails ==
    /\ loop' = "error"
    /\ UNCHANGED <<job, tx, ty, pos, palette, px, out>>

\* Mutant: a run is cut off at the end of the tile, not refused.
PushUnchecked(colour, n) == px' = px \o Repeat(colour, n)

\* push_run refuses to overflow the tile.
Push(colour, n) ==
    Len(px) + n <= Count /\ px' = px \o Repeat(colour, n)

\* The first byte of a tile, and the palette that follows in two of its forms.
Sub == At(1)
Expects ==
    CASE Sub = 0 -> Count * CpixelBytes
      [] Sub = 1 -> CpixelBytes
      [] Sub \in 2..16 -> Sub * CpixelBytes
      [] Sub = 128 -> 0
      [] Sub \in 130..255 -> (Sub - 128) * CpixelBytes
Known == Sub \in 0..16 \cup {128} \cup 130..255

Begin ==
    /\ loop = "tile" /\ Has(1) /\ Known /\ Takes(1 + Expects)
    /\ px' = CASE Sub = 0 -> Cpixels(1, Count)
               [] Sub = 1 -> Repeat(Cpixel(1), Count)
               [] OTHER -> <<>>
    /\ palette' = CASE Sub \in 2..16 -> Cpixels(1, Sub)
                    [] Sub >= 130 -> Cpixels(1, Sub - 128)
                    [] OTHER -> <<>>
    /\ loop' = CASE Sub \in 2..16 -> "packed"
                 [] Sub = 128 -> "plain"
                 [] Sub >= 130 -> "indexed"
                 [] OTHER -> "end"
    /\ UNCHANGED <<job, tx, ty, out>>

BeginFails ==
    /\ loop = "tile"
    /\ ~(Has(1) /\ Known /\ Has(1 + Expects))
    /\ Fails

\* A row of packed indices; the next one begins with a byte of its own.
Row ==
    /\ loop = "packed" /\ Len(px) < Count
    /\ Takes(RowBytes)
    /\ \A c \in 0..Tw - 1 : Index(c) < Len(palette)
    /\ px' = px \o [c \in 1..Tw |-> palette[Index(c - 1) + 1]]
    /\ UNCHANGED <<job, tx, ty, loop, palette, out>>

RowFails ==
    /\ loop = "packed" /\ Len(px) < Count
    /\ ~(Has(RowBytes) /\ \A c \in 0..Tw - 1 : Index(c) < Len(palette))
    /\ Fails

\* A colour and the length of its run.
PlainRun ==
    /\ loop = "plain" /\ Len(px) < Count
    /\ \E n \in LengthBytes(CpixelBytes) :
          Takes(CpixelBytes + n) /\ Push(Cpixel(0), Run(CpixelBytes, n))
    /\ UNCHANGED <<job, tx, ty, loop, palette, out>>

PlainRunFails ==
    /\ loop = "plain" /\ Len(px) < Count
    /\ ~\E n \in LengthBytes(CpixelBytes) : Len(px) + Run(CpixelBytes, n) <= Count
    /\ Fails

\* An index: alone it is one pixel, with its top bit set a length follows.
Indexed == (At(1) % 128) < Len(palette)
Single == At(1) < 128

IndexedRun ==
    /\ loop = "indexed" /\ Len(px) < Count
    /\ Has(1) /\ Indexed
    /\ \/ Single /\ Takes(1) /\ Push(palette[At(1) + 1], 1)
       \/ ~Single /\ \E n \in LengthBytes(1) :
             Takes(1 + n) /\ Push(palette[(At(1) % 128) + 1], Run(1, n))
    /\ UNCHANGED <<job, tx, ty, loop, palette, out>>

IndexedRunFails ==
    /\ loop = "indexed" /\ Len(px) < Count
    /\ ~ /\ Has(1) /\ Indexed
         /\ Single \/ \E n \in LengthBytes(1) : Len(px) + Run(1, n) <= Count
    /\ Fails

-----------------------------------------------------------------------------
(* decode_tiles *)

\* The tile's pixels are copied into the rect, row by row, and the next tile is
\* to the right of it or the first of the next row of tiles.
Cell(i) == (ty + (i - 1) \div Tw) * job.w + tx + ((i - 1) % Tw)

EndTile ==
    /\ loop \in {"packed", "plain", "indexed", "end"} /\ Len(px) = Count
    /\ LET drawn == {Cell(i) : i \in 1..Count} IN
       out' = [c \in DOMAIN out \cup drawn |->
                 IF c \in drawn THEN px[CHOOSE i \in 1..Count : Cell(i) = c] ELSE out[c]]
    /\ LET right == tx + job.tile < job.w IN
       /\ tx' = (IF right THEN tx + job.tile ELSE 0)
       /\ ty' = (IF right THEN ty ELSE ty + job.tile)
    /\ loop' = Rest(tx', ty')
    /\ px' = <<>> /\ palette' = <<>>
    /\ UNCHANGED <<job, pos>>

Next ==
    \/ Begin \/ BeginFails \/ Row \/ RowFails \/ PlainRun \/ PlainRunFails
    \/ IndexedRun \/ IndexedRunFails \/ EndTile

Spec == Init /\ [][Next]_vars

-----------------------------------------------------------------------------
(* Properties *)

\* The decoder reads no byte past the end and no tile takes a pixel more than it
\* has, whatever the bytes; what it hands on as decoded is the whole rect
\* (zrle.rs:59).
StaysInside ==
    /\ pos <= Len(job.data)
    /\ loop \notin {"done", "error"} => Len(px) <= Count
    /\ loop = "done" => DOMAIN out = 0..(job.w * job.h - 1)

\* What a server wrote comes back pixel for pixel, and is read to its last byte:
\* the next rect of the stream begins where this one ended (zrle.rs:3-7).
RoundTrip ==
    job.want # <<>> =>
        /\ loop # "error"
        /\ loop = "done" => out = job.want /\ pos = Len(job.data)
=============================================================================
