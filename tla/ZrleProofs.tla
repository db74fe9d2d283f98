----------------------------- MODULE ZrleProofs -----------------------------
(***************************************************************************)
(* The ZRLE decoder stays inside its bytes and its rect, for any bytes,    *)
(* any size of the rect and of its tiles.                                  *)
(*                                                                         *)
(* The invariant is where the decoder stands: the corner of a tile inside  *)
(* the rect, so many pixels of that tile, and behind it every cell of the  *)
(* rows of tiles above and of the tiles to the left.  What is hard is in   *)
(* the arithmetic between a cell's number and its row and column, which    *)
(* the lemmas settle first.                                                *)
(***************************************************************************)
EXTENDS Zrle, TLAPS

-----------------------------------------------------------------------------
(* Rows and columns *)

LEMMA Divides ==
    ASSUME NEW n \in Nat, NEW w \in Nat \ {0}
    PROVE  /\ n \div w \in Nat /\ n % w \in 0 .. w - 1
           /\ n = (n \div w) * w + (n % w)
  OBVIOUS

\* A row's cells lie before those of every later row.
LEMMA RowsBelow ==
    ASSUME NEW a \in Int, NEW b \in Int, a < b, NEW w \in Nat
    PROVE  a * w + w <= b * w
  <1>1. b - a - 1 \in Nat
    OBVIOUS
  <1>2. (b - a - 1) * w >= 0
    BY <1>1
  <1>3. (b - a - 1) * w = b * w - a * w - w
    OBVIOUS
  <1> QED
    BY <1>2, <1>3

\* A cell has one row and one column.
LEMMA OneRow ==
    ASSUME NEW w \in Nat \ {0}, NEW a \in Int, NEW b \in 0 .. w - 1,
           NEW c \in Int, NEW d \in 0 .. w - 1, a * w + b = c * w + d
    PROVE  a = c /\ b = d
  <1>1. ~(a < c)
    <2> SUFFICES ASSUME a < c PROVE FALSE
      OBVIOUS
    <2>1. a * w + w <= c * w
      BY RowsBelow
    <2> QED
      BY <2>1
  <1>2. ~(c < a)
    <2> SUFFICES ASSUME c < a PROVE FALSE
      OBVIOUS
    <2>1. c * w + w <= a * w
      BY RowsBelow
    <2> QED
      BY <2>1
  <1> QED
    BY <1>1, <1>2

LEMMA DividesOnce ==
    ASSUME NEW w \in Nat \ {0}, NEW a \in Nat, NEW b \in 0 .. w - 1
    PROVE  a * w + b \in Nat /\ (a * w + b) \div w = a /\ (a * w + b) % w = b
  <1>1. a * w + b \in Nat
    OBVIOUS
  <1>2. /\ (a * w + b) \div w \in Nat /\ (a * w + b) % w \in 0 .. w - 1
        /\ a * w + b = ((a * w + b) \div w) * w + ((a * w + b) % w)
    BY <1>1, Divides
  <1>3. \A c \in Int, d \in 0 .. w - 1 : a * w + b = c * w + d => a = c /\ b = d
    BY OneRow
  <1> QED
    BY <1>1, <1>2, <1>3

\* Of h rows of w cells, the rows are those below h.
LEMMA RowOf ==
    ASSUME NEW w \in Nat, NEW h \in Nat, NEW c \in 0 .. w * h - 1
    PROVE  w # 0 /\ c \div w \in 0 .. h - 1 /\ c % w \in 0 .. w - 1
  <1>1. w # 0
    OBVIOUS
  <1>2. c \in Nat /\ w * h = h * w
    OBVIOUS
  <1>3. /\ c \div w \in Nat /\ c % w \in 0 .. w - 1
        /\ c = (c \div w) * w + (c % w)
    BY <1>1, <1>2, Divides
  <1>4. ~(c \div w >= h)
    <2> SUFFICES ASSUME c \div w >= h PROVE FALSE
      OBVIOUS
    <2>1. (c \div w) * w >= h * w
      <3>1. CASE c \div w = h
        BY <3>1
      <3>2. CASE h < c \div w
        <4>1. h * w + w <= (c \div w) * w
          BY <3>2, <1>3, RowsBelow
        <4> QED
          BY <4>1
      <3> QED
        BY <3>1, <3>2, <1>3
    <2> QED
      BY <2>1, <1>2, <1>3
  <1> QED
    BY <1>1, <1>3, <1>4

LEMMA CellOf ==
    ASSUME NEW w \in Nat, NEW h \in Nat, NEW r \in 0 .. h - 1, NEW k \in 0 .. w - 1
    PROVE  /\ r * w + k \in 0 .. w * h - 1
           /\ (r * w + k) \div w = r /\ (r * w + k) % w = k
  <1>1. r * w + w <= h * w /\ h * w = w * h
    BY RowsBelow
  <1>2. r * w + k \in Nat /\ (r * w + k) \div w = r /\ (r * w + k) % w = k
    BY DividesOnce
  <1> QED
    BY <1>1, <1>2

-----------------------------------------------------------------------------
(* Where the decoder stands *)

Active == loop \notin {"done", "error"}

\* A sequence, of whatever it holds.
Listed(s) == \E S : s \in Seq(S)

Shapes ==
    /\ job \in Jobs /\ tx \in Nat /\ ty \in Nat /\ pos \in Nat
    /\ loop \in {"tile", "packed", "plain", "indexed", "end", "done", "error"}
    /\ Listed(palette) /\ Listed(px)

\* The tile's corner is inside the rect until no tile is left.
Placed ==
    /\ Active => tx < job.w /\ ty < job.h
    /\ loop = "done" => tx = 0 /\ (ty >= job.h \/ job.w = 0)

\* So much of the tile is there: nothing before its first byte, whole rows of
\* packed indices, and never more than it has.
Filled ==
    /\ Active => Len(px) <= Count
    /\ loop = "tile" => px = <<>>
    /\ loop = "packed" => \E rows \in 0 .. Th : Len(px) = rows * Tw

\* The cells decoded: the rows of tiles above, and the tiles to the left.
Behind(c) ==
    \/ c \div job.w < ty
    \/ c \div job.w < ty + job.tile /\ c % job.w < tx
Cells == 0 .. job.w * job.h - 1
Drawn == {c \in Cells : Behind(c)}

DecoderInv ==
    /\ Shapes /\ pos <= Len(job.data)
    /\ Placed /\ Filled
    /\ DOMAIN out = Drawn

LEMMA Counted ==
    ASSUME NEW n \in Nat, NEW f, f = [i \in 1 .. n |-> f[i]]
    PROVE  Listed(f) /\ Len(f) = n
  <1>1. DOMAIN f = 1 .. n
    OBVIOUS
  <1>2. f \in [1 .. n -> {f[i] : i \in DOMAIN f}]
    BY <1>1
  <1>3. f \in Seq({f[i] : i \in DOMAIN f}) /\ Len(f) = n
    BY <1>1, <1>2
  <1> QED
    BY <1>3 DEF Listed

LEMMA Appended ==
    ASSUME NEW s, NEW t, Listed(s), Listed(t)
    PROVE  /\ Listed(s \o t) /\ Len(s) \in Nat /\ Len(t) \in Nat
           /\ Len(s \o t) = Len(s) + Len(t)
  <1>1. PICK S, T : s \in Seq(S) /\ t \in Seq(T)
    BY DEF Listed
  <1>2. s \in Seq(S \cup T) /\ t \in Seq(S \cup T)
    BY <1>1
  <1>3. /\ s \o t \in Seq(S \cup T) /\ Len(s) \in Nat /\ Len(t) \in Nat
        /\ Len(s \o t) = Len(s) + Len(t)
    BY <1>2
  <1> QED
    BY <1>3 DEF Listed

LEMMA NothingListed == Listed(<<>>) /\ Len(<<>>) = 0
  BY DEF Listed

LEMMA Sizes ==
    ASSUME Shapes
    PROVE  /\ job.w \in Nat /\ job.h \in Nat /\ job.tile \in Nat \ {0}
           /\ job.data \in Seq(Byte) /\ Len(job.data) \in Nat
  BY ZrleAssumption DEF Shapes

LEMMA TileSizes ==
    ASSUME Shapes, tx < job.w, ty < job.h
    PROVE  /\ Tw \in 1 .. job.tile /\ tx + Tw <= job.w
           /\ Th \in 1 .. job.tile /\ ty + Th <= job.h
           /\ Count \in Nat
  <1>1. /\ Tw \in 1 .. job.tile /\ tx + Tw <= job.w
        /\ Th \in 1 .. job.tile /\ ty + Th <= job.h
    <2>1. tx \in Nat /\ ty \in Nat
      BY DEF Shapes
    <2>2. \A a \in Nat \ {0}, b \in Nat \ {0} :
            Smaller(a, b) \in 1 .. a /\ Smaller(a, b) <= b
      BY DEF Smaller
    <2>3. job.w - tx \in Nat \ {0} /\ job.h - ty \in Nat \ {0} /\ job.tile \in Nat \ {0}
      BY <2>1, Sizes
    <2>4. /\ Tw \in 1 .. job.tile /\ Tw <= job.w - tx
          /\ Th \in 1 .. job.tile /\ Th <= job.h - ty
      BY <2>2, <2>3 DEF Tw, Th
    <2> QED
      BY <2>1, <2>4, Sizes
  <1> QED
    BY <1>1, Sizes DEF Count

LEMMA CountSound == Shapes /\ tx < job.w /\ ty < job.h => Count \in Nat
  BY TileSizes

\* The byte under the read head, and those that follow it.
LEMMA BytesAhead ==
    ASSUME Shapes, NEW i \in Nat \ {0}, Has(i)
    PROVE  At(i) \in 0 .. 255
  <1>1. pos + i \in 1 .. Len(job.data)
    BY Sizes DEF Shapes, Has, Left
  <1>2. job.data[pos + i] \in Byte
    <2> DEFINE data == job.data
    <2>1. data \in Seq(Byte) /\ pos + i \in 1 .. Len(data)
      BY <1>1, Sizes
    <2> HIDE DEF data
    <2>2. data[pos + i] \in Byte
      BY <2>1
    <2> QED
      BY <2>2 DEF data
  <1> QED
    BY <1>2 DEF At, Byte

\* A run takes at least a byte and is at least a pixel long.
LEMMA RunsSound ==
    ASSUME Shapes, NEW i \in Nat, NEW n \in LengthBytes(i)
    PROVE  n \in Nat \ {0} /\ Has(i + n) /\ Run(i, n) \in Nat \ {0}
  <1>1. n \in Nat \ {0} /\ Has(i + n)
    BY Sizes DEF Shapes, LengthBytes, Has, Left
  <1>2. i + n \in Nat \ {0}
    BY <1>1
  <1>3. At(i + n) \in 0 .. 255
    BY <1>1, <1>2, BytesAhead
  <1>4. 255 * (n - 1) + At(i + n) + 1 \in Nat \ {0}
    BY <1>1, <1>3
  <1> QED
    BY <1>1, <1>4 DEF Run

LEMMA RowBytesSound ==
    ASSUME Shapes, tx < job.w, ty < job.h
    PROVE  RowBytes \in Nat
  <1>1. PackedBits \in {1, 2, 4}
    BY DEF PackedBits
  <1>2. Tw \in Nat
    BY TileSizes, Sizes
  <1> QED
    BY <1>1, <1>2 DEF RowBytes

LEMMA Repeated ==
    ASSUME NEW colour, NEW n \in Nat
    PROVE  Listed(Repeat(colour, n)) /\ Len(Repeat(colour, n)) = n
  BY Counted DEF Repeat

LEMMA CpixelsListed ==
    ASSUME NEW i, NEW n \in Nat
    PROVE  Listed(Cpixels(i, n)) /\ Len(Cpixels(i, n)) = n
  BY Counted DEF Cpixels

-----------------------------------------------------------------------------
(* A tile's cells *)

LEMMA CellsPlace ==
    ASSUME Shapes, NEW c \in Cells
    PROVE  /\ job.w # 0
           /\ c \div job.w \in 0 .. job.h - 1 /\ c % job.w \in 0 .. job.w - 1
  <1>1. job.w \in Nat /\ job.h \in Nat /\ c \in 0 .. job.w * job.h - 1
    BY Sizes DEF Cells
  <1> QED
    BY <1>1, RowOf

LEMMA TileCells ==
    ASSUME Shapes, tx < job.w, ty < job.h
    PROVE  {Cell(i) : i \in 1 .. Count} =
             {c \in Cells : /\ c \div job.w \in ty .. ty + Th - 1
                            /\ c % job.w \in tx .. tx + Tw - 1}
  <1> DEFINE W == job.w
             H == job.h
             tw == Tw
             th == Th
             Mine(c) == c \div W \in ty .. ty + th - 1 /\ c % W \in tx .. tx + tw - 1
  <1>1. /\ W \in Nat /\ H \in Nat /\ tw \in Nat \ {0} /\ th \in Nat \ {0}
        /\ tx \in Nat /\ ty \in Nat /\ tx + tw <= W /\ ty + th <= H
        /\ Cells = 0 .. W * H - 1 /\ Count = tw * th
        /\ \A i : Cell(i) = (ty + (i - 1) \div tw) * W + tx + ((i - 1) % tw)
    BY Sizes, TileSizes DEF Shapes, Cells, Count, Cell
  <1>2. SUFFICES {Cell(i) : i \in 1 .. Count} = {c \in Cells : Mine(c)}
    OBVIOUS
  <1> HIDE DEF W, H, tw, th
  <1>3. ASSUME NEW i \in 1 .. Count
        PROVE  Cell(i) \in Cells /\ Mine(Cell(i))
    <2> DEFINE r == ty + (i - 1) \div tw
               k == tx + ((i - 1) % tw)
    <2>1. i - 1 \in 0 .. tw * th - 1
      BY <1>1
    <2>2. (i - 1) \div tw \in 0 .. th - 1 /\ (i - 1) % tw \in 0 .. tw - 1
      BY <1>1, <2>1, RowOf
    <2>3. r \in 0 .. H - 1 /\ k \in 0 .. W - 1 /\ r \in ty .. ty + th - 1 /\ k \in tx .. tx + tw - 1
      BY <1>1, <2>2
    <2>4. Cell(i) = r * W + k
      <3>1. Cell(i) = (ty + (i - 1) \div tw) * W + tx + ((i - 1) % tw)
        BY <1>1
      <3>2. r \in Int /\ k \in Int /\ r * W \in Int
        BY <1>1, <2>2
      <3>3. (i - 1) % tw \in Int
        BY <2>2
      <3>4. \A z \in Int : z + tx + ((i - 1) % tw) = z + (tx + ((i - 1) % tw))
        BY <1>1, <3>3
      <3> QED
        BY <3>1, <3>2, <3>4
    <2> HIDE DEF r, k
    <2>5. /\ r * W + k \in 0 .. W * H - 1
          /\ (r * W + k) \div W = r /\ (r * W + k) % W = k
      BY <1>1, <2>3, CellOf
    <2> QED
      BY <1>1, <2>3, <2>4, <2>5
  <1>4. ASSUME NEW c \in Cells, Mine(c)
        PROVE  \E i \in 1 .. Count : Cell(i) = c
    <2> DEFINE a == c \div W - ty
               b == (c % W) - tx
               i == a * tw + b + 1
    <2>1. /\ W # 0 /\ c \in Nat
          /\ c \div W \in Nat /\ c % W \in Nat /\ c = (c \div W) * W + (c % W)
      <3>1. c \in 0 .. W * H - 1
        BY <1>1
      <3>2. W \in Nat \ {0} /\ c \in Nat
        BY <1>1, <3>1
      <3>3. /\ c \div W \in Nat /\ c % W \in 0 .. W - 1
            /\ c = (c \div W) * W + (c % W)
        BY <3>2, Divides
      <3> QED
        BY <3>2, <3>3
    <2>2. a \in 0 .. th - 1 /\ b \in 0 .. tw - 1
      BY <1>1, <1>4, <2>1
    <2>3. ty + a = c \div W /\ tx + b = c % W
      BY <1>1, <2>1
    <2> HIDE DEF a, b
    <2>4. /\ a * tw + b \in 0 .. tw * th - 1
          /\ (a * tw + b) \div tw = a /\ (a * tw + b) % tw = b
      BY <1>1, <2>2, CellOf
    <2>5. i \in 1 .. Count /\ i - 1 = a * tw + b
      BY <1>1, <2>2, <2>4
    <2>6. Cell(i) = (ty + a) * W + tx + b
      BY <1>1, <2>4, <2>5
    <2>7. Cell(i) = (c \div W) * W + tx + b
      BY <2>3, <2>6
    <2>8. (c \div W) * W \in Int /\ tx \in Int /\ b \in Int
      BY <1>1, <2>1, <2>2
    <2>9. Cell(i) = c
      BY <2>1, <2>3, <2>7, <2>8
    <2> QED
      BY <2>5, <2>9
  <1> QED
    BY <1>3, <1>4

-----------------------------------------------------------------------------
(* The steps *)

LEMMA DecoderStarts == Init => DecoderInv
  <1> SUFFICES ASSUME Init PROVE DecoderInv
    OBVIOUS
  <1>1. Shapes
    BY NothingListed DEF Init, Shapes, Rest
  <1>2. pos <= Len(job.data)
    BY <1>1, Sizes DEF Init
  <1>3. Placed
    BY <1>1, Sizes DEF Init, Placed, Active, Rest
  <1>4. Filled
    <2>1. CASE loop = "tile"
      <3>1. Count \in Nat /\ Len(px) = 0
        BY <1>1, <1>3, <2>1, TileSizes, NothingListed DEF Init, Placed, Active
      <3> QED
        BY <2>1, <3>1 DEF Init, Filled
    <2>2. CASE loop = "done"
      BY <2>2 DEF Filled, Active
    <2> QED
      BY <2>1, <2>2 DEF Init, Rest
  <1>5. DOMAIN out = Drawn
    <2>1. \A c \in Cells : ~Behind(c)
      <3> SUFFICES ASSUME NEW c \in Cells PROVE ~Behind(c)
        OBVIOUS
      <3>1. c \div job.w \in Nat /\ c % job.w \in Nat
        BY <1>1, Sizes, CellsPlace
      <3> QED
        BY <3>1 DEF Behind, Init
    <2> QED
      BY <2>1 DEF Drawn, Init
  <1> QED
    BY <1>1, <1>2, <1>3, <1>4, <1>5 DEF DecoderInv

\* A step inside a tile: the rect and the corner stay, and what is decoded.
Inside ==
    /\ Active /\ job' = job /\ tx' = tx /\ ty' = ty /\ out' = out

LEMMA InsideStays ==
    ASSUME DecoderInv, Inside, loop' # "done", Shapes', (pos <= Len(job.data))', Filled'
    PROVE  DecoderInv'
  <1>1. Placed'
    BY DEF DecoderInv, Placed, Inside, Active
  <1>2. (DOMAIN out = Drawn)'
    BY DEF DecoderInv, Inside, Drawn, Cells, Behind
  <1> QED
    BY <1>1, <1>2 DEF DecoderInv

LEMMA TilesStay ==
    ASSUME job' = job, tx' = tx, ty' = ty
    PROVE  Tw' = Tw /\ Th' = Th /\ Count' = Count
  BY DEF Tw, Th, Count

\* The read head moves by what there is.
LEMMA TakesSound ==
    ASSUME Shapes, NEW n \in Nat, Takes(n), job' = job
    PROVE  pos' \in Nat /\ (pos <= Len(job.data))'
  BY Sizes DEF Shapes, Takes, Has, Left

LEMMA FailsStays ==
    ASSUME DecoderInv, Active, Fails
    PROVE  DecoderInv'
  <1>1. Shapes' /\ Inside /\ (pos <= Len(job.data))'
    BY DEF Fails, DecoderInv, Shapes, Inside
  <1>2. Filled'
    BY DEF Fails, Filled, Active
  <1> QED
    BY <1>1, <1>2, InsideStays DEF Fails

LEMMA BeginStays ==
    ASSUME DecoderInv, Begin
    PROVE  DecoderInv'
  <1>1. /\ Shapes /\ tx < job.w /\ ty < job.h /\ Inside
        /\ Tw' = Tw /\ Th' = Th /\ Count' = Count
    BY TilesStay DEF Begin, DecoderInv, Placed, Active, Inside
  <1>2. Tw \in Nat \ {0} /\ Th \in Nat \ {0} /\ Count \in Nat
    BY <1>1, TileSizes, Sizes
  <1>3. Sub \in 0 .. 16 \cup {128} \cup 130 .. 255
    BY DEF Begin, Known
  <1> DEFINE High == Sub \notin 0 .. 16 /\ Sub \notin 2 .. 16 /\ Sub \notin {0, 1, 128} /\ Sub >= 130
  <1>0. Sub \in 130 .. 255 => High
    OBVIOUS
  <1>4. Expects \in Nat
    <2>1. Count * CpixelBytes \in Nat /\ CpixelBytes = 3
      BY <1>2 DEF CpixelBytes
    <2>2. CASE Sub = 0
      BY <2>1, <2>2 DEF Expects
    <2>3. CASE Sub = 1 \/ Sub \in 2 .. 16
      BY <2>1, <2>3 DEF Expects
    <2>4. CASE Sub = 128
      BY <2>4 DEF Expects
    <2>5. CASE Sub \in 130 .. 255
      BY <2>1, <2>5 DEF Expects
    <2> QED
      BY <1>3, <2>2, <2>3, <2>4, <2>5
  <1>5. pos' \in Nat /\ (pos <= Len(job.data))'
    BY <1>1, <1>4, TakesSound DEF Begin, Inside
  <1>6. Listed(palette')
    <2>1. CASE Sub \in {0, 1, 128}
      BY <2>1, NothingListed DEF Begin
    <2>2. CASE Sub \in 2 .. 16
      <3>1. palette' = Cpixels(1, Sub)
        BY <2>2 DEF Begin
      <3> QED
        BY <2>2, <3>1, CpixelsListed
    <2>3. CASE Sub \in 130 .. 255
      <3>1. palette' = Cpixels(1, Sub - 128)
        BY <2>3, <1>0 DEF Begin
      <3>2. Sub - 128 \in Nat
        BY <2>3
      <3> QED
        BY <3>1, <3>2, CpixelsListed
    <2> QED
      BY <1>3, <2>1, <2>2, <2>3
  <1>7. \/ loop' \in {"packed", "plain", "indexed"} /\ px' = <<>>
        \/ loop' = "end" /\ Listed(px') /\ Len(px') = Count
    <2>1. CASE Sub = 0
      BY <1>2, <2>1, CpixelsListed DEF Begin
    <2>2. CASE Sub = 1
      BY <1>2, <2>2, Repeated DEF Begin
    <2>3. CASE Sub \in 2 .. 16
      <3>1. px' = <<>> /\ loop' = "packed"
        BY <2>3 DEF Begin
      <3> QED
        BY <3>1
    <2>4. CASE Sub = 128
      BY <2>4 DEF Begin
    <2>5. CASE Sub \in 130 .. 255
      <3>1. px' = <<>> /\ loop' = "indexed"
        BY <2>5, <1>0 DEF Begin
      <3> QED
        BY <3>1
    <2> QED
      BY <1>3, <2>1, <2>2, <2>3, <2>4, <2>5
  <1>8. Listed(px') /\ Len(px') <= Count
    BY <1>2, <1>7, NothingListed
  <1>9. Shapes'
    BY <1>1, <1>5, <1>6, <1>7, <1>8 DEF Shapes, Inside
  <1>10. Filled'
    <2>1. 0 \in 0 .. Th /\ Len(<<>>) = 0 * Tw
      BY <1>2
    <2>2. Len(px') <= Count' /\ loop' # "tile"
      BY <1>1, <1>7, <1>8
    <2>3. loop' = "packed" => \E rows \in 0 .. Th' : Len(px') = rows * Tw'
      BY <1>1, <1>7, <2>1
    <2> QED
      BY <2>2, <2>3 DEF Filled
  <1>11. loop' # "done"
    BY <1>7
  <1> QED
    BY <1>1, <1>5, <1>9, <1>10, <1>11, InsideStays

LEMMA RowStays ==
    ASSUME DecoderInv, Row
    PROVE  DecoderInv'
  <1>1. /\ Shapes /\ tx < job.w /\ ty < job.h /\ Inside
        /\ Tw' = Tw /\ Th' = Th /\ Count' = Count /\ loop = "packed" /\ loop' = "packed"
    BY TilesStay DEF Row, DecoderInv, Placed, Active, Inside
  <1>2. Tw \in Nat \ {0} /\ Th \in Nat \ {0} /\ Count = Tw * Th
    BY <1>1, TileSizes, Sizes DEF Count
  <1>3. pos' \in Nat /\ (pos <= Len(job.data))'
    BY <1>1, RowBytesSound, TakesSound DEF Row, Inside
  <1> DEFINE row == [c \in 1 .. Tw |-> palette[Index(c - 1) + 1]]
  <1>4. Listed(row) /\ Len(row) = Tw
    <2>1. row = [c \in 1 .. Tw |-> row[c]]
      OBVIOUS
    <2> HIDE DEF row
    <2> QED
      BY <1>2, <2>1, Counted
  <1>5. px' = px \o row
    BY DEF Row
  <1> HIDE DEF row
  <1>6. Listed(px') /\ Len(px') = Len(px) + Tw
    BY <1>1, <1>4, <1>5, Appended DEF Shapes
  <1>7. PICK rows \in 0 .. Th : Len(px) = rows * Tw
    BY <1>1 DEF DecoderInv, Filled
  <1>8. rows < Th
    <2>1. rows * Tw < Tw * Th
      BY <1>2, <1>7 DEF Row
    <2>2. rows = Th => rows * Tw = Tw * Th
      BY <1>2
    <2> QED
      BY <1>2, <2>1, <2>2
  <1>9. rows + 1 \in 0 .. Th /\ Len(px') = (rows + 1) * Tw /\ Len(px') <= Count
    <2>1. (rows + 1) * Tw = rows * Tw + Tw /\ rows * Tw + Tw <= Th * Tw /\ Th * Tw = Count
      BY <1>2, <1>8, RowsBelow
    <2> QED
      BY <1>2, <1>6, <1>7, <1>8, <2>1
  <1>10. Filled'
    BY <1>1, <1>9 DEF Filled
  <1>11. Shapes'
    BY <1>1, <1>3, <1>6 DEF Shapes, Inside, Row
  <1> QED
    BY <1>1, <1>3, <1>10, <1>11, InsideStays

\* A run of n pixels that ends inside the tile.
LEMMA PushStays ==
    ASSUME DecoderInv, loop \in {"plain", "indexed"},
           UNCHANGED <<job, tx, ty, loop, palette, out>>,
           NEW taken \in Nat, Takes(taken), NEW colour, NEW n \in Nat, Push(colour, n)
    PROVE  DecoderInv'
  <1>1. Shapes /\ Inside /\ Count' = Count /\ loop' = loop
    BY TilesStay DEF DecoderInv, Active, Inside
  <1>2. pos' \in Nat /\ (pos <= Len(job.data))'
    BY <1>1, TakesSound
  <1>3. Listed(px') /\ Len(px') = Len(px) + n
    <2>1. Listed(px) /\ px' = px \o Repeat(colour, n)
      BY <1>1 DEF Push, Shapes
    <2>2. Listed(Repeat(colour, n)) /\ Len(Repeat(colour, n)) = n
      BY Repeated
    <2>3. Listed(px \o Repeat(colour, n)) /\ Len(px \o Repeat(colour, n)) = Len(px) + Len(Repeat(colour, n))
      BY <2>1, <2>2, Appended
    <2> QED
      BY <2>1, <2>2, <2>3
  <1>4. Filled'
    BY <1>1, <1>3 DEF Push, Filled
  <1>5. Shapes'
    BY <1>1, <1>2, <1>3 DEF Shapes
  <1> QED
    BY <1>1, <1>2, <1>4, <1>5, InsideStays

LEMMA RunsStay ==
    ASSUME DecoderInv, PlainRun \/ IndexedRun
    PROVE  DecoderInv'
  <1>1. Shapes
    BY DEF DecoderInv
  <1>2. CASE PlainRun
    <2>1. PICK n \in LengthBytes(CpixelBytes) :
             Takes(CpixelBytes + n) /\ Push(Cpixel(0), Run(CpixelBytes, n))
      BY <1>2 DEF PlainRun
    <2>2. CpixelBytes \in Nat
      BY DEF CpixelBytes
    <2>3. CpixelBytes + n \in Nat /\ Run(CpixelBytes, n) \in Nat
      BY <1>1, <2>2, RunsSound
    <2>4. loop = "plain" /\ UNCHANGED <<job, tx, ty, loop, palette, out>>
      BY <1>2 DEF PlainRun
    <2> QED
      BY <2>1, <2>3, <2>4, PushStays
  <1>3. CASE IndexedRun
    <2>1. loop = "indexed" /\ UNCHANGED <<job, tx, ty, loop, palette, out>>
      BY <1>3 DEF IndexedRun
    <2>2. CASE Single /\ Takes(1) /\ Push(palette[At(1) + 1], 1)
      BY <2>1, <2>2, PushStays
    <2>3. CASE \E n \in LengthBytes(1) :
                 Takes(1 + n) /\ Push(palette[(At(1) % 128) + 1], Run(1, n))
      <3>1. PICK n \in LengthBytes(1) :
              Takes(1 + n) /\ Push(palette[(At(1) % 128) + 1], Run(1, n))
        BY <2>3
      <3>2. 1 + n \in Nat /\ Run(1, n) \in Nat
        BY <1>1, RunsSound
      <3> QED
        BY <2>1, <3>1, <3>2, PushStays
    <2> QED
      BY <1>3, <2>2, <2>3 DEF IndexedRun
  <1> QED
    BY <1>2, <1>3

\* The rect beside the tile, or below it: what was behind it and its own cells
\* are behind the next.
LEMMA EndTileStays ==
    ASSUME DecoderInv, EndTile
    PROVE  DecoderInv'
  <1>1. Shapes /\ Placed /\ tx < job.w /\ ty < job.h /\ job' = job
    BY DEF EndTile, DecoderInv, Placed, Active
  <1>2. /\ job.w \in Nat /\ job.h \in Nat /\ job.tile \in Nat \ {0} /\ tx \in Nat /\ ty \in Nat
        /\ Tw \in 1 .. job.tile /\ tx + Tw <= job.w
        /\ Th \in 1 .. job.tile /\ ty + Th <= job.h
    BY <1>1, TileSizes, Sizes DEF Shapes
  <1>3. \/ tx + job.tile < job.w /\ tx' = tx + job.tile /\ ty' = ty
        \/ tx + job.tile >= job.w /\ tx' = 0 /\ ty' = ty + job.tile
    BY <1>2 DEF EndTile
  <1>4. tx' \in Nat /\ ty' \in Nat /\ tx' < job.w
    BY <1>1, <1>2, <1>3
  <1>5. loop' = (IF ty' < job.h THEN "tile" ELSE "done")
    BY <1>1, <1>4 DEF EndTile, Rest
  <1>6. Shapes'
    BY <1>1, <1>4, <1>5, NothingListed DEF Shapes, EndTile
  <1>7. (pos <= Len(job.data))'
    BY DEF EndTile, DecoderInv
  <1>8. Placed'
    BY <1>1, <1>2, <1>3, <1>4, <1>5 DEF Placed, Active
  <1>9. Filled'
    <2>1. px' = <<>>
      BY DEF EndTile
    <2>2. CASE loop' = "tile"
      <3>1. Count' \in Nat
        <4>1. (tx < job.w)' /\ (ty < job.h)'
          BY <2>2, <1>8 DEF Placed, Active
        <4>2. (Shapes /\ tx < job.w /\ ty < job.h)' => (Count \in Nat)'
          BY CountSound, PTL
        <4> QED
          BY <1>6, <4>1, <4>2
      <3> QED
        BY <2>1, <2>2, <3>1, NothingListed DEF Filled
    <2>3. CASE loop' = "done"
      BY <2>3 DEF Filled, Active
    <2> QED
      BY <1>5, <2>2, <2>3
  <1>10. (DOMAIN out = Drawn)'
    <2> DEFINE Mine(c) == /\ c \div job.w \in ty .. ty + Th - 1
                          /\ c % job.w \in tx .. tx + Tw - 1
    <2>1. DOMAIN out' = Drawn \cup {c \in Cells : Mine(c)}
      BY <1>1, TileCells DEF EndTile, DecoderInv
    <2>2. Cells' = Cells
      BY <1>1 DEF Cells
    <2>3. \A c \in Cells : Behind(c)' <=> Behind(c) \/ Mine(c)
      <3> SUFFICES ASSUME NEW c \in Cells PROVE Behind(c)' <=> Behind(c) \/ Mine(c)
        OBVIOUS
      <3>1. c \div job.w \in 0 .. job.h - 1 /\ c % job.w \in 0 .. job.w - 1
        BY <1>1, CellsPlace
      <3>2. /\ Tw = (IF job.tile < job.w - tx THEN job.tile ELSE job.w - tx)
            /\ Th = (IF job.tile < job.h - ty THEN job.tile ELSE job.h - ty)
        BY DEF Tw, Th, Smaller
      <3>3. Behind(c)' <=> \/ c \div job.w < ty'
                           \/ c \div job.w < ty' + job.tile /\ c % job.w < tx'
        BY <1>1 DEF Behind
      <3> DEFINE r == c \div job.w
                 k == c % job.w
      <3> HIDE DEF r, k
      <3>4. Behind(c)' <=> r < ty' \/ (r < ty' + job.tile /\ k < tx')
        BY <3>3 DEF r, k
      <3>5. Behind(c) <=> r < ty \/ (r < ty + job.tile /\ k < tx)
        BY DEF r, k, Behind
      <3>6. Mine(c) <=> r \in ty .. ty + Th - 1 /\ k \in tx .. tx + Tw - 1
        BY DEF r, k
      <3>7. r \in 0 .. job.h - 1 /\ k \in 0 .. job.w - 1
        BY <3>1 DEF r, k
      <3> HIDE DEF Mine
      <3> QED
        BY <1>2, <1>3, <3>2, <3>4, <3>5, <3>6, <3>7
    <2> HIDE DEF Mine
    <2> QED
      BY <2>1, <2>2, <2>3 DEF Drawn
  <1> QED
    BY <1>6, <1>7, <1>8, <1>9, <1>10 DEF DecoderInv

LEMMA DecoderStays ==
    ASSUME DecoderInv, [Next]_vars
    PROVE  DecoderInv'
  <1>1. CASE Begin
    BY <1>1, BeginStays
  <1>2. CASE Row
    BY <1>2, RowStays
  <1>3. CASE PlainRun \/ IndexedRun
    BY <1>3, RunsStay
  <1>4. CASE BeginFails \/ RowFails \/ PlainRunFails \/ IndexedRunFails
    <2>1. Active /\ Fails
      BY <1>4 DEF BeginFails, RowFails, PlainRunFails, IndexedRunFails, Active
    <2> QED
      BY <2>1, FailsStays
  <1>5. CASE EndTile
    BY <1>5, EndTileStays
  <1>6. CASE UNCHANGED vars
    <2>1. /\ job' = job /\ tx' = tx /\ ty' = ty /\ loop' = loop /\ pos' = pos
          /\ palette' = palette /\ px' = px /\ out' = out
      BY <1>6 DEF vars
    <2>2. Shapes' /\ Placed' /\ (pos <= Len(job.data))' /\ (DOMAIN out = Drawn)'
      BY <2>1 DEF DecoderInv, Shapes, Placed, Active, Drawn, Cells, Behind
    <2>3. Filled'
      BY <2>1, TilesStay DEF DecoderInv, Filled, Active
    <2> QED
      BY <2>2, <2>3 DEF DecoderInv
  <1> QED
    BY <1>1, <1>2, <1>3, <1>4, <1>5, <1>6 DEF Next

-----------------------------------------------------------------------------
(* What the decoder keeps to *)

\* The decoder is where its invariant says, whatever the bytes.
THEOREM DecoderHolds == Spec => []DecoderInv
  BY DecoderStarts, DecoderStays, PTL DEF Spec

\* Zrle's StaysInside, for any bytes, any rect and any size of its tiles: no byte
\* is read past the end, no tile takes a pixel more than it has, and a rect that
\* is handed on as decoded has all its pixels and no other.
THEOREM DecoderStaysInside == Spec => []StaysInside
  <1>1. DecoderInv => StaysInside
    <2> SUFFICES ASSUME DecoderInv PROVE StaysInside
      OBVIOUS
    <2>1. pos <= Len(job.data) /\ (loop \notin {"done", "error"} => Len(px) <= Count)
      BY DEF DecoderInv, Filled, Active
    <2>2. ASSUME loop = "done"
          PROVE  DOMAIN out = Cells
      <3>1. tx = 0 /\ (ty >= job.h \/ job.w = 0) /\ ty \in Nat
        BY <2>2 DEF DecoderInv, Placed, Shapes
      <3>2. ASSUME NEW c \in Cells PROVE Behind(c)
        <4>1. job.w # 0 /\ c \div job.w \in 0 .. job.h - 1
          BY CellsPlace DEF DecoderInv
        <4> QED
          BY <3>1, <4>1, Sizes DEF Behind, DecoderInv
      <3> QED
        BY <3>2 DEF DecoderInv, Drawn
    <2> QED
      BY <2>1, <2>2 DEF StaysInside, Cells
  <1> QED
    BY <1>1, DecoderHolds, PTL

\* A pixel is decoded once: no later tile covers a cell of an earlier one, so what
\* is in the rect stays as it was read (zrle.rs, decode_tiles).
THEOREM PixelsAreFinal ==
    Spec => [][\A c \in DOMAIN out : c \in DOMAIN out' /\ out'[c] = out[c]]_vars
  <1>1. ASSUME DecoderInv, [Next]_vars
        PROVE  \A c \in DOMAIN out : c \in DOMAIN out' /\ out'[c] = out[c]
    <2>1. ASSUME EndTile, NEW c \in DOMAIN out
          PROVE  c \in DOMAIN out' /\ out'[c] = out[c]
      <3>1. Shapes /\ tx < job.w /\ ty < job.h
        BY <1>1, <2>1 DEF EndTile, DecoderInv, Placed, Active
      <3>2. c \in Cells /\ Behind(c)
        BY <1>1, <2>1 DEF DecoderInv, Drawn
      <3>3. c \notin {Cell(i) : i \in 1 .. Count}
        <4>1. c \div job.w \in Int /\ c % job.w \in Int
          BY <3>1, <3>2, Sizes, CellsPlace
        <4>2. Th \in Nat /\ tx \in Nat /\ ty \in Nat
          BY <3>1, Sizes, TileSizes DEF Shapes
        <4>3. ~(/\ c \div job.w \in ty .. ty + Th - 1
                /\ c % job.w \in tx .. tx + Tw - 1)
          BY <3>2, <4>1, <4>2 DEF Behind
        <4> QED
          BY <3>1, <4>3, TileCells
      <3> QED
        BY <2>1, <3>3 DEF EndTile
    <2>2. CASE out' = out
      BY <2>2
    <2> QED
      BY <1>1, <2>1, <2>2 DEF Next, vars, Begin, BeginFails, Row, RowFails, PlainRun,
         PlainRunFails, IndexedRun, IndexedRunFails, Fails
  <1>2. DecoderInv /\ [Next]_vars =>
            [\A c \in DOMAIN out : c \in DOMAIN out' /\ out'[c] = out[c]]_vars
    BY <1>1
  <1> QED
    BY <1>2, DecoderHolds, PTL DEF Spec

\* The bytes a row of packed indices takes hold the index of each of its columns:
\* where RowBytes are left, no index is looked for past the end of the data, which
\* pos alone does not tell (zrle.rs, the packed palette of decode_tile).
THEOREM IndicesAreThere ==
    Spec => [](loop = "packed" /\ Has(RowBytes) =>
                  \A c \in 0 .. Tw - 1 :
                     pos + ((c * PackedBits) \div 8 + 1) \in 1 .. Len(job.data))
  <1>1. ASSUME DecoderInv, loop = "packed", Has(RowBytes), NEW c \in 0 .. Tw - 1
        PROVE  pos + ((c * PackedBits) \div 8 + 1) \in 1 .. Len(job.data)
    <2>1. Shapes /\ tx < job.w /\ ty < job.h /\ pos \in Nat
      BY <1>1 DEF DecoderInv, Placed, Active, Shapes
    <2>2. Tw \in Nat \ {0} /\ RowBytes \in Nat /\ Len(job.data) \in Nat
      BY <2>1, TileSizes, Sizes, RowBytesSound
    <2>3. (c * PackedBits) \div 8 + 1 \in 1 .. RowBytes
      <3>1. CASE PackedBits = 1
        BY <2>2, <3>1 DEF RowBytes
      <3>2. CASE PackedBits = 2
        BY <2>2, <3>2 DEF RowBytes
      <3>3. CASE PackedBits = 4
        BY <2>2, <3>3 DEF RowBytes
      <3> QED
        BY <3>1, <3>2, <3>3 DEF PackedBits
    <2>4. pos + RowBytes <= Len(job.data)
      BY <1>1, <2>1, <2>2 DEF Has, Left
    <2> QED
      BY <2>1, <2>2, <2>3, <2>4
  <1>2. DecoderInv =>
          (loop = "packed" /\ Has(RowBytes) =>
              \A c \in 0 .. Tw - 1 :
                 pos + ((c * PackedBits) \div 8 + 1) \in 1 .. Len(job.data))
    BY <1>1
  <1> QED
    BY <1>2, DecoderHolds, PTL
=============================================================================
