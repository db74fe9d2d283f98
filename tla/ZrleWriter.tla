----------------------------- MODULE ZrleWriter -----------------------------
(***************************************************************************)
(* The test kit's half of ZRLE (bolide-testkit: encode.rs): the bytes of a *)
(* picture's tiles, before they enter the zlib stream.  A picture has a    *)
(* width, a height and a colour for each of the cells 0..w * h - 1.        *)
(***************************************************************************)
EXTENDS Integers, Sequences, FiniteSets, SequencesExt, FiniteSetsExt

Tilings == {"Auto", "Raw", "Solid", "PackedPalette", "PlainRle", "PaletteRle"}

\* The places of a sequence that pass a test, in order.
Places(s, Test(_)) == SelectSeq([i \in DOMAIN s |-> i], Test)

\* tile_pixels: the pixels of the tile at x and y, row by row.
TilePixels(p, x, y, tw, th) ==
    [i \in 1..tw * th |-> p.px[(y + (i - 1) \div tw) * p.w + x + ((i - 1) % tw)]]

\* palette_of: the colours in the order of their first appearance.
PaletteOf(px) ==
    LET firsts == Places(px, LAMBDA i : \A j \in 1..i - 1 : px[j] # px[i])
    IN  [k \in DOMAIN firsts |-> px[firsts[k]]]
PlaceOf(colour, palette) == (CHOOSE k \in DOMAIN palette : palette[k] = colour) - 1

\* runs_of: a colour and how often it follows itself.
RunsOf(px) ==
    LET starts == Places(px, LAMBDA i : IF i = 1 THEN TRUE ELSE px[i] # px[i - 1])
        end(k) == IF k = Len(starts) THEN Len(px) + 1 ELSE starts[k + 1]
    IN  [k \in DOMAIN starts |-> [colour |-> px[starts[k]], len |-> end(k) - starts[k]]]

\* index_bits; 0 when the palette is too big to be packed, or too small.
IndexBits(n) ==
    CASE n = 2 -> 1 [] n \in 3..4 -> 2 [] n \in 5..16 -> 4 [] OTHER -> 0

\* write_run_length: 255 as often as it goes, and the rest.
RunLength(n) == [i \in 1..(n - 1) \div 255 |-> 255] \o <<(n - 1) % 255>>

\* auto_tiling: the cheapest form the tile fits into.
AutoTiling(palette, runs, pixels) ==
    CASE palette = 1 -> "Solid"
      [] IndexBits(palette) # 0 -> "PackedPalette"
      [] palette \in 17..127 -> "PaletteRle"
      [] OTHER -> IF runs * 2 < pixels THEN "PlainRle" ELSE "Raw"

\* encode_tile: a form the tile cannot take falls back to the cheapest.
Chosen(tiling, palette, runs, pixels) ==
    IF \/ tiling \in {"Raw", "PlainRle"}
       \/ tiling = "Solid" /\ palette = 1
       \/ tiling = "PackedPalette" /\ IndexBits(palette) # 0
       \/ tiling = "PaletteRle" /\ palette \in 2..127
    THEN tiling ELSE AutoTiling(palette, runs, pixels)

\* A row of indices, the first in the top bits; the last byte is padded.
PackedRow(row, palette) ==
    LET bits == IndexBits(Len(palette))
        fields == 8 \div bits
        field(c) == IF c <= Len(row) THEN PlaceOf(row[c], palette) ELSE 0
        byte(b) == MapThenSumSet(LAMBDA j : field((b - 1) * fields + j) * 2^(8 - bits * j), 1..fields)
    IN  [b \in 1..((Len(row) + fields - 1) \div fields) |-> byte(b)]

\* Mutant: the rows of a tile are packed one after the other.
PackedRowsTogether(px, tw, palette) == PackedRow(px, palette)

PackedRows(px, tw, palette) ==
    FlattenSeq([r \in 1..Len(px) \div tw |->
                  PackedRow(SubSeq(px, (r - 1) * tw + 1, r * tw), palette)])

IndexedRun(run, palette) ==
    IF run.len = 1 THEN <<PlaceOf(run.colour, palette)>>
    ELSE <<PlaceOf(run.colour, palette) + 128>> \o RunLength(run.len)

EncodeTile(px, tw, tiling) ==
    LET palette == PaletteOf(px)
        runs == RunsOf(px)
        chosen == Chosen(tiling, Len(palette), Len(runs), Len(px))
        colours == FlattenSeq(palette)
    IN  CASE chosen = "Raw" -> <<0>> \o FlattenSeq(px)
          [] chosen = "Solid" -> <<1>> \o palette[1]
          [] chosen = "PackedPalette" ->
               <<Len(palette)>> \o colours \o PackedRows(px, tw, palette)
          [] chosen = "PlainRle" ->
               <<128>> \o FlattenSeq([k \in DOMAIN runs |->
                                        runs[k].colour \o RunLength(runs[k].len)])
          [] chosen = "PaletteRle" ->
               <<128 + Len(palette)>> \o colours
                 \o FlattenSeq([k \in DOMAIN runs |-> IndexedRun(runs[k], palette)])

\* ZrleWriter::tiles: from left to right, then from top to bottom, those at the
\* right and the bottom clipped.
Tiles(p, tile, tiling) ==
    LET across == (p.w + tile - 1) \div tile
        down == (p.h + tile - 1) \div tile
        bytes(k) ==
            LET x == tile * (k % across)
                y == tile * (k \div across)
                tw == Min({tile, p.w - x})
                th == Min({tile, p.h - y})
            IN  EncodeTile(TilePixels(p, x, y, tw, th), tw, tiling)
    IN  FlattenSeq([k \in 1..across * down |-> bytes(k - 1)])
=============================================================================
