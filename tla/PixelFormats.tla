---------------------------- MODULE PixelFormats ----------------------------
(***************************************************************************)
(* Pixels in the formats a VNC server may use (bolide-rfb: proto.rs and    *)
(* zrle.rs; bolide-testkit: encode.rs): a colour to a pixel, the pixel to  *)
(* its bytes on the wire, of which ZRLE leaves one out when it can (a      *)
(* CPIXEL), and back.                                                      *)
(*                                                                         *)
(* A pixel is a u32 and a byte a u8, each given as the set of its bits, so *)
(* that a shift, a mask and an or are operations on sets.  A colour is     *)
(* three numbers, red, green and blue; alpha is always 255.                *)
(***************************************************************************)
EXTENDS Integers, Sequences, FiniteSetsExt

\* A channel has sixteen bits at most, and these are their weights.
Weight == <<1, 2, 4, 8, 16, 32, 64, 128, 256, 512, 1024, 2048, 4096, 8192, 16384, 32768>>
Bits(n) == {b \in 0..15 : (n \div Weight[b + 1]) % 2 = 1}
Value(bits) ==
    LET of(b) == IF b \in bits THEN Weight[b + 1] ELSE 0
    IN  of(0) + of(1) + of(2) + of(3) + of(4) + of(5) + of(6) + of(7) + of(8) + of(9)
          + of(10) + of(11) + of(12) + of(13) + of(14) + of(15)

\* A shift to the left loses what leaves the 32 bits, one to the right what falls off.
ShiftLeft(bits, n) == {b + n : b \in bits} \cap 0..31
ShiftRight(bits, n) == {b - n : b \in {c \in bits : c >= n}}

\* A format: bpp, depth, big (the byte order), trueColour, and by channel max
\* and shift.
RGBX_32 == [bpp |-> 32, depth |-> 24, big |-> FALSE, trueColour |-> TRUE,
            max |-> <<255, 255, 255>>, shift |-> <<0, 8, 16>>]

Channels == 1..3

U8 == 0..255
U16 == 0..65535
PixelFormat == [bpp : U8, depth : U8, big : BOOLEAN, trueColour : BOOLEAN,
                max : [Channels -> U16], shift : [Channels -> U8]]

\* encode and decode: the block of bytes that ServerInit and SetPixelFormat carry, numbers
\* of two bytes with the high one first.
Flag(b) == IF b THEN 1 ELSE 0
EncodeFormat(f) ==
    <<f.bpp, f.depth, Flag(f.big), Flag(f.trueColour)>>
        \o [i \in 1..6 |-> LET max == f.max[(i + 1) \div 2] IN
                           IF i % 2 = 1 THEN max \div 256 ELSE max % 256]
        \o f.shift \o <<0, 0, 0>>
DecodeFormat(b) ==
    [bpp |-> b[1], depth |-> b[2], big |-> b[3] # 0, trueColour |-> b[4] # 0,
     max |-> [c \in Channels |-> 256 * b[3 + 2 * c] + b[4 + 2 * c]],
     shift |-> SubSeq(b, 11, 13)]
BytesPerPixel(f) == (f.bpp + 7) \div 8

MaxShift(f) == Max({f.shift[c] : c \in Channels})
MinShift(f) == Min({f.shift[c] : c \in Channels})

\* cpixel_drops_high_byte.
DropsHighByte(f) == MaxShift(f) <= 23

CpixelBytes(f) ==
    IF /\ f.bpp = 32 /\ f.depth <= 24 /\ f.trueColour
       /\ DropsHighByte(f) \/ MinShift(f) >= 8
    THEN 3 ELSE BytesPerPixel(f)

\* Mutant: the byte order is forgotten.
CpixelOffsetLittle(f) ==
    IF CpixelBytes(f) # BytesPerPixel(f) /\ ~DropsHighByte(f) THEN 1 ELSE 0

\* The first byte of the CPIXEL among those of the pixel.
CpixelOffset(f) ==
    IF CpixelBytes(f) # BytesPerPixel(f) /\ f.big = DropsHighByte(f) THEN 1 ELSE 0

\* scale and unscale: a channel of max to one of 255, rounded, and back.
Scale(raw, max) ==
    LET v == Value(raw \cap Bits(max)) IN
    CASE max = 0 -> 0 [] max = 255 -> v
      [] OTHER -> ((v * 255 + max \div 2) \div max) % 256
Unscale(v, max) ==
    CASE max = 0 -> {} [] max = 255 -> Bits(v)
      [] OTHER -> Bits((v * max + 127) \div 255) \cap Bits(max)

ToRgba(f, pixel) == [c \in Channels |-> Scale(ShiftRight(pixel, f.shift[c]), f.max[c])]
FromRgba(f, colour) ==
    UNION {ShiftLeft(Unscale(colour[c], f.max[c]), f.shift[c]) : c \in Channels}

\* The significance of the i-th byte on the wire.
Place(f, i) == IF f.big THEN BytesPerPixel(f) - i ELSE i - 1

WritePixel(f, pixel) ==
    [i \in 1..BytesPerPixel(f) |-> ShiftRight(pixel, 8 * Place(f, i)) \cap 0..7]
ReadPixel(f, wire) ==
    UNION {ShiftLeft(wire[i], 8 * Place(f, i)) : i \in 1..BytesPerPixel(f)}

\* encode.rs, write_cpixel.
WriteCpixel(f, pixel) ==
    SubSeq(WritePixel(f, pixel), CpixelOffset(f) + 1, CpixelOffset(f) + CpixelBytes(f))

\* zrle.rs, read_cpixel: the byte that was left out is zero.
ReadCpixel(f, bytes) ==
    LET kept == CpixelOffset(f) + 1..CpixelOffset(f) + CpixelBytes(f)
        wire == [i \in 1..BytesPerPixel(f) |->
                   IF i \in kept THEN bytes[i - CpixelOffset(f)] ELSE {}]
    IN  ToRgba(f, ReadPixel(f, wire))

\* What RFC 6143 asks of any format: a pixel of one, two or four bytes that has
\* every colour bit, and no two channels that share one; and of one with CPIXELs of
\* three bytes: all colour bits in the low or in the high three.
Channel(f, c) == ShiftLeft(Bits(f.max[c]), f.shift[c])
Sound(f) ==
    /\ \A c, d \in Channels : c # d => Channel(f, c) \cap Channel(f, d) = {}
    /\ f.bpp \in {8, 16, 32}
    /\ \A c \in Channels : \A b \in Bits(f.max[c]) : b + f.shift[c] < f.bpp
    /\ CpixelBytes(f) # BytesPerPixel(f) =>
          UNION {Channel(f, c) : c \in Channels}
              \subseteq IF DropsHighByte(f) THEN 0..23 ELSE 8..31
=============================================================================
