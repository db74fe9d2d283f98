------------------------------- MODULE Picture ------------------------------
(***************************************************************************)
(* A frame of a recording (bolide-cli: record.rs): the size of the video,  *)
(* and the desktop's picture on it, whatever size the desktop has by then. *)
(* A pixel of the video is given by the pixel of the desktop it shows, or  *)
(* is black.  Sizes are pairs, and numbers are usize: none overflows.      *)
(***************************************************************************)
EXTENDS Integers

\* Geometry::for_screen: each side rounded up to even, at the top of u16 down.
Even(side) ==
    CASE side <= 1 -> 2 [] side = 65535 -> 65534 [] OTHER -> side + (side % 2)
ForScreen(size) == <<Even(size[1]), Even(size[2])>>

AtLeastOne(n) == IF n = 0 THEN 1 ELSE n

\* Mutant: the longer side is the one that is brought to the canvas's.
ScaledByLongerSide(f, c) ==
    IF f[1] <= c[1] /\ f[2] <= c[2] THEN f
    ELSE IF f[1] >= f[2] THEN <<c[1], AtLeastOne((f[2] * c[1]) \div f[1])>>
    ELSE <<AtLeastOne((f[1] * c[2]) \div f[2]), c[2]>>

\* fit: the frame's own size when it fits, else the largest of its aspect that does.
Scaled(f, c) ==
    IF f[1] <= c[1] /\ f[2] <= c[2] THEN f
    ELSE IF f[1] * c[2] >= f[2] * c[1] THEN <<c[1], AtLeastOne((f[2] * c[1]) \div f[1])>>
    ELSE <<AtLeastOne((f[1] * c[2]) \div f[2]), c[2]>>

Offset(s, c) == <<(c[1] - s[1]) \div 2, (c[2] - s[2]) \div 2>>

Black == <<-1, -1>>
Pixels(size) == (0..size[1] - 1) \X (0..size[2] - 1)

\* fit: what each pixel of the canvas shows; nearest neighbour, centred, on black.
Fit(f, c) ==
    IF f[1] = 0 \/ f[2] = 0 THEN [p \in Pixels(c) |-> Black]
    ELSE LET s == Scaled(f, c)
             o == Offset(s, c)
         IN  [p \in Pixels(c) \cup {<<o[1] + d[1], o[2] + d[2]>> : d \in Pixels(s)} |->
                LET d == <<p[1] - o[1], p[2] - o[2]>> IN
                IF d \in Pixels(s)
                THEN <<(d[1] * f[1]) \div s[1], (d[2] * f[2]) \div s[2]>> ELSE Black]
=============================================================================
