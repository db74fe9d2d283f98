------------------------- MODULE ConversionsProofs --------------------------
(***************************************************************************)
(* The arithmetic and the recorder.  The way points of a drag, the frames  *)
(* of a recording and the way of a colour, for every drag, every size of a *)
(* desktop, every pixel format and every colour: what Conversions checks   *)
(* for some of them is so for all.  Then the task that writes those frames *)
(* (Recorder), for frames and pipes of any size and for any number of      *)
(* ticks and events.                                                       *)
(***************************************************************************)
EXTENDS Conversions, Recorder, SequenceTheorems, TLAPS

LEMMA Division ==
    ASSUME NEW x \in Nat, NEW m \in Nat \ {0}
    PROVE  x \div m \in Nat /\ m * (x \div m) <= x /\ x < m * (x \div m) + m
  OBVIOUS

LEMMA DivisionBelow ==
    ASSUME NEW x \in Nat, NEW m \in Nat \ {0}, NEW d \in Nat, x < m * (d + 1)
    PROVE  x \div m <= d
  OBVIOUS

LEMMA DivisionExact ==
    ASSUME NEW x \in Nat, NEW m \in Nat \ {0}, NEW d \in Nat, m * d <= x, x < m * (d + 1)
    PROVE  x \div m = d
  OBVIOUS

LEMMA DivisionOrder ==
    ASSUME NEW x \in Nat, NEW y \in Nat, NEW m \in Nat \ {0}, x <= y
    PROVE  x \div m <= y \div m
  <1>1. x < m * (y \div m + 1)
    BY Division
  <1> QED
    BY <1>1, Division, DivisionBelow

\* What Along adds, of a way of d pixels in n moves: the i-th part, rounded.
Part(d, i, n) == (2 * (d * i) + n) \div (2 * n)

LEMMA Parts ==
    ASSUME NEW d \in Nat, NEW n \in Nat \ {0}, NEW i \in 0..n
    PROVE  /\ Part(d, i, n) \in 0..d
           /\ Part(d, 0, n) = 0
           /\ Part(d, n, n) = d
           /\ i < n => Part(d, i, n) <= Part(d, i + 1, n)
  <1>1. d * i \in Nat /\ d * i <= d * n /\ d * (i + 1) = d * i + d
    OBVIOUS
  <1>2. 2 * (d * i) + n \in Nat /\ 2 * n \in Nat \ {0}
    BY <1>1
  <1>3. 2 * n * (d + 1) = 2 * (d * n) + 2 * n /\ 2 * n * d = 2 * (d * n)
    OBVIOUS
  <1>4. Part(d, i, n) \in 0..d
    BY <1>1, <1>2, <1>3, Division, DivisionBelow DEF Part
  <1>5. Part(d, 0, n) = 0
    BY DivisionExact DEF Part
  <1>6. Part(d, n, n) = d
    BY <1>3, DivisionExact DEF Part
  <1>7. i < n => Part(d, i, n) <= Part(d, i + 1, n)
    BY <1>1, <1>2, DivisionOrder DEF Part
  <1> QED
    BY <1>4, <1>5, <1>6, <1>7

LEMMA AlongIsParts ==
    ASSUME NEW a \in Nat, NEW b \in Nat, NEW n \in Nat \ {0}, NEW i \in 1..n
    PROVE  /\ a <= b => Along(a, b, i, n) = a + Part(b - a, i, n)
           /\ b <= a => Along(a, b, i, n) = a - Part(a - b, i, n)
  <1>1. CASE a < b
    <2>1. (b - a) * i > 0
      BY <1>1
    <2> QED
      BY <1>1, <2>1 DEF Along, Quotient, Sign, Part
  <1>2. CASE b < a
    <2>1. (b - a) * i = -((a - b) * i) /\ (a - b) * i > 0
      BY <1>2
    <2>2. 2 * ((b - a) * i) - n = -(2 * ((a - b) * i) + n)
      BY <2>1
    <2> QED
      BY <1>2, <2>1, <2>2 DEF Along, Quotient, Sign, Part
  <1>3. CASE a = b
    <2>1. (b - a) * i = 0 /\ (a - b) * i = 0
      BY <1>3
    <2>2. Part(0, i, n) = 0
      BY Parts
    <2> QED
      BY <1>3, <2>1, <2>2, DivisionExact DEF Along, Quotient, Sign
  <1> QED
    BY <1>1, <1>2, <1>3

LEMMA WayPoints ==
    ASSUME NEW a \in Nat, NEW b \in Nat, NEW n \in Nat \ {0}, NEW i \in 1..n
    PROVE  LET point == Along(a, b, i, n)
               last == IF i = 1 THEN a ELSE Along(a, b, i - 1, n)
           IN  /\ i = n => point = b
               /\ (last <= point /\ point <= b) \/ (b <= point /\ point <= last)
  <1>1. CASE a <= b
    <2>1. Along(a, b, i, n) = a + Part(b - a, i, n)
      BY <1>1, AlongIsParts
    <2>2. i # 1 => Along(a, b, i - 1, n) = a + Part(b - a, i - 1, n)
      BY <1>1, AlongIsParts
    <2>3. /\ Part(b - a, i, n) \in 0..b - a /\ Part(b - a, n, n) = b - a
          /\ Part(b - a, i - 1, n) \in 0..b - a /\ Part(b - a, 0, n) = 0
          /\ Part(b - a, i - 1, n) <= Part(b - a, i - 1 + 1, n)
      <3>1. b - a \in Nat /\ i \in 0..n /\ i - 1 \in 0..n /\ i - 1 < n
        BY <1>1
      <3> QED
        BY <3>1, Parts
    <2>4. i - 1 + 1 = i
      OBVIOUS
    <2> QED
      BY <1>1, <2>1, <2>2, <2>3, <2>4
  <1>2. CASE b <= a
    <2>1. Along(a, b, i, n) = a - Part(a - b, i, n)
      BY <1>2, AlongIsParts
    <2>2. i # 1 => Along(a, b, i - 1, n) = a - Part(a - b, i - 1, n)
      BY <1>2, AlongIsParts
    <2>3. /\ Part(a - b, i, n) \in 0..a - b /\ Part(a - b, n, n) = a - b
          /\ Part(a - b, i - 1, n) \in 0..a - b /\ Part(a - b, 0, n) = 0
          /\ Part(a - b, i - 1, n) <= Part(a - b, i - 1 + 1, n)
      <3>1. a - b \in Nat /\ i \in 0..n /\ i - 1 \in 0..n /\ i - 1 < n
        BY <1>2
      <3> QED
        BY <3>1, Parts
    <2>4. i - 1 + 1 = i
      OBVIOUS
    <2> QED
      BY <1>2, <2>1, <2>2, <2>3, <2>4
  <1> QED
    BY <1>1, <1>2

\* The way points of any drag in any number of moves go from one end to the other
\* without turning back or leaving the way, and the last is the end exactly
\* (actions.rs:184-191).
THEOREM WaysLeadToTheEnd == ConvSpec => []WayLeadsToTheEnd
  <1> USE ConversionsAssumption DEF ConversionsAssumption
  <1> DEFINE Straight == /\ asked \in Questions
                         /\ Answered("drag") =>
                              answer = [i \in 1..asked.way.n |->
                                          Along(asked.way.from, asked.way.to, i, asked.way.n)]
  <1>1. ConvInit => Straight
    BY DEF ConvInit, Answered
  <1>2. Straight /\ [ConvNext]_convVars => Straight'
    BY DEF ConvNext, Colour, Frame, Way, Answered, convVars
  <1>3. Straight => WayLeadsToTheEnd
    <2> SUFFICES ASSUME Straight, Answered("drag") PROVE WayLeadsToTheEnd
      BY DEF WayLeadsToTheEnd
    <2> DEFINE a == asked.way.from
               b == asked.way.to
               n == asked.way.n
    <2>1. a \in Nat /\ b \in Nat /\ n \in Nat \ {0}
      BY DEF Questions, Answered
    <2>2. \A i \in 1..n : answer[i] = Along(a, b, i, n)
      OBVIOUS
    <2>3. answer[n] = b
      <3>1. n \in 1..n /\ answer[n] = Along(a, b, n, n)
        BY <2>1, <2>2
      <3> HIDE DEF a, b, n
      <3>2. Along(a, b, n, n) = b
        BY <2>1, WayPoints
      <3> QED
        BY <3>1, <3>2
    <2>4. ASSUME NEW i \in 1..n
          PROVE  LET last == IF i = 1 THEN a ELSE answer[i - 1]
                 IN  (last <= answer[i] /\ answer[i] <= b) \/ (b <= answer[i] /\ answer[i] <= last)
      <3>1. answer[i] = Along(a, b, i, n) /\ (i # 1 => answer[i - 1] = Along(a, b, i - 1, n))
        BY <2>1, <2>2
      <3> HIDE DEF a, b, n
      <3> QED
        BY <2>1, <3>1, WayPoints
    <2> QED
      BY <2>3, <2>4 DEF WayLeadsToTheEnd
  <1> QED
    BY <1>1, <1>2, <1>3, PTL DEF ConvSpec

-----------------------------------------------------------------------------
(* A frame of a recording *)

\* The place along a side of f pixels that is shown d pixels along one of s.
Across(d, f, s) == (d * f) \div s

LEMMA AcrossSound ==
    ASSUME NEW f \in Nat \ {0}, NEW s \in Nat \ {0}, NEW d \in 0 .. s - 1
    PROVE  /\ Across(d, f, s) \in 0 .. f - 1
           /\ s = f => Across(d, f, s) = d
           /\ \A e \in 0 .. s - 1 : d <= e => Across(d, f, s) <= Across(e, f, s)
  <1>1. d * f \in Nat /\ d * f + f <= s * f
    <2>1. (s - 1 - d) * f >= 0 /\ (s - 1 - d) * f = s * f - f - d * f
      OBVIOUS
    <2> QED
      BY <2>1
  <1>2. d * f < s * ((f - 1) + 1) /\ f - 1 \in Nat
    <2>1. (f - 1) + 1 = f
      OBVIOUS
    <2> QED
      BY <1>1, <2>1
  <1>3. Across(d, f, s) \in 0 .. f - 1
    BY <1>1, <1>2, Division, DivisionBelow DEF Across
  <1>4. s = f => Across(d, f, s) = d
    <2>1. f * d <= d * f /\ d * f < f * (d + 1)
      OBVIOUS
    <2> QED
      BY <1>1, <2>1, DivisionExact DEF Across
  <1>5. ASSUME NEW e \in 0 .. s - 1, d <= e
        PROVE  Across(d, f, s) <= Across(e, f, s)
    <2>1. (e - d) * f >= 0 /\ (e - d) * f = e * f - d * f /\ e * f \in Nat
      BY <1>5
    <2>2. d * f <= e * f
      BY <1>1, <2>1
    <2> QED
      BY <1>1, <2>1, <2>2, DivisionOrder DEF Across
  <1> QED
    BY <1>3, <1>4, <1>5

Side == Nat \ {0}

\* A side that is scaled with the longer one is no longer than there is room.
LEMMA ShorterFits ==
    ASSUME NEW f \in Side, NEW g \in Side, NEW c \in Side, NEW d \in Side,
           f * d >= g * c
    PROVE  AtLeastOne((g * c) \div f) \in 1 .. d
  <1> USE DEF Side
  <1>1. g * c \in Nat /\ f * (d + 1) = f * d + f /\ f * d \in Nat
    OBVIOUS
  <1>2. (g * c) \div f \in Nat /\ (g * c) \div f <= d
    BY <1>1, Division, DivisionBelow
  <1> QED
    BY <1>2 DEF AtLeastOne

LEMMA ScaledFits ==
    ASSUME NEW f \in Side \X Side, NEW c \in Side \X Side
    PROVE  /\ Scaled(f, c)[1] \in 1 .. c[1] /\ Scaled(f, c)[2] \in 1 .. c[2]
           /\ f[1] <= c[1] /\ f[2] <= c[2] => Scaled(f, c) = f
           /\ ~(f[1] <= c[1] /\ f[2] <= c[2]) =>
                 Scaled(f, c)[1] = c[1] \/ Scaled(f, c)[2] = c[2]
  <1>1. f[1] \in Side /\ f[2] \in Side /\ c[1] \in Side /\ c[2] \in Side
    OBVIOUS
  <1>2. CASE f[1] <= c[1] /\ f[2] <= c[2]
    BY <1>1, <1>2 DEF Scaled, Side
  <1>3. CASE ~(f[1] <= c[1] /\ f[2] <= c[2]) /\ f[1] * c[2] >= f[2] * c[1]
    <2>1. AtLeastOne((f[2] * c[1]) \div f[1]) \in 1 .. c[2]
      BY <1>1, <1>3, ShorterFits
    <2>2. Scaled(f, c) = <<c[1], AtLeastOne((f[2] * c[1]) \div f[1])>>
      BY <1>3 DEF Scaled
    <2> QED
      BY <1>1, <1>3, <2>1, <2>2 DEF Side
  <1>4. CASE ~(f[1] <= c[1] /\ f[2] <= c[2]) /\ ~(f[1] * c[2] >= f[2] * c[1])
    <2>1. f[2] * c[1] >= f[1] * c[2]
      BY <1>1, <1>4 DEF Side
    <2>2. AtLeastOne((f[1] * c[2]) \div f[2]) \in 1 .. c[1]
      BY <1>1, <2>1, ShorterFits
    <2>3. Scaled(f, c) = <<AtLeastOne((f[1] * c[2]) \div f[2]), c[2]>>
      BY <1>4 DEF Scaled
    <2> QED
      BY <1>1, <1>4, <2>2, <2>3 DEF Side
  <1> QED
    BY <1>2, <1>3, <1>4

\* Where the canvas shows the picture: o pixels in, s of them.
Within(p, o, s) == p[1] - o[1] \in 0 .. s[1] - 1 /\ p[2] - o[2] \in 0 .. s[2] - 1
Source(p, f, o, s) ==
    <<Across(p[1] - o[1], f[1], s[1]), Across(p[2] - o[2], f[2], s[2])>>

LEMMA FitShows ==
    ASSUME NEW f \in Side \X Side, NEW c \in Side \X Side,
           NEW s, s = Scaled(f, c), NEW o, o = Offset(s, c)
    PROVE  /\ o[1] \in Nat /\ o[2] \in Nat
           /\ s[1] \in Side /\ s[2] \in Side
           /\ o[1] + s[1] <= c[1] /\ o[2] + s[2] <= c[2]
           /\ s[1] = c[1] => o[1] = 0
           /\ s[2] = c[2] => o[2] = 0
           /\ Fit(f, c) = [p \in Pixels(c) |-> IF Within(p, o, s) THEN Source(p, f, o, s) ELSE Black]
  <1>1. c[1] \in Side /\ c[2] \in Side /\ f[1] \in Side /\ f[2] \in Side
    OBVIOUS
  <1>2. s[1] \in 1 .. c[1] /\ s[2] \in 1 .. c[2]
    BY ScaledFits
  <1>3. o[1] = (c[1] - s[1]) \div 2 /\ o[2] = (c[2] - s[2]) \div 2
    BY DEF Offset
  <1>4. /\ o[1] \in Nat /\ o[2] \in Nat /\ s[1] \in Side /\ s[2] \in Side
        /\ o[1] + s[1] <= c[1] /\ o[2] + s[2] <= c[2]
        /\ s[1] = c[1] => o[1] = 0
        /\ s[2] = c[2] => o[2] = 0
    BY <1>1, <1>2, <1>3 DEF Side
  <1>5. Fit(f, c) = [p \in Pixels(c) \cup {<<o[1] + d[1], o[2] + d[2]>> : d \in Pixels(s)} |->
                       IF <<p[1] - o[1], p[2] - o[2]>> \in Pixels(s)
                       THEN <<((p[1] - o[1]) * f[1]) \div s[1], ((p[2] - o[2]) * f[2]) \div s[2]>>
                       ELSE Black]
    BY <1>1 DEF Fit, Side
  <1>6. \A d \in Pixels(s) : <<o[1] + d[1], o[2] + d[2]>> \in Pixels(c)
    BY <1>1, <1>4 DEF Pixels, Side
  <1>7. Pixels(c) \cup {<<o[1] + d[1], o[2] + d[2]>> : d \in Pixels(s)} = Pixels(c)
    BY <1>6
  <1>8. \A p : <<p[1] - o[1], p[2] - o[2]>> \in Pixels(s) <=> Within(p, o, s)
    BY DEF Within, Pixels
  <1> QED
    BY <1>4, <1>5, <1>7, <1>8 DEF Source, Across

LEMMA EvenSides ==
    ASSUME NEW n \in Nat
    PROVE  Even(n) \in Side /\ Even(n) % 2 = 0
  <1>1. CASE n <= 1
    BY <1>1 DEF Even, Side
  <1>2. CASE n = 65535
    BY <1>2 DEF Even, Side
  <1>3. CASE n > 1 /\ n # 65535
    <2>1. Even(n) = n + (n % 2)
      BY <1>3 DEF Even
    <2> QED
      BY <1>3, <2>1 DEF Side
  <1> QED
    BY <1>1, <1>2, <1>3

\* The picture of a desktop of any size, if it has pixels, on any canvas.
LEMMA PictureFits ==
    ASSUME NEW f \in Side \X Side, NEW c \in Side \X Side
    PROVE  LET picture == Fit(f, c)
               shown == {p \in DOMAIN picture : picture[p] # Black}
           IN  /\ DOMAIN picture = Pixels(c)
               /\ \A p \in shown : picture[p] \in Pixels(f)
               /\ \A p, q \in shown :
                     p[1] <= q[1] /\ p[2] <= q[2] =>
                        picture[p][1] <= picture[q][1] /\ picture[p][2] <= picture[q][2]
               /\ f[1] <= c[1] /\ f[2] <= c[2] =>
                     Pixels(f) = {picture[p] : p \in shown}
                       /\ \A p, q \in shown : p # q => picture[p] # picture[q]
               /\ ~(f[1] <= c[1] /\ f[2] <= c[2]) =>
                     \/ {p[1] : p \in shown} = 0 .. c[1] - 1
                     \/ {p[2] : p \in shown} = 0 .. c[2] - 1
  <1> DEFINE picture == Fit(f, c)
             shown == {p \in DOMAIN picture : picture[p] # Black}
             s == Scaled(f, c)
             o == Offset(s, c)
  <1>1. f[1] \in Side /\ f[2] \in Side /\ c[1] \in Side /\ c[2] \in Side
    OBVIOUS
  <1>2. /\ o[1] \in Nat /\ o[2] \in Nat
        /\ s[1] \in Side /\ s[2] \in Side
        /\ o[1] + s[1] <= c[1] /\ o[2] + s[2] <= c[2]
        /\ s[1] = c[1] => o[1] = 0
        /\ s[2] = c[2] => o[2] = 0
        /\ picture = [p \in Pixels(c) |-> IF Within(p, o, s) THEN Source(p, f, o, s) ELSE Black]
    BY FitShows
  <1>3. /\ f[1] <= c[1] /\ f[2] <= c[2] => s = f
        /\ ~(f[1] <= c[1] /\ f[2] <= c[2]) => s[1] = c[1] \/ s[2] = c[2]
    BY ScaledFits
  <1> HIDE DEF s, o, picture
  <1>4. DOMAIN picture = Pixels(c)
    BY <1>2
  <1>5. \A p \in Pixels(c) :
           Within(p, o, s) => /\ Across(p[1] - o[1], f[1], s[1]) \in 0 .. f[1] - 1
                              /\ Across(p[2] - o[2], f[2], s[2]) \in 0 .. f[2] - 1
    BY <1>1, <1>2, AcrossSound DEF Within, Side
  <1>6. \A p \in Pixels(c) : Within(p, o, s) => Source(p, f, o, s) # Black
    BY <1>1, <1>5 DEF Source, Black, Side
  <1>7. shown = {p \in Pixels(c) : Within(p, o, s)}
    BY <1>2, <1>4, <1>6
  <1>8. \A p \in shown : /\ p \in Pixels(c) /\ Within(p, o, s)
                         /\ picture[p] = Source(p, f, o, s)
    BY <1>2, <1>7
  <1> HIDE DEF shown
  <1>9. \A p \in Pixels(c) : /\ p = <<p[1], p[2]>> /\ p[1] \in 0 .. c[1] - 1 /\ p[2] \in 0 .. c[2] - 1
    BY DEF Pixels
  <1>10. \A p \in shown : p[1] \in Int /\ p[2] \in Int
    BY <1>1, <1>8, <1>9 DEF Side
  <1>11. \A p \in shown : picture[p] \in Pixels(f)
    BY <1>5, <1>8 DEF Source, Pixels
  <1>12. ASSUME NEW p \in shown, NEW q \in shown, p[1] <= q[1], p[2] <= q[2]
         PROVE  picture[p][1] <= picture[q][1] /\ picture[p][2] <= picture[q][2]
    <2>1. /\ p[1] - o[1] \in 0 .. s[1] - 1 /\ q[1] - o[1] \in 0 .. s[1] - 1
          /\ p[2] - o[2] \in 0 .. s[2] - 1 /\ q[2] - o[2] \in 0 .. s[2] - 1
      BY <1>8 DEF Within
    <2>2. p[1] - o[1] <= q[1] - o[1] /\ p[2] - o[2] <= q[2] - o[2]
      <3>1. /\ p[1] \in Int /\ p[2] \in Int /\ q[1] \in Int /\ q[2] \in Int
            /\ o[1] \in Int /\ o[2] \in Int
        BY <1>2, <1>10
      <3> QED
        BY <1>12, <3>1
    <2>3. /\ Across(p[1] - o[1], f[1], s[1]) <= Across(q[1] - o[1], f[1], s[1])
          /\ Across(p[2] - o[2], f[2], s[2]) <= Across(q[2] - o[2], f[2], s[2])
      BY <1>1, <1>2, <2>1, <2>2, AcrossSound DEF Side
    <2> QED
      BY <1>8, <2>3 DEF Source
  <1>13. ASSUME f[1] <= c[1] /\ f[2] <= c[2]
         PROVE  /\ Pixels(f) = {picture[p] : p \in shown}
                /\ \A p, q \in shown : p # q => picture[p] # picture[q]
    <2>1. s = f
      BY <1>3, <1>13
    <2>2. \A p \in shown : picture[p] = <<p[1] - o[1], p[2] - o[2]>>
      <3>1. \A p \in shown : /\ Across(p[1] - o[1], f[1], s[1]) = p[1] - o[1]
                             /\ Across(p[2] - o[2], f[2], s[2]) = p[2] - o[2]
        BY <1>1, <1>8, <2>1, AcrossSound DEF Within, Side
      <3> QED
        BY <1>8, <3>1 DEF Source
    <2>3. ASSUME NEW q \in Pixels(f)
          PROVE  q \in {picture[p] : p \in shown}
      <3>1. q = <<q[1], q[2]>> /\ q[1] \in 0 .. f[1] - 1 /\ q[2] \in 0 .. f[2] - 1
        BY DEF Pixels
      <3> DEFINE p == <<o[1] + q[1], o[2] + q[2]>>
      <3>2. /\ p[1] = o[1] + q[1] /\ p[2] = o[2] + q[2]
            /\ p[1] - o[1] = q[1] /\ p[2] - o[2] = q[2]
        BY <1>1, <1>2, <3>1 DEF Side
      <3>3. p \in Pixels(c)
        BY <1>1, <1>2, <2>1, <3>1 DEF Pixels, Side
      <3>4. Within(p, o, s)
        BY <2>1, <3>1, <3>2 DEF Within
      <3> HIDE DEF p
      <3>5. p \in shown /\ picture[p] = q
        BY <1>7, <2>2, <3>1, <3>2, <3>3, <3>4 DEF shown
      <3> QED
        BY <3>5
    <2>4. Pixels(f) = {picture[p] : p \in shown}
      BY <1>11, <2>3
    <2>5. ASSUME NEW p \in shown, NEW q \in shown, picture[p] = picture[q]
          PROVE  p = q
      <3>1. p[1] - o[1] = q[1] - o[1] /\ p[2] - o[2] = q[2] - o[2]
        BY <2>2, <2>5
      <3>2. /\ p[1] \in Int /\ p[2] \in Int /\ q[1] \in Int /\ q[2] \in Int
            /\ o[1] \in Int /\ o[2] \in Int
        BY <1>2, <1>10
      <3>3. p[1] = q[1] /\ p[2] = q[2]
        BY <3>1, <3>2
      <3> QED
        BY <1>8, <1>9, <3>3
    <2> QED
      BY <2>4, <2>5
  <1>14. ASSUME s[1] = c[1]
         PROVE  {p[1] : p \in shown} = 0 .. c[1] - 1
    <2>1. \A p \in shown : p[1] \in 0 .. c[1] - 1
      BY <1>8, <1>9
    <2>2. ASSUME NEW k \in 0 .. c[1] - 1
          PROVE  \E p \in shown : p[1] = k
      <3>1. <<k, o[2]>> \in Pixels(c) /\ Within(<<k, o[2]>>, o, s)
        BY <1>1, <1>2, <1>14 DEF Pixels, Within, Side
      <3> QED
        BY <1>7, <3>1
    <2> QED
      BY <2>1, <2>2
  <1>15. ASSUME s[2] = c[2]
         PROVE  {p[2] : p \in shown} = 0 .. c[2] - 1
    <2>1. \A p \in shown : p[2] \in 0 .. c[2] - 1
      BY <1>8, <1>9
    <2>2. ASSUME NEW k \in 0 .. c[2] - 1
          PROVE  \E p \in shown : p[2] = k
      <3>1. <<o[1], k>> \in Pixels(c) /\ Within(<<o[1], k>>, o, s)
        BY <1>1, <1>2, <1>15 DEF Pixels, Within, Side
      <3> QED
        BY <1>7, <3>1
    <2> QED
      BY <2>1, <2>2
  <1>16. ~(f[1] <= c[1] /\ f[2] <= c[2]) =>
            \/ {p[1] : p \in shown} = 0 .. c[1] - 1
            \/ {p[2] : p \in shown} = 0 .. c[2] - 1
    BY <1>3, <1>14, <1>15
  <1> QED
    BY <1>4, <1>11, <1>12, <1>13, <1>16 DEF shown, picture

\* Conversions' FrameFits, for every size a desktop had when the recording began
\* and every size it has since: a frame is exactly the canvas, reads no pixel
\* outside the picture, and shows it in order, whole where there is room and from
\* one side of the canvas to the other where there is not (record.rs:104-106).
THEOREM FramesFit == ConvSpec => []FrameFits
  <1> USE ConversionsAssumption DEF ConversionsAssumption
  <1> DEFINE Fitted == /\ asked \in Questions
                       /\ Answered("frame") => answer = Fit(asked.now, Canvas)
  <1>1. ConvInit => Fitted
    BY DEF ConvInit, Answered
  <1>2. Fitted /\ [ConvNext]_convVars => Fitted'
    BY DEF ConvNext, Colour, Frame, Way, Answered, convVars, Canvas
  <1>3. Fitted => FrameFits
    <2> SUFFICES ASSUME Fitted, Answered("frame") PROVE FrameFits
      BY DEF FrameFits
    <2> DEFINE f == asked.now
               c == Canvas
               shown == {p \in DOMAIN answer : answer[p] # Black}
    <2>1. f \in Nat \X Nat /\ asked.screen \in Nat \X Nat
      BY DEF Questions, Answered
    <2>2. c \in Side \X Side /\ c[1] % 2 = 0 /\ c[2] % 2 = 0 /\ c[1] \in Side /\ c[2] \in Side
      <3>1. c = <<Even(asked.screen[1]), Even(asked.screen[2])>>
        BY DEF Canvas, ForScreen
      <3>2. asked.screen[1] \in Nat /\ asked.screen[2] \in Nat
        BY <2>1
      <3> QED
        BY <3>1, <3>2, EvenSides
    <2>3. answer = Fit(f, c)
      OBVIOUS
    <2> HIDE DEF f, c
    <2>4. CASE f[1] = 0 \/ f[2] = 0
      <3>1. answer = [p \in Pixels(c) |-> Black]
        BY <2>3, <2>4 DEF Fit
      <3>2. DOMAIN answer = Pixels(c) /\ shown = {}
        BY <3>1
      <3>3. Pixels(f) = {}
        BY <2>1, <2>4 DEF Pixels
      <3> QED
        BY <2>2, <3>2, <3>3 DEF FrameFits, f, c
    <2>5. CASE f[1] # 0 /\ f[2] # 0
      <3>1. f \in Side \X Side
        BY <2>1, <2>5 DEF Side
      <3>2. /\ DOMAIN answer = Pixels(c)
            /\ \A p \in shown : answer[p] \in Pixels(f)
            /\ \A p, q \in shown :
                  p[1] <= q[1] /\ p[2] <= q[2] =>
                     answer[p][1] <= answer[q][1] /\ answer[p][2] <= answer[q][2]
            /\ f[1] <= c[1] /\ f[2] <= c[2] =>
                  Pixels(f) = {answer[p] : p \in shown}
                    /\ \A p, q \in shown : p # q => answer[p] # answer[q]
            /\ ~(f[1] <= c[1] /\ f[2] <= c[2]) =>
                  \/ {p[1] : p \in shown} = 0 .. c[1] - 1
                  \/ {p[2] : p \in shown} = 0 .. c[2] - 1
        BY <2>2, <2>3, <3>1, PictureFits
      <3>3. f[1] \in Nat /\ f[2] \in Nat /\ c[1] \in Nat /\ c[2] \in Nat
        BY <2>1, <2>2 DEF Side
      <3>4. \A side \in {1, 2} : side = 1 \/ side = 2
        OBVIOUS
      <3>5. (\E side \in {1, 2} : f[side] > c[side]) =>
               \E side \in {1, 2} : {p[side] : p \in shown} = 0 .. c[side] - 1
        BY <3>2, <3>3
      <3>6. (\A side \in {1, 2} : f[side] <= c[side]) =>
                Pixels(f) = {answer[p] : p \in shown}
                  /\ \A p, q \in shown : p # q => answer[p] # answer[q]
        BY <3>2
      <3> QED
        BY <2>2, <3>2, <3>5, <3>6 DEF FrameFits, f, c
    <2> QED
      BY <2>4, <2>5
  <1> QED
    BY <1>1, <1>2, <1>3, PTL DEF ConvSpec

-----------------------------------------------------------------------------
(* A colour on the wire *)

LEMMA FormatsHoldNumbers ==
    ASSUME NEW f \in PixelFormat
    PROVE  /\ f.bpp \in Nat /\ f.depth \in Nat
           /\ f.big \in BOOLEAN /\ f.trueColour \in BOOLEAN
           /\ f.max \in [1 .. 3 -> Nat] /\ f.shift \in [1 .. 3 -> Nat]
           /\ f = [bpp |-> f.bpp, depth |-> f.depth, big |-> f.big,
                   trueColour |-> f.trueColour, max |-> f.max, shift |-> f.shift]
  <1>1. U8 \subseteq Nat /\ U16 \subseteq Nat
    BY DEF U8, U16
  <1> QED
    BY <1>1 DEF PixelFormat, Channels

LEMMA Joined ==
    ASSUME NEW s \in Seq(Int), NEW t \in Seq(Int)
    PROVE  /\ s \o t \in Seq(Int) /\ Len(s \o t) = Len(s) + Len(t)
           /\ \A i \in 1 .. Len(s) : (s \o t)[i] = s[i]
           /\ \A i \in 1 .. Len(t) : (s \o t)[Len(s) + i] = t[i]
  <1>1. s \o t \in Seq(Int) /\ Len(s \o t) = Len(s) + Len(t) /\ Len(s) \in Nat /\ Len(t) \in Nat
    OBVIOUS
  <1>2. \A i \in 1 .. Len(s) + Len(t) :
          (s \o t)[i] = IF i <= Len(s) THEN s[i] ELSE t[i - Len(s)]
    OBVIOUS
  <1>3. \A i \in 1 .. Len(t) : /\ Len(s) + i \in 1 .. Len(s) + Len(t)
                               /\ ~(Len(s) + i <= Len(s)) /\ (Len(s) + i) - Len(s) = i
    BY <1>1
  <1> QED
    BY <1>1, <1>2, <1>3

LEMMA ThreeInOrder ==
    ASSUME NEW g \in [1 .. 3 -> Nat]
    PROVE  g \in Seq(Int) /\ Len(g) = 3
  <1>1. g \in [1 .. 3 -> Int]
    OBVIOUS
  <1>2. [1 .. 3 -> Int] \subseteq Seq(Int)
    <2>1. \A n \in Nat : [1 .. n -> Int] \subseteq UNION {[1 .. k -> Int] : k \in Nat}
      BY Zenon
    <2> QED
      BY <2>1, SeqDef, 3 \in Nat
  <1>3. g \in Seq(Int)
    BY <1>1, <1>2
  <1>4. 1 .. Len(g) = 1 .. 3 /\ Len(g) \in Nat
    BY <1>1, <1>3, LenProperties
  <1> QED
    BY <1>3, <1>4

\* What the desktop decodes of the block of bytes bolide sends it is the format
\* bolide reads pixels in, for every format there is (proto.rs:235-265).
THEOREM FormatTold ==
    ASSUME NEW f \in PixelFormat
    PROVE  DecodeFormat(EncodeFormat(f)) = f
  <1> DEFINE head == <<f.bpp, f.depth, Flag(f.big), Flag(f.trueColour)>>
             maxes == [i \in 1 .. 6 |-> LET max == f.max[(i + 1) \div 2] IN
                                        IF i % 2 = 1 THEN max \div 256 ELSE max % 256]
             pad == <<0, 0, 0>>
             b == EncodeFormat(f)
  <1>1. /\ f.bpp \in Int /\ f.depth \in Int /\ f.big \in BOOLEAN /\ f.trueColour \in BOOLEAN
        /\ f.max \in [1 .. 3 -> Nat] /\ f.shift \in [1 .. 3 -> Nat]
    BY FormatsHoldNumbers
  <1>2. head \in Seq(Int) /\ Len(head) = 4
    BY <1>1 DEF Flag
  <1>3. maxes \in Seq(Int) /\ Len(maxes) = 6
    <2>1. \A i \in 1 .. 6 : (i + 1) \div 2 \in 1 .. 3
      OBVIOUS
    <2>2. \A i \in 1 .. 6 : maxes[i] \in Int
      BY <1>1, <2>1
    <2> QED
      BY <2>2
  <1>4. f.shift \in Seq(Int) /\ Len(f.shift) = 3 /\ pad \in Seq(Int) /\ Len(pad) = 3
    <2>1. f.shift \in Seq(Int) /\ Len(f.shift) = 3
      BY <1>1, ThreeInOrder
    <2>2. pad \in Seq(Int) /\ Len(pad) = 3
      OBVIOUS
    <2> QED
      BY <2>1, <2>2
  <1>5. b = ((head \o maxes) \o f.shift) \o pad
    BY DEF EncodeFormat
  <1> HIDE DEF head, pad, maxes, b
  <1> DEFINE front == head \o maxes
             known == front \o f.shift
  <1>6. front = head \o maxes /\ known = front \o f.shift /\ b = known \o pad
    BY <1>5
  <1> HIDE DEF front, known
  <1>7. /\ front \in Seq(Int) /\ Len(front) = 10
        /\ \A i \in 1 .. 4 : front[i] = head[i]
        /\ \A i \in 1 .. 6 : front[4 + i] = maxes[i]
    <2>1. /\ front \in Seq(Int) /\ Len(front) = Len(head) + Len(maxes)
          /\ \A i \in 1 .. Len(head) : front[i] = head[i]
          /\ \A i \in 1 .. Len(maxes) : front[Len(head) + i] = maxes[i]
      BY <1>2, <1>3, <1>6, Joined, Zenon
    <2>2. Len(head) = 4 /\ Len(maxes) = 6
      BY <1>2, <1>3
    <2> QED
      BY <2>1, <2>2
  <1>8. /\ known \in Seq(Int) /\ Len(known) = 13
        /\ \A i \in 1 .. 10 : known[i] = front[i]
        /\ \A i \in 1 .. 3 : known[10 + i] = f.shift[i]
    <2>1. /\ known \in Seq(Int) /\ Len(known) = Len(front) + Len(f.shift)
          /\ \A i \in 1 .. Len(front) : known[i] = front[i]
          /\ \A i \in 1 .. Len(f.shift) : known[Len(front) + i] = f.shift[i]
      <3>1. front \in Seq(Int) /\ f.shift \in Seq(Int)
        BY <1>4, <1>7
      <3>2. known = front \o f.shift
        BY <1>6
      <3> QED
        BY <3>1, <3>2, Joined, Zenon
    <2>2. Len(front) = 10 /\ Len(f.shift) = 3
      BY <1>4, <1>7
    <2> QED
      BY <2>1, <2>2
  <1>9. /\ b \in Seq(Int) /\ Len(b) = 16
        /\ \A i \in 1 .. 13 : b[i] = known[i]
        /\ \A i \in 1 .. 3 : b[13 + i] = pad[i]
    <2>1. /\ b \in Seq(Int) /\ Len(b) = Len(known) + Len(pad)
          /\ \A i \in 1 .. Len(known) : b[i] = known[i]
          /\ \A i \in 1 .. Len(pad) : b[Len(known) + i] = pad[i]
      <3>1. known \in Seq(Int) /\ pad \in Seq(Int)
        BY <1>4, <1>8
      <3>2. b = known \o pad
        BY <1>6
      <3> QED
        BY <3>1, <3>2, Joined, Zenon
    <2>2. Len(known) = 13 /\ Len(pad) = 3
      BY <1>4, <1>8
    <2> QED
      BY <2>1, <2>2
  <1>10. /\ b \in Seq(Int) /\ Len(b) = 16
         /\ \A i \in 1 .. 4 : b[i] = head[i]
         /\ \A i \in 1 .. 6 : b[4 + i] = maxes[i]
         /\ \A i \in 1 .. 3 : b[10 + i] = f.shift[i]
    <2>1. /\ \A i \in 1 .. 4 : i \in 1 .. 10 /\ i \in 1 .. 13
          /\ \A i \in 1 .. 6 : 4 + i \in 1 .. 10 /\ 4 + i \in 1 .. 13
          /\ \A i \in 1 .. 3 : 10 + i \in 1 .. 13
      OBVIOUS
    <2> QED
      BY <1>7, <1>8, <1>9, <2>1
  <1>11. /\ b[1] = f.bpp /\ b[2] = f.depth
         /\ b[3] = Flag(f.big) /\ b[4] = Flag(f.trueColour)
    BY <1>10, 1 \in 1 .. 4, 2 \in 1 .. 4, 3 \in 1 .. 4, 4 \in 1 .. 4 DEF head
  <1>12. ASSUME NEW c \in 1 .. 3
         PROVE  256 * b[3 + 2 * c] + b[4 + 2 * c] = f.max[c]
    <2>1. b[4 + (2 * c - 1)] = maxes[2 * c - 1] /\ b[4 + (2 * c)] = maxes[2 * c]
      BY <1>10
    <2>2. maxes[2 * c - 1] = f.max[c] \div 256 /\ maxes[2 * c] = f.max[c] % 256
      <3>1. CASE c = 1
        BY <3>1 DEF maxes
      <3>2. CASE c = 2
        BY <3>2 DEF maxes
      <3>3. CASE c = 3
        BY <3>3 DEF maxes
      <3> QED
        BY <3>1, <3>2, <3>3
    <2>3. 4 + (2 * c - 1) = 3 + 2 * c
      OBVIOUS
    <2>4. b[3 + 2 * c] = f.max[c] \div 256 /\ b[4 + 2 * c] = f.max[c] % 256
      BY <2>1, <2>2, <2>3
    <2>5. f.max[c] \in Nat
      BY <1>1
    <2> QED
      BY <2>4, <2>5
  <1>13. [c \in Channels |-> 256 * b[3 + 2 * c] + b[4 + 2 * c]] = f.max
    BY <1>1, <1>12 DEF Channels
  <1>14. SubSeq(b, 11, 13) = f.shift
    <2>1. /\ SubSeq(b, 11, 13) \in Seq(Int) /\ Len(SubSeq(b, 11, 13)) = 3
          /\ \A i \in 1 .. 3 : SubSeq(b, 11, 13)[i] = b[10 + i]
      <3>1. \A i \in 11 .. 13 : b[i] \in Int
        <4>1. \A i \in 11 .. 13 : i \in 1 .. Len(b)
          BY <1>10
        <4> QED
          BY <1>10, <4>1, ElementOfSeq
      <3>2. /\ SubSeq(b, 11, 13) \in Seq(Int)
            /\ Len(SubSeq(b, 11, 13)) = IF 11 <= 13 THEN 13 - 11 + 1 ELSE 0
            /\ \A i \in 1 .. 13 - 11 + 1 : SubSeq(b, 11, 13)[i] = b[11 + i - 1]
        BY <3>1, SubSeqProperties, 11 \in Int, 13 \in Int
      <3>3. 13 - 11 + 1 = 3 /\ \A i \in 1 .. 3 : 11 + i - 1 = 10 + i
        OBVIOUS
      <3> QED
        BY <3>2, <3>3
    <2>2. ASSUME NEW i \in 1 .. 3
          PROVE  SubSeq(b, 11, 13)[i] = f.shift[i]
      <3>1. SubSeq(b, 11, 13)[i] = b[10 + i] /\ b[10 + i] = f.shift[i]
        BY <1>10, <2>1
      <3> QED
        BY <3>1
    <2> QED
      BY <1>1, <2>1, <2>2
  <1>15. (b[3] # 0) = f.big /\ (b[4] # 0) = f.trueColour
    BY <1>1, <1>11 DEF Flag
  <1>16. DecodeFormat(b) = [bpp |-> f.bpp, depth |-> f.depth, big |-> f.big,
                      trueColour |-> f.trueColour, max |-> f.max, shift |-> f.shift]
    BY <1>11, <1>13, <1>14, <1>15 DEF DecodeFormat
  <1> QED
    BY <1>16, FormatsHoldNumbers DEF b

\* The bits of a pixel that a wire with these of its bytes carries.
Carried(f, kept, pixel) ==
    {d \in pixel : \E i \in kept : d \in 8 * Place(f, i) .. 8 * Place(f, i) + 7}

LEMMA Carries ==
    ASSUME NEW f \in PixelFormat, NEW pixel \in SUBSET (0 .. 31),
           NEW kept \in SUBSET (1 .. BytesPerPixel(f)),
           NEW wire, wire = [i \in 1 .. BytesPerPixel(f) |->
                               IF i \in kept THEN WritePixel(f, pixel)[i] ELSE {}]
    PROVE  ReadPixel(f, wire) = Carried(f, kept, pixel)
  <1> DEFINE n == BytesPerPixel(f)
  <1>1. n \in Nat
    BY FormatsHoldNumbers DEF BytesPerPixel
  <1>2. \A i \in 1 .. n : Place(f, i) \in Nat
    BY <1>1 DEF Place
  <1>3. \A i \in 1 .. n : wire[i] = IF i \in kept THEN ShiftRight(pixel, 8 * Place(f, i)) \cap 0 .. 7
                                                  ELSE {}
    BY DEF WritePixel
  <1>4. ASSUME NEW i \in 1 .. n
        PROVE  ShiftLeft(wire[i], 8 * Place(f, i)) =
                 IF i \in kept THEN {d \in pixel : d \in 8 * Place(f, i) .. 8 * Place(f, i) + 7} ELSE {}
    <2> DEFINE s == 8 * Place(f, i)
    <2>1. s \in Nat
      BY <1>2
    <2> HIDE DEF s
    <2>2. {d + s : d \in {e - s : e \in {g \in pixel : g >= s}} \cap 0 .. 7} \cap 0 .. 31
            = {d \in pixel : d \in s .. s + 7}
      <3>1. \A d \in pixel : d \in s .. s + 7 => d - s \in 0 .. 7 /\ (d - s) + s = d /\ d >= s
        BY <2>1
      <3>2. \A e \in pixel : e >= s /\ e - s \in 0 .. 7 => (e - s) + s = e /\ e \in s .. s + 7
        BY <2>1
      <3>3. \A x : x \in {e - s : e \in {g \in pixel : g >= s}} \cap 0 .. 7
                       <=> \E e \in pixel : e >= s /\ x = e - s /\ e - s \in 0 .. 7
        OBVIOUS
      <3> DEFINE low == {e - s : e \in {g \in pixel : g >= s}} \cap 0 .. 7
      <3> HIDE DEF low
      <3>4. \A x : x \in {d + s : d \in low} <=> x \in {d \in pixel : d \in s .. s + 7}
        <4>1. \A y \in low : \E e \in pixel : e >= s /\ y = e - s /\ e - s \in 0 .. 7
          BY <3>3 DEF low
        <4>2. \A y \in low : y + s \in pixel /\ y + s \in s .. s + 7
          <5> SUFFICES ASSUME NEW y \in low PROVE y + s \in pixel /\ y + s \in s .. s + 7
            OBVIOUS
          <5>1. PICK e \in pixel : e >= s /\ y = e - s /\ e - s \in 0 .. 7
            BY <4>1
          <5>2. y + s = e /\ e \in s .. s + 7
            BY <3>2, <5>1
          <5> QED
            BY <5>2
        <4>3. \A d \in pixel : d \in s .. s + 7 => d - s \in low /\ (d - s) + s = d
          BY <3>1, <3>3 DEF low
        <4> HIDE DEF low
        <4>4. \A x : (\E y \in low : x = y + s) => x \in pixel /\ x \in s .. s + 7
          BY <4>2
        <4>5. \A x : x \in pixel /\ x \in s .. s + 7 => \E y \in low : x = y + s
          BY <4>3
        <4> QED
          BY <4>4, <4>5, Zenon
      <3>5. {d + s : d \in low} = {d \in pixel : d \in s .. s + 7}
        BY <3>4
      <3> QED
        BY <3>5 DEF low
    <2>3. CASE i \in kept
      BY <1>3, <2>2, <2>3 DEF ShiftLeft, ShiftRight, s
    <2>4. CASE i \notin kept
      BY <1>3, <2>4 DEF ShiftLeft
    <2> QED
      BY <2>3, <2>4 DEF s
  <1>5. ReadPixel(f, wire) = UNION {ShiftLeft(wire[i], 8 * Place(f, i)) : i \in 1 .. n}
    BY DEF ReadPixel
  <1>6. ReadPixel(f, wire) =
          UNION {IF i \in kept THEN {d \in pixel : d \in 8 * Place(f, i) .. 8 * Place(f, i) + 7} ELSE {}
                   : i \in 1 .. n}
    BY <1>4, <1>5
  <1> QED
    BY <1>6 DEF Carried

\* Two pixels with the same bits in the channels are the same colour.
LEMMA SameColour ==
    ASSUME NEW f \in PixelFormat, NEW p \in SUBSET (0 .. 31), NEW q \in SUBSET (0 .. 31),
           \A c \in Channels : p \cap Channel(f, c) = q \cap Channel(f, c)
    PROVE  ToRgba(f, p) = ToRgba(f, q)
  <1>1. ASSUME NEW c \in Channels
        PROVE  ShiftRight(p, f.shift[c]) \cap Bits(f.max[c])
                 = ShiftRight(q, f.shift[c]) \cap Bits(f.max[c])
    <2> DEFINE s == f.shift[c]
               m == Bits(f.max[c])
    <2>1. s \in Nat /\ \A d \in m : d \in Nat
      BY FormatsHoldNumbers DEF Bits, Channels
    <2>2. Channel(f, c) = {d + s : d \in m} \cap 0 .. 31
      BY DEF Channel, ShiftLeft
    <2> HIDE DEF s, m
    <2>3. \A r \in SUBSET (0 .. 31) :
             {d - s : d \in {e \in r : e >= s}} \cap m
               = {d - s : d \in {e \in r \cap Channel(f, c) : e >= s}}
      <3> SUFFICES ASSUME NEW r \in SUBSET (0 .. 31)
                   PROVE  {d - s : d \in {e \in r : e >= s}} \cap m
                            = {d - s : d \in {e \in r \cap Channel(f, c) : e >= s}}
        OBVIOUS
      <3>1. \A e \in r : e >= s /\ e - s \in m => (e - s) + s = e /\ e \in Channel(f, c)
        BY <2>1, <2>2
      <3>2. \A e \in r \cap Channel(f, c) : e - s \in m
        <4> SUFFICES ASSUME NEW e \in r \cap Channel(f, c) PROVE e - s \in m
          OBVIOUS
        <4>1. PICK d \in m : e = d + s
          BY <2>2
        <4>2. e - s = d
          BY <2>1, <4>1
        <4> QED
          BY <4>2
      <3> QED
        BY <3>1, <3>2
    <2>4. p \cap Channel(f, c) = q \cap Channel(f, c)
      OBVIOUS
    <2> QED
      BY <2>3, <2>4 DEF ShiftRight, s, m
  <1>2. ASSUME NEW c \in Channels
        PROVE  Scale(ShiftRight(p, f.shift[c]), f.max[c]) = Scale(ShiftRight(q, f.shift[c]), f.max[c])
    <2> DEFINE P == ShiftRight(p, f.shift[c])
               Q == ShiftRight(q, f.shift[c])
    <2>1. P \cap Bits(f.max[c]) = Q \cap Bits(f.max[c])
      BY <1>1
    <2> HIDE DEF P, Q
    <2> QED
      BY <2>1 DEF Scale, P, Q
  <1> QED
    BY <1>2 DEF ToRgba

\* The byte that ZRLE leaves out has no bit of a channel.
LEMMA KeptHasTheChannels ==
    ASSUME NEW f \in PixelFormat, Sound(f), NEW pixel \in SUBSET (0 .. 31)
    PROVE  /\ CpixelOffset(f) \in {0, 1}
           /\ CpixelOffset(f) + CpixelBytes(f) <= BytesPerPixel(f)
           /\ BytesPerPixel(f) \in Nat /\ CpixelBytes(f) \in Nat
           /\ \A c \in Channels :
                Carried(f, CpixelOffset(f) + 1 .. CpixelOffset(f) + CpixelBytes(f), pixel)
                    \cap Channel(f, c)
                  = Carried(f, 1 .. BytesPerPixel(f), pixel) \cap Channel(f, c)
  <1>1. BytesPerPixel(f) \in Nat
    BY FormatsHoldNumbers DEF BytesPerPixel
  <1>2. CASE CpixelBytes(f) = BytesPerPixel(f)
    <2>1. CpixelOffset(f) = 0
      BY <1>2 DEF CpixelOffset
    <2>2. CpixelOffset(f) + 1 .. CpixelOffset(f) + CpixelBytes(f) = 1 .. BytesPerPixel(f)
      BY <1>1, <1>2, <2>1
    <2> QED
      BY <1>1, <1>2, <2>1, <2>2
  <1>3. CASE CpixelBytes(f) # BytesPerPixel(f)
    <2>1. f.bpp = 32 /\ CpixelBytes(f) = 3
      BY <1>3 DEF CpixelBytes
    <2>2. BytesPerPixel(f) = 4
      BY <2>1 DEF BytesPerPixel
    <2>3. CpixelOffset(f) = IF f.big = DropsHighByte(f) THEN 1 ELSE 0
      BY <1>3 DEF CpixelOffset
    <2> DEFINE safe == IF DropsHighByte(f) THEN 0 .. 23 ELSE 8 .. 31
               kept == CpixelOffset(f) + 1 .. CpixelOffset(f) + CpixelBytes(f)
    <2>4. \A c \in Channels : Channel(f, c) \subseteq safe
      BY <1>3 DEF Sound
    <2>5. f.big \in BOOLEAN /\ DropsHighByte(f) \in BOOLEAN
      BY FormatsHoldNumbers DEF DropsHighByte
    <2>6. \A i \in 1 .. 4 : Place(f, i) = IF f.big THEN 4 - i ELSE i - 1
      BY <2>2 DEF Place
    <2>7. kept \subseteq 1 .. 4
      BY <2>1, <2>3
    <2>8. \A d \in safe : (\E i \in 1 .. 4 : d \in 8 * Place(f, i) .. 8 * Place(f, i) + 7) =>
                             \E i \in kept : d \in 8 * Place(f, i) .. 8 * Place(f, i) + 7
      <3>1. CASE f.big /\ DropsHighByte(f)
        BY <2>1, <2>3, <2>6, <3>1
      <3>2. CASE f.big /\ ~DropsHighByte(f)
        <4>1. CpixelOffset(f) = 0
          BY <2>3, <2>5, <3>2
        <4> QED
          BY <2>1, <2>6, <3>2, <4>1
      <3>3. CASE ~f.big /\ DropsHighByte(f)
        <4>1. CpixelOffset(f) = 0
          BY <2>3, <2>5, <3>3
        <4> QED
          BY <2>1, <2>6, <3>3, <4>1
      <3>4. CASE ~f.big /\ ~DropsHighByte(f)
        <4>1. CpixelOffset(f) = 1
          BY <2>3, <2>5, <3>4
        <4> QED
          BY <2>1, <2>6, <3>4, <4>1
      <3> QED
        BY <2>5, <3>1, <3>2, <3>3, <3>4
    <2> HIDE DEF safe, kept
    <2>9. \A c \in Channels : Carried(f, kept, pixel) \cap Channel(f, c)
                                = Carried(f, 1 .. 4, pixel) \cap Channel(f, c)
      BY <2>4, <2>7, <2>8 DEF Carried
    <2> QED
      BY <1>1, <2>1, <2>2, <2>3, <2>9 DEF kept
  <1> QED
    BY <1>2, <1>3

LEMMA CpixelIsThePixel ==
    ASSUME NEW f \in PixelFormat, Sound(f), NEW pixel \in SUBSET (0 .. 31)
    PROVE  ToRgba(f, ReadPixel(f, WritePixel(f, pixel)))
             = ReadCpixel(f, WriteCpixel(f, pixel))
  <1> DEFINE n == BytesPerPixel(f)
             o == CpixelOffset(f)
             m == CpixelBytes(f)
             kept == o + 1 .. o + m
             full == WritePixel(f, pixel)
             bytes == WriteCpixel(f, pixel)
             wire == [i \in 1 .. n |-> IF i \in kept THEN bytes[i - o] ELSE {}]
  <1>1. o \in {0, 1} /\ o + m <= n /\ n \in Nat /\ m \in Nat
    BY KeptHasTheChannels
  <1>2. full = [i \in 1 .. n |-> full[i]] /\ full \in Seq(SUBSET (0 .. 7))
    BY <1>1 DEF WritePixel
  <1>3. bytes = SubSeq(full, o + 1, o + m)
    BY DEF WriteCpixel
  <1> HIDE DEF n, o, m, full, bytes
  <1>4. \A i \in kept : bytes[i - o] = full[i]
    <2>1. Len(full) = n
      BY <1>1, <1>2
    <2>2. \A j \in 1 .. m : bytes[j] = full[o + j]
      BY <1>1, <1>2, <1>3, <2>1
    <2>3. \A i \in kept : i - o \in 1 .. m /\ o + (i - o) = i
      BY <1>1
    <2> QED
      BY <2>2, <2>3
  <1>5. wire = [i \in 1 .. n |-> IF i \in kept THEN full[i] ELSE {}]
    BY <1>4
  <1>6. full = [i \in 1 .. n |-> IF i \in 1 .. n THEN full[i] ELSE {}]
    BY <1>2
  <1>7. kept \subseteq 1 .. n
    BY <1>1
  <1> HIDE DEF kept, wire
  <1>8. ReadPixel(f, wire) = Carried(f, kept, pixel)
    BY <1>5, <1>7, Carries DEF n, full
  <1>9. ReadPixel(f, full) = Carried(f, 1 .. n, pixel)
    BY <1>6, Carries DEF n, full
  <1>10. \A c \in Channels : Carried(f, kept, pixel) \cap Channel(f, c)
                               = Carried(f, 1 .. n, pixel) \cap Channel(f, c)
    BY KeptHasTheChannels DEF kept, n, o, m
  <1>11. ToRgba(f, Carried(f, kept, pixel)) = ToRgba(f, Carried(f, 1 .. n, pixel))
    <2>1. Carried(f, kept, pixel) \in SUBSET (0 .. 31) /\ Carried(f, 1 .. n, pixel) \in SUBSET (0 .. 31)
      BY DEF Carried
    <2> QED
      BY <1>10, <2>1, SameColour
  <1>12. ReadCpixel(f, bytes) = ToRgba(f, ReadPixel(f, wire))
    BY DEF ReadCpixel, wire, kept, n, o, m
  <1> QED
    BY <1>8, <1>9, <1>11, <1>12 DEF full, bytes

\* What the desktop sends of a colour, and the two ways it comes.
Sent(f, colour) ==
    LET server == DecodeFormat(EncodeFormat(f))
        pixel == FromRgba(server, colour)
        wire == WritePixel(server, pixel)
    IN  [sent |-> pixel, raw |-> ToRgba(f, ReadPixel(f, wire)),
         zrle |-> ReadCpixel(f, WriteCpixel(server, pixel))]

Coloured ==
    /\ asked \in Questions
    /\ Answered("colour") => answer = Sent(asked.format, asked.colour)

LEMMA ColouredAlways == ConvSpec => []Coloured
  <1>1. ConvInit => Coloured
    BY DEF ConvInit, Answered, Coloured
  <1>2. Coloured /\ [ConvNext]_convVars => Coloured'
    BY DEF ConvNext, Colour, Frame, Way, Answered, convVars, Coloured, Sent
  <1> QED
    BY <1>1, <1>2, PTL DEF ConvSpec

LEMMA SentIs ==
    ASSUME Coloured, Answered("colour"), NEW f, f = asked.format,
           NEW pixel, pixel = FromRgba(f, asked.colour)
    PROVE  /\ f \in PixelFormat /\ asked.colour \in [Channels -> U8]
           /\ pixel \in SUBSET (0 .. 31)
           /\ answer.sent = pixel
           /\ answer.raw = ToRgba(f, ReadPixel(f, WritePixel(f, pixel)))
           /\ answer.zrle = ReadCpixel(f, WriteCpixel(f, pixel))
  <1>1. f \in PixelFormat /\ asked.colour \in [Channels -> U8]
    BY ConversionsAssumption DEF ConversionsAssumption, Questions, Answered, Coloured
  <1>2. DecodeFormat(EncodeFormat(f)) = f
    BY <1>1, FormatTold
  <1>3. pixel \in SUBSET (0 .. 31)
    BY DEF FromRgba, ShiftLeft
  <1>4. answer = Sent(f, asked.colour)
    BY DEF Coloured
  <1> QED
    BY <1>1, <1>2, <1>3, <1>4 DEF Sent

\* For every format a server may have: the desktop decodes the format bolide told
\* it, and a colour sent by ZRLE, a byte short, is the colour sent by Raw
\* (zrle.rs:286-303).
THEOREM RawAndZrleAgree == ConvSpec => []ZrleIsRaw
  <1>1. Coloured => ZrleIsRaw
    <2> SUFFICES ASSUME Coloured, Answered("colour"), Sound(asked.format)
                 PROVE  answer.zrle = answer.raw
      BY DEF ZrleIsRaw
    <2> DEFINE f == asked.format
               pixel == FromRgba(f, asked.colour)
    <2>1. /\ f \in PixelFormat /\ pixel \in SUBSET (0 .. 31)
          /\ answer.raw = ToRgba(f, ReadPixel(f, WritePixel(f, pixel)))
          /\ answer.zrle = ReadCpixel(f, WriteCpixel(f, pixel))
      BY SentIs
    <2> HIDE DEF f, pixel
    <2>2. Sound(f)
      BY DEF f
    <2> QED
      BY <2>1, <2>2, CpixelIsThePixel
  <1> QED
    BY <1>1, ColouredAlways, PTL

-----------------------------------------------------------------------------
(* A colour, there and back *)

Bit(S, b) == IF b \in S THEN 1 ELSE 0

LEMMA Weights ==
    /\ Weight[1] = 1 /\ Weight[2] = 2 /\ Weight[3] = 4 /\ Weight[4] = 8
    /\ Weight[5] = 16 /\ Weight[6] = 32 /\ Weight[7] = 64 /\ Weight[8] = 128
    /\ \A b \in 0 .. 15 : Weight[b + 1] \in Nat \ {0}
    /\ \A b \in 8 .. 15 : Weight[b + 1] >= 256
  <1>1. /\ Weight[1] = 1 /\ Weight[2] = 2 /\ Weight[3] = 4 /\ Weight[4] = 8
        /\ Weight[5] = 16 /\ Weight[6] = 32 /\ Weight[7] = 64 /\ Weight[8] = 128
    BY DEF Weight
  <1>2. /\ Weight[9] = 256 /\ Weight[10] = 512 /\ Weight[11] = 1024 /\ Weight[12] = 2048
        /\ Weight[13] = 4096 /\ Weight[14] = 8192 /\ Weight[15] = 16384 /\ Weight[16] = 32768
    BY DEF Weight
  <1>3. \A b \in 0 .. 15 : b + 1 \in {1, 2, 3, 4, 5, 6, 7, 8} \/ b + 1 \in {9, 10, 11, 12, 13, 14, 15, 16}
    OBVIOUS
  <1>4. \A i \in {1, 2, 3, 4, 5, 6, 7, 8} : Weight[i] \in Nat \ {0}
    BY <1>1
  <1>5. \A i \in {9, 10, 11, 12, 13, 14, 15, 16} : Weight[i] \in Nat \ {0} /\ Weight[i] >= 256
    BY <1>2
  <1>6. \A b \in 8 .. 15 : b + 1 \in {9, 10, 11, 12, 13, 14, 15, 16}
    OBVIOUS
  <1> QED
    BY <1>1, <1>3, <1>4, <1>5, <1>6

LEMMA ByteValue ==
    ASSUME NEW S \in SUBSET (0 .. 7)
    PROVE  Value(S) = Bit(S, 0) + 2 * Bit(S, 1) + 4 * Bit(S, 2) + 8 * Bit(S, 3)
                        + 16 * Bit(S, 4) + 32 * Bit(S, 5) + 64 * Bit(S, 6) + 128 * Bit(S, 7)
  <1>1. /\ 8 \notin S /\ 9 \notin S /\ 10 \notin S /\ 11 \notin S
        /\ 12 \notin S /\ 13 \notin S /\ 14 \notin S /\ 15 \notin S
    OBVIOUS
  <1>2. /\ 0 + 1 = 1 /\ 1 + 1 = 2 /\ 2 + 1 = 3 /\ 3 + 1 = 4 /\ 4 + 1 = 5 /\ 5 + 1 = 6
        /\ 6 + 1 = 7 /\ 7 + 1 = 8
    OBVIOUS
  <1> DEFINE of(b) == IF b \in S THEN Weight[b + 1] ELSE 0
  <1>3. /\ of(0) = Bit(S, 0) /\ of(1) = 2 * Bit(S, 1) /\ of(2) = 4 * Bit(S, 2)
        /\ of(3) = 8 * Bit(S, 3) /\ of(4) = 16 * Bit(S, 4) /\ of(5) = 32 * Bit(S, 5)
        /\ of(6) = 64 * Bit(S, 6) /\ of(7) = 128 * Bit(S, 7)
    BY <1>2, Weights DEF Bit
  <1>4. /\ of(8) = 0 /\ of(9) = 0 /\ of(10) = 0 /\ of(11) = 0
        /\ of(12) = 0 /\ of(13) = 0 /\ of(14) = 0 /\ of(15) = 0
    BY <1>1
  <1>5. Value(S) = of(0) + of(1) + of(2) + of(3) + of(4) + of(5) + of(6) + of(7) + of(8) + of(9)
                     + of(10) + of(11) + of(12) + of(13) + of(14) + of(15)
    BY DEF Value
  <1>6. \A b : Bit(S, b) \in 0 .. 1
    BY DEF Bit
  <1> HIDE DEF of
  <1> QED
    BY <1>3, <1>4, <1>5, <1>6

\* The bits of a byte, as it is halved again and again.
LEMMA ByteBits ==
    ASSUME NEW v \in 0 .. 255
    PROVE  /\ Bits(v) \in SUBSET (0 .. 7)
           /\ Bit(Bits(v), 0) = v % 2 /\ Bit(Bits(v), 1) = (v \div 2) % 2
           /\ Bit(Bits(v), 2) = (v \div 4) % 2 /\ Bit(Bits(v), 3) = (v \div 8) % 2
           /\ Bit(Bits(v), 4) = (v \div 16) % 2 /\ Bit(Bits(v), 5) = (v \div 32) % 2
           /\ Bit(Bits(v), 6) = (v \div 64) % 2 /\ Bit(Bits(v), 7) = (v \div 128) % 2
  <1>1. ASSUME NEW b \in 8 .. 15 PROVE b \notin Bits(v)
    <2>1. Weight[b + 1] \in Nat \ {0} /\ Weight[b + 1] >= 256
      BY Weights
    <2>2. v \div Weight[b + 1] = 0
      <3> DEFINE m == Weight[b + 1]
      <3>1. m \in Nat /\ m > v /\ v \in Nat
        BY <2>1
      <3> HIDE DEF m
      <3>2. v \div m = 0
        BY <3>1
      <3> QED
        BY <3>2 DEF m
    <2>3. 0 % 2 # 1
      OBVIOUS
    <2> QED
      BY <2>2, <2>3 DEF Bits
  <1>2. Bits(v) \in SUBSET (0 .. 7)
    BY <1>1 DEF Bits
  <1>3. /\ 0 \in Bits(v) <=> (v \div 1) % 2 = 1
        /\ 1 \in Bits(v) <=> (v \div 2) % 2 = 1
        /\ 2 \in Bits(v) <=> (v \div 4) % 2 = 1
        /\ 3 \in Bits(v) <=> (v \div 8) % 2 = 1
        /\ 4 \in Bits(v) <=> (v \div 16) % 2 = 1
        /\ 5 \in Bits(v) <=> (v \div 32) % 2 = 1
        /\ 6 \in Bits(v) <=> (v \div 64) % 2 = 1
        /\ 7 \in Bits(v) <=> (v \div 128) % 2 = 1
    <2>1. \A b \in 0 .. 15 : b \in Bits(v) <=> (v \div Weight[b + 1]) % 2 = 1
      BY DEF Bits
    <2>2. /\ 0 + 1 = 1 /\ 1 + 1 = 2 /\ 2 + 1 = 3 /\ 3 + 1 = 4 /\ 4 + 1 = 5 /\ 5 + 1 = 6
          /\ 6 + 1 = 7 /\ 7 + 1 = 8
          /\ 0 \in 0 .. 15 /\ 1 \in 0 .. 15 /\ 2 \in 0 .. 15 /\ 3 \in 0 .. 15
          /\ 4 \in 0 .. 15 /\ 5 \in 0 .. 15 /\ 6 \in 0 .. 15 /\ 7 \in 0 .. 15
      OBVIOUS
    <2>3. /\ 0 \in Bits(v) <=> (v \div Weight[0 + 1]) % 2 = 1
          /\ 1 \in Bits(v) <=> (v \div Weight[1 + 1]) % 2 = 1
          /\ 2 \in Bits(v) <=> (v \div Weight[2 + 1]) % 2 = 1
          /\ 3 \in Bits(v) <=> (v \div Weight[3 + 1]) % 2 = 1
          /\ 4 \in Bits(v) <=> (v \div Weight[4 + 1]) % 2 = 1
          /\ 5 \in Bits(v) <=> (v \div Weight[5 + 1]) % 2 = 1
          /\ 6 \in Bits(v) <=> (v \div Weight[6 + 1]) % 2 = 1
          /\ 7 \in Bits(v) <=> (v \div Weight[7 + 1]) % 2 = 1
      BY <2>1, <2>2
    <2> QED
      BY <2>2, <2>3, Weights
  <1>4. \A x \in Nat : x % 2 = 1 \/ x % 2 = 0
    OBVIOUS
  <1>5. /\ v \div 1 = v /\ v \in Nat /\ v \div 2 \in Nat /\ v \div 4 \in Nat /\ v \div 8 \in Nat
        /\ v \div 16 \in Nat /\ v \div 32 \in Nat /\ v \div 64 \in Nat /\ v \div 128 \in Nat
    OBVIOUS
  <1> QED
    BY <1>2, <1>3, <1>4, <1>5 DEF Bit

LEMMA HalvedAgain ==
    ASSUME NEW v \in 0 .. 255
    PROVE  v = (v % 2) + 2 * ((v \div 2) % 2) + 4 * ((v \div 4) % 2) + 8 * ((v \div 8) % 2)
                 + 16 * ((v \div 16) % 2) + 32 * ((v \div 32) % 2) + 64 * ((v \div 64) % 2)
                 + 128 * ((v \div 128) % 2)
  OBVIOUS

LEMMA ValueOfBits ==
    ASSUME NEW v \in 0 .. 255
    PROVE  Value(Bits(v)) = v
  <1>1. Bits(v) \in SUBSET (0 .. 7)
    BY ByteBits
  <1> QED
    BY <1>1, ByteBits, ByteValue, HalvedAgain

LEMMA BitsOfValue ==
    ASSUME NEW S \in SUBSET (0 .. 7)
    PROVE  Value(S) \in 0 .. 255 /\ Bits(Value(S)) = S
  <1> DEFINE v == Value(S)
             a == Bit(S, 0)
             b == Bit(S, 1)
             c == Bit(S, 2)
             d == Bit(S, 3)
             e == Bit(S, 4)
             f == Bit(S, 5)
             g == Bit(S, 6)
             h == Bit(S, 7)
  <1>1. v = a + 2 * b + 4 * c + 8 * d + 16 * e + 32 * f + 64 * g + 128 * h
    BY ByteValue
  <1>2. /\ a \in 0 .. 1 /\ b \in 0 .. 1 /\ c \in 0 .. 1 /\ d \in 0 .. 1
        /\ e \in 0 .. 1 /\ f \in 0 .. 1 /\ g \in 0 .. 1 /\ h \in 0 .. 1
    BY DEF Bit
  <1> HIDE DEF v, a, b, c, d, e, f, g, h
  <1>3. v \in 0 .. 255
    BY <1>1, <1>2
  <1>4. /\ v % 2 = a /\ (v \div 2) % 2 = b /\ (v \div 4) % 2 = c /\ (v \div 8) % 2 = d
        /\ (v \div 16) % 2 = e /\ (v \div 32) % 2 = f /\ (v \div 64) % 2 = g /\ (v \div 128) % 2 = h
    BY <1>1, <1>2
  <1>5. /\ Bits(v) \in SUBSET (0 .. 7)
        /\ Bit(Bits(v), 0) = a /\ Bit(Bits(v), 1) = b /\ Bit(Bits(v), 2) = c /\ Bit(Bits(v), 3) = d
        /\ Bit(Bits(v), 4) = e /\ Bit(Bits(v), 5) = f /\ Bit(Bits(v), 6) = g /\ Bit(Bits(v), 7) = h
    <2>1. /\ Bits(v) \in SUBSET (0 .. 7)
          /\ Bit(Bits(v), 0) = v % 2 /\ Bit(Bits(v), 1) = (v \div 2) % 2
          /\ Bit(Bits(v), 2) = (v \div 4) % 2 /\ Bit(Bits(v), 3) = (v \div 8) % 2
          /\ Bit(Bits(v), 4) = (v \div 16) % 2 /\ Bit(Bits(v), 5) = (v \div 32) % 2
          /\ Bit(Bits(v), 6) = (v \div 64) % 2 /\ Bit(Bits(v), 7) = (v \div 128) % 2
      BY <1>3, ByteBits
    <2> QED
      BY <1>4, <2>1
  <1>6. /\ (0 \in Bits(v) <=> 0 \in S) /\ (1 \in Bits(v) <=> 1 \in S)
        /\ (2 \in Bits(v) <=> 2 \in S) /\ (3 \in Bits(v) <=> 3 \in S)
        /\ (4 \in Bits(v) <=> 4 \in S) /\ (5 \in Bits(v) <=> 5 \in S)
        /\ (6 \in Bits(v) <=> 6 \in S) /\ (7 \in Bits(v) <=> 7 \in S)
    BY <1>5 DEF Bit, a, b, c, d, e, f, g, h
  <1>7. Bits(v) = S
    <2>1. \A x \in 0 .. 7 : x \in {0, 1, 2, 3, 4, 5, 6, 7}
      OBVIOUS
    <2>2. \A x \in 0 .. 7 : x \in Bits(v) <=> x \in S
      BY <1>6, <2>1
    <2> QED
      BY <1>5, <2>2
  <1> QED
    BY <1>3, <1>7 DEF v

\* A number of a channel, scaled to a byte and back.
LEMMA ScaledBack ==
    ASSUME NEW max \in 1 .. 255, NEW n \in 0 .. max,
           NEW level, level = ((n * 255 + max \div 2) \div max) % 256
    PROVE  level \in 0 .. 255 /\ (level * max + 127) \div 255 = n
  <1> DEFINE h == max \div 2
             x == n * 255 + h
             s == x \div max
  <1>1. h \in Nat /\ 2 * h <= max /\ max <= 2 * h + 1
    OBVIOUS
  <1>2. x \in Nat /\ x < max * (255 + 1)
    BY <1>1
  <1>0. s = x \div max
    OBVIOUS
  <1> HIDE DEF h, x, s
  <1>3. s \in Nat /\ max * s <= x /\ x < max * s + max /\ s <= 255
    BY <1>2, <1>0, Division, DivisionBelow
  <1>4. s % 256 = s
    BY <1>3
  <1>5. max * s \in Nat /\ s * max = max * s
    BY <1>3
  <1>6. 255 * n <= s * max + 127 /\ s * max + 127 < 255 * (n + 1)
    BY <1>1, <1>3, <1>5 DEF x
  <1>7. (s * max + 127) \div 255 = n
    BY <1>5, <1>6, DivisionExact
  <1>8. level = s
    BY <1>4 DEF s, x, h
  <1> QED
    BY <1>3, <1>7, <1>8

LEMMA AllOfAByte == Bits(255) = 0 .. 7 /\ Bits(0) = {}
  <1>1. Bits(Value(0 .. 7)) = 0 .. 7 /\ Bits(Value({})) = {}
    BY BitsOfValue
  <1>2. Value(0 .. 7) = 255 /\ Value({}) = 0
    BY ByteValue DEF Bit
  <1> QED
    BY <1>1, <1>2

\* No more bits, no greater number.
LEMMA ValueBelow ==
    ASSUME NEW max \in 0 .. 255, NEW S \in SUBSET Bits(max)
    PROVE  S \in SUBSET (0 .. 7) /\ Value(S) \in 0 .. max
  <1>1. Bits(max) \in SUBSET (0 .. 7)
    BY ByteBits
  <1>2. Value(S) <= Value(Bits(max))
    BY <1>1, ByteValue DEF Bit
  <1> QED
    BY <1>1, <1>2, ValueOfBits, BitsOfValue

LEMMA UnscaleInside ==
    ASSUME NEW max \in Nat, NEW v, max = 255 => v \in 0 .. 255
    PROVE  Unscale(v, max) \in SUBSET Bits(max)
  <1>1. CASE max = 255
    BY <1>1, AllOfAByte, ByteBits DEF Unscale
  <1>2. CASE max = 0
    BY <1>2 DEF Unscale
  <1>3. CASE max # 0 /\ max # 255
    BY <1>3 DEF Unscale
  <1> QED
    BY <1>1, <1>2, <1>3

LEMMA ScaleAndBack ==
    ASSUME NEW max \in 0 .. 255, NEW raw
    PROVE  LET own == raw \cap Bits(max) IN
           /\ Scale(raw, max) \in 0 .. 255
           /\ Unscale(Scale(raw, max), max) = own
           /\ max = 255 => Scale(raw, max) = Value(own)
  <1> DEFINE own == raw \cap Bits(max)
             n == Value(own)
  <1>1. own \in SUBSET (0 .. 7) /\ n \in 0 .. max /\ own \subseteq Bits(max)
    BY ValueBelow
  <1>2. Bits(n) = own /\ n \in 0 .. 255
    BY <1>1, BitsOfValue
  <1> HIDE DEF own
  <1>3. CASE max = 0
    <2>1. Scale(raw, max) = 0 /\ Unscale(Scale(raw, max), max) = {}
      BY <1>3 DEF Scale, Unscale
    <2>2. own = {}
      BY <1>1, <1>3, AllOfAByte
    <2> QED
      BY <1>3, <2>1, <2>2 DEF own
  <1>4. CASE max = 255
    <2>1. Scale(raw, max) = n
      BY <1>4 DEF Scale, own
    <2>2. Unscale(n, max) = Bits(n)
      BY <1>4 DEF Unscale
    <2> QED
      BY <1>2, <2>1, <2>2 DEF own
  <1>5. CASE max # 0 /\ max # 255
    <2> DEFINE s == ((n * 255 + max \div 2) \div max) % 256
    <2>1. Scale(raw, max) = s
      BY <1>5 DEF Scale, own
    <2>0. s = ((n * 255 + max \div 2) \div max) % 256
      OBVIOUS
    <2> HIDE DEF n, s
    <2>2. s \in 0 .. 255 /\ (s * max + 127) \div 255 = n
      <3>1. max \in 1 .. 255 /\ n \in 0 .. max
        BY <1>1, <1>5
      <3>2. \A k \in 0 .. max : \A l : l = ((k * 255 + max \div 2) \div max) % 256 =>
                                     l \in 0 .. 255 /\ (l * max + 127) \div 255 = k
        BY <3>1, ScaledBack
      <3> QED
        BY <2>0, <3>1, <3>2
    <2>3. Unscale(s, max) = Bits((s * max + 127) \div 255) \cap Bits(max)
      BY <1>5 DEF Unscale
    <2>4. Unscale(s, max) = own
      BY <1>1, <1>2, <2>2, <2>3 DEF n
    <2> QED
      BY <1>5, <2>1, <2>2, <2>4 DEF own
  <1> QED
    BY <1>3, <1>4, <1>5

\* What a pixel is made of, by channel, can be told apart.
LEMMA ChannelsApart ==
    ASSUME NEW f \in PixelFormat, Sound(f), NEW colour,
           \A c \in Channels : f.max[c] = 255 => colour[c] \in 0 .. 255,
           NEW k \in Channels
    PROVE  /\ FromRgba(f, colour) \in SUBSET (0 .. f.bpp - 1)
           /\ FromRgba(f, colour) \cap Channel(f, k)
                = ShiftLeft(Unscale(colour[k], f.max[k]), f.shift[k])
           /\ ShiftRight(FromRgba(f, colour), f.shift[k]) \cap Bits(f.max[k])
                = Unscale(colour[k], f.max[k])
  <1> DEFINE pixel == FromRgba(f, colour)
             own == [c \in Channels |-> Unscale(colour[c], f.max[c])]
  <1>a. \A c \in Channels : own[c] = Unscale(colour[c], f.max[c])
    OBVIOUS
  <1>b. pixel = UNION {ShiftLeft(own[c], f.shift[c]) : c \in Channels}
    BY DEF FromRgba
  <1>c. \A c \in Channels : own[c] \in SUBSET Bits(f.max[c])
    <2>1. \A c \in Channels : f.max[c] \in Nat
      BY FormatsHoldNumbers DEF Channels
    <2> QED
      BY <1>a, <2>1, UnscaleInside
  <1> HIDE DEF pixel, own
  <1>1. /\ f.bpp \in 1 .. 32
        /\ \A c \in Channels : f.shift[c] \in Nat
        /\ \A c \in Channels : \A b \in Bits(f.max[c]) :
              b \in Nat /\ b + f.shift[c] \in 0 .. f.bpp - 1 /\ b + f.shift[c] \in 0 .. 31
    <2>1. \A c \in Channels : f.shift[c] \in Nat
      BY FormatsHoldNumbers DEF Channels
    <2>2. \A n : \A b \in Bits(n) : b \in Nat
      BY DEF Bits
    <2> QED
      BY <2>1, <2>2 DEF Sound
  <1>2. ASSUME NEW c \in Channels, NEW S \in SUBSET Bits(f.max[c])
        PROVE  ShiftLeft(S, f.shift[c]) = {b + f.shift[c] : b \in S}
    BY <1>1 DEF ShiftLeft
  <1>3. \A c \in Channels : /\ ShiftLeft(own[c], f.shift[c]) = {b + f.shift[c] : b \in own[c]}
                            /\ Channel(f, c) = {b + f.shift[c] : b \in Bits(f.max[c])}
    BY <1>c, <1>2 DEF Channel
  <1>4. \A c \in Channels : ShiftLeft(own[c], f.shift[c]) \subseteq Channel(f, c)
    BY <1>c, <1>3
  <1>5. pixel \in SUBSET (0 .. f.bpp - 1)
    <2>1. \A c \in Channels : Channel(f, c) \subseteq 0 .. f.bpp - 1
      BY <1>1, <1>3
    <2> QED
      BY <1>b, <1>4, <2>1
  <1>6. pixel \cap Channel(f, k) = ShiftLeft(own[k], f.shift[k])
    <2>1. \A c \in Channels : c # k => Channel(f, c) \cap Channel(f, k) = {}
      BY DEF Sound
    <2>2. \A x : x \in pixel <=> \E c \in Channels : x \in ShiftLeft(own[c], f.shift[c])
      BY <1>b
    <2> QED
      BY <1>4, <2>1, <2>2
  <1>7. ShiftRight(pixel, f.shift[k]) \cap Bits(f.max[k]) = own[k]
    <2> DEFINE s == f.shift[k]
    <2>1. s \in Nat /\ own[k] \subseteq Bits(f.max[k]) /\ \A b \in Bits(f.max[k]) : b \in Nat
      BY <1>c, <1>1
    <2>2. \A x : x \in pixel /\ x \in Channel(f, k) <=> \E b \in own[k] : x = b + s
      BY <1>3, <1>6
    <2>3. \A b \in Bits(f.max[k]) : b + s \in Channel(f, k)
      BY <1>3
    <2>4. \A x : x \in ShiftRight(pixel, s) <=> \E e \in pixel : e >= s /\ x = e - s
      BY DEF ShiftRight
    <2>5. \A e \in pixel : e \in Nat
      BY <1>1, <1>5
    <2> HIDE DEF s
    <2>6. ASSUME NEW x \in own[k] PROVE x \in ShiftRight(pixel, s) /\ x \in Bits(f.max[k])
      <3>1. x \in Nat /\ x \in Bits(f.max[k])
        BY <2>1
      <3>2. x + s \in pixel
        BY <2>2
      <3>3. x + s >= s /\ x = (x + s) - s
        BY <2>1, <3>1
      <3> QED
        BY <2>4, <3>1, <3>2, <3>3
    <2>7. ASSUME NEW x \in Bits(f.max[k]), x \in ShiftRight(pixel, s) PROVE x \in own[k]
      <3>1. PICK e \in pixel : e >= s /\ x = e - s
        BY <2>4, <2>7
      <3>2. e = x + s
        BY <2>1, <2>5, <3>1
      <3>3. e \in Channel(f, k)
        BY <2>3, <3>2
      <3>4. PICK b \in own[k] : e = b + s
        BY <2>2, <3>3
      <3>5. b \in Nat /\ x \in Nat
        BY <2>1
      <3>6. b = x
        BY <2>1, <3>2, <3>4, <3>5
      <3> QED
        BY <3>4, <3>6
    <2>8. ShiftRight(pixel, s) \cap Bits(f.max[k]) = own[k]
      BY <2>6, <2>7
    <2> QED
      BY <2>8 DEF s
  <1> QED
    BY <1>a, <1>5, <1>6, <1>7 DEF pixel

\* The bytes of a pixel carry every bit of it.
LEMMA WireKeeps ==
    ASSUME NEW f \in PixelFormat, f.bpp \in {8, 16, 32}, NEW pixel \in SUBSET (0 .. f.bpp - 1)
    PROVE  ReadPixel(f, WritePixel(f, pixel)) = pixel
  <1> DEFINE n == BytesPerPixel(f)
             wire == WritePixel(f, pixel)
  <1>1. n \in {1, 2, 4} /\ f.bpp = 8 * n
    BY DEF BytesPerPixel
  <1>2. wire = [i \in 1 .. n |-> IF i \in 1 .. n THEN wire[i] ELSE {}]
    BY DEF WritePixel
  <1>3. pixel \in SUBSET (0 .. 31)
    BY <1>1
  <1> HIDE DEF n, wire
  <1>4. ReadPixel(f, wire) = Carried(f, 1 .. n, pixel)
    BY <1>2, <1>3, Carries DEF n, wire
  <1>5. ASSUME NEW d \in pixel
        PROVE  \E i \in 1 .. n : d \in 8 * Place(f, i) .. 8 * Place(f, i) + 7
    <2> DEFINE q == d \div 8
    <2>1. d \in 0 .. 8 * n - 1 /\ n \in Nat
      BY <1>1
    <2>2. q \in 0 .. n - 1 /\ d \in 8 * q .. 8 * q + 7
      BY <2>1
    <2> HIDE DEF q
    <2>3. CASE f.big
      <3>1. n - q \in 1 .. n /\ Place(f, n - q) = q
        BY <2>1, <2>2, <2>3 DEF Place, n
      <3> QED
        BY <2>2, <3>1
    <2>4. CASE ~f.big
      <3>1. q + 1 \in 1 .. n /\ Place(f, q + 1) = q
        BY <2>1, <2>2, <2>4 DEF Place
      <3> QED
        BY <2>2, <3>1
    <2> QED
      BY <2>3, <2>4
  <1>6. Carried(f, 1 .. n, pixel) = pixel
    BY <1>5 DEF Carried
  <1> QED
    BY <1>4, <1>6 DEF wire

\* A colour in any format is what was sent where the format has eight bits for it,
\* and sent again it is the same pixel (proto.rs:215-221).
THEOREM ColoursSurvive == ConvSpec => []ColourSurvives
  <1>1. Coloured /\ ZrleIsRaw => ColourSurvives
    <2> SUFFICES ASSUME Coloured, Answered("colour"), Sound(asked.format), NEW k \in Channels
                 PROVE  /\ asked.format.max[k] = 255 => answer.raw[k] = asked.colour[k]
                        /\ asked.format.max[k] <= 255 =>
                              FromRgba(asked.format, answer.raw) \cap Channel(asked.format, k)
                                = answer.sent \cap Channel(asked.format, k)
      BY DEF ColourSurvives
    <2> DEFINE f == asked.format
               colour == asked.colour
               pixel == FromRgba(f, colour)
               raw == answer.raw
    <2>1. /\ f \in PixelFormat /\ colour \in [Channels -> U8] /\ answer.sent = pixel
          /\ raw = ToRgba(f, ReadPixel(f, WritePixel(f, pixel)))
      BY SentIs
    <2>2. Sound(f) /\ f.bpp \in {8, 16, 32}
      BY DEF Sound
    <2>3. \A c \in Channels : f.max[c] \in Nat /\ colour[c] \in 0 .. 255
      BY <2>1, FormatsHoldNumbers DEF Channels, U8
    <2> HIDE DEF f, colour, raw
    <2>4. /\ pixel \in SUBSET (0 .. f.bpp - 1)
          /\ \A c \in Channels :
                /\ pixel \cap Channel(f, c) = ShiftLeft(Unscale(colour[c], f.max[c]), f.shift[c])
                /\ ShiftRight(pixel, f.shift[c]) \cap Bits(f.max[c]) = Unscale(colour[c], f.max[c])
      BY <2>1, <2>2, <2>3, ChannelsApart
    <2> HIDE DEF pixel
    <2>5. raw = ToRgba(f, pixel)
      BY <2>1, <2>2, <2>4, WireKeeps
    <2>6. \A c \in Channels : raw[c] = Scale(ShiftRight(pixel, f.shift[c]), f.max[c])
      BY <2>5 DEF ToRgba
    <2>7. ASSUME NEW c \in Channels, f.max[c] <= 255
          PROVE  /\ raw[c] \in 0 .. 255
                 /\ Unscale(raw[c], f.max[c]) = Unscale(colour[c], f.max[c])
                 /\ f.max[c] = 255 => raw[c] = Value(Unscale(colour[c], f.max[c]))
      <3> DEFINE max == f.max[c]
                 bits == ShiftRight(pixel, f.shift[c])
      <3>1. max \in 0 .. 255
        BY <2>3, <2>7
      <3>2. raw[c] = Scale(bits, max) /\ bits \cap Bits(max) = Unscale(colour[c], max)
        BY <2>4, <2>6
      <3> HIDE DEF max, bits
      <3>3. /\ Scale(bits, max) \in 0 .. 255
            /\ Unscale(Scale(bits, max), max) = bits \cap Bits(max)
            /\ max = 255 => Scale(bits, max) = Value(bits \cap Bits(max))
        BY <3>1, ScaleAndBack
      <3> QED
        BY <3>2, <3>3 DEF max
    <2>8. FromRgba(f, raw) \cap Channel(f, k) = ShiftLeft(Unscale(raw[k], f.max[k]), f.shift[k])
      <3>1. \A c \in Channels : f.max[c] = 255 => raw[c] \in 0 .. 255
        BY <2>7
      <3> QED
        BY <2>1, <2>2, <3>1, ChannelsApart
    <2>9. f.max[k] <= 255 =>
             FromRgba(f, raw) \cap Channel(f, k) = answer.sent \cap Channel(f, k)
      BY <2>1, <2>4, <2>7, <2>8
    <2>10. f.max[k] = 255 => raw[k] = colour[k]
      <3> SUFFICES ASSUME f.max[k] = 255 PROVE raw[k] = colour[k]
        OBVIOUS
      <3>1. raw[k] = Value(Unscale(colour[k], 255))
        BY <2>7
      <3>2. Unscale(colour[k], 255) = Bits(colour[k])
        BY DEF Unscale
      <3> QED
        BY <2>3, <3>1, <3>2, ValueOfBits
    <2> QED
      BY <2>9, <2>10 DEF f, colour, raw
  <1> QED
    BY <1>1, ColouredAlways, RawAndZrleAgree, PTL
-----------------------------------------------------------------------------
(* The recorder *)

\* ffmpeg's stdin is open until the task waits for it, and ffmpeg has finished
\* only with nothing left to read.
Plumbing ==
    /\ open <=> pc \notin {"wait", "done", "gone"}
    /\ ffmpeg = "finished" => ~open /\ pipe = 0

\* What a frame under way has put into the pipe.
Under == IF pc = "write" THEN Chunks - left ELSE 0

\* Nothing that was written is lost on the way, unless ffmpeg is.
Accounts ==
    pc # "gone" /\ ~failed /\ ffmpeg # "failed"
        => eaten + pipe = frames * Chunks + Under

\* A recording that ends without an error has a frame, and a result is the last
\* thing of it.
HasFrame ==
    /\ once => pc \notin {"start", "select"}
    /\ pc \in {"finish", "wait", "done"} => frames >= 1 \/ failed
    /\ result = "frames" => pc = "done" /\ ~failed /\ ffmpeg = "finished"

\* The one frame begun with the end in the receiver is followed by none.
LastOne ==
    /\ late <= 1
    /\ pc \in {"start", "grab"} => late = 0
    /\ late = 1 /\ pc = "write" => told \/ once
    /\ late = 1 /\ pc = "select" => told /\ frames >= 1

IInv == TypeOK /\ Plumbing /\ Accounts /\ HasFrame /\ LastOne

USE RecorderAssumption DEF RecorderAssumption, Places

LEMMA FrameMore ==
    ASSUME NEW f \in Nat
    PROVE  (f + 1) * Chunks = f * Chunks + Chunks /\ f * Chunks \in Nat
  OBVIOUS

LEMMA Initially == Init => IInv
  <1> SUFFICES ASSUME Init PROVE IInv
    OBVIOUS
  <1> USE DEF Init
  <1>a. /\ left \in 0..Chunks /\ pipe \in 0..PipeCap /\ others \in 0..MaxEvents
        /\ taken \in 0..due /\ dueStop \in 0..due
    OBVIOUS
  <1>b. open \in BOOLEAN /\ once \in BOOLEAN /\ failed \in BOOLEAN /\ stop \in BOOLEAN
    OBVIOUS
  <1>c. desktop \in BOOLEAN /\ told \in BOOLEAN
    OBVIOUS
  <1>1. TypeOK
    BY <1>a, <1>b, <1>c DEF TypeOK
  <1>2. Plumbing
    BY DEF Plumbing
  <1>3. Accounts
    BY FrameMore DEF Accounts, Under
  <1>4. HasFrame /\ LastOne
    BY DEF HasFrame, LastOne
  <1> QED
    BY <1>1, <1>2, <1>3, <1>4 DEF IInv

LEMMA TaskSteps ==
    ASSUME IInv, Task
    PROVE  IInv'
  <1> USE DEF IInv, TypeOK, Plumbing, Accounts, Under, HasFrame, LastOne,
              Leave, clockVars, sessionVars, ffmpegVars, taskVars
  <1>1. CASE Subscribe
    BY <1>1 DEF Subscribe
  <1>2. CASE HearStop
    <2> USE <1>2 DEF HearStop
    <2>1. TypeOK'
      OBVIOUS
    <2>2. Plumbing'
      OBVIOUS
    <2>3. Accounts'
      OBVIOUS
    <2>4. HasFrame'
      OBVIOUS
    <2>5. LastOne'
      OBVIOUS
    <2> QED
      BY <2>1, <2>2, <2>3, <2>4, <2>5
  <1>3. CASE HearEvent
    BY <1>3 DEF HearEvent
  <1>4. CASE HearDisconnected
    <2> USE <1>4 DEF HearDisconnected
    <2>1. TypeOK'
      OBVIOUS
    <2>2. Plumbing'
      OBVIOUS
    <2>3. Accounts'
      OBVIOUS
    <2>4. HasFrame'
      OBVIOUS
    <2>5. LastOne'
      OBVIOUS
    <2> QED
      BY <2>1, <2>2, <2>3, <2>4, <2>5
  <1>5. CASE TakeTick
    BY <1>5 DEF TakeTick
  <1>6. CASE Grab
    BY <1>6 DEF Grab
  <1>7. CASE WritePiece
    BY <1>7 DEF WritePiece
  <1>8. CASE Wrote
    BY <1>8, FrameMore DEF Wrote
  <1>9. CASE WriteFails
    BY <1>9 DEF WriteFails
  <1>10. CASE Finish
    BY <1>10 DEF Finish
  <1>11. CASE Reap
    BY <1>11 DEF Reap
  <1> QED
    BY <1>1, <1>2, <1>3, <1>4, <1>5, <1>6, <1>7, <1>8, <1>9, <1>10, <1>11 DEF Task

LEMMA OtherSteps ==
    ASSUME IInv, Next, ~Task
    PROVE  IInv'
  <1> USE DEF IInv, TypeOK, Plumbing, Accounts, Under, HasFrame, LastOne,
              clockVars, sessionVars, ffmpegVars, taskVars
  <1>1. CASE Tick
    BY <1>1 DEF Tick
  <1>2. CASE AskStop
    BY <1>2 DEF AskStop
  <1>3. CASE Abandon
    <2> USE <1>3 DEF Abandon
    <2>a. left' \in 0..Chunks /\ pc' \in Places
      OBVIOUS
    <2>b. open' \in BOOLEAN
      OBVIOUS
    <2>1. TypeOK'
      BY <2>a, <2>b
    <2>2. Plumbing'
      OBVIOUS
    <2>3. Accounts'
      OBVIOUS
    <2>4. HasFrame'
      OBVIOUS
    <2>5. LastOne'
      OBVIOUS
    <2> QED
      BY <2>1, <2>2, <2>3, <2>4, <2>5
  <1>4. CASE Paint
    BY <1>4 DEF Paint
  <1>5. CASE DesktopDies
    <2> USE <1>5 DEF DesktopDies
    <2>1. TypeOK'
      OBVIOUS
    <2>2. Plumbing' /\ Accounts'
      OBVIOUS
    <2>3. HasFrame'
      OBVIOUS
    <2>4. LastOne'
      OBVIOUS
    <2> QED
      BY <2>1, <2>2, <2>3, <2>4
  <1>6. CASE Encode
    BY <1>6 DEF Encode
  <1>7. CASE EndOfInput
    BY <1>7 DEF EndOfInput
  <1>8. CASE Die
    BY <1>8 DEF Die
  <1> QED
    BY <1>1, <1>2, <1>3, <1>4, <1>5, <1>6, <1>7, <1>8 DEF Next

LEMMA Inductive == IInv /\ [Next]_vars => IInv'
  <1> SUFFICES ASSUME IInv, [Next]_vars PROVE IInv'
    OBVIOUS
  <1>1. CASE UNCHANGED vars
    BY <1>1 DEF vars, taskVars, clockVars, sessionVars, ffmpegVars,
       IInv, TypeOK, Plumbing, Accounts, Under, HasFrame, LastOne
  <1> QED
    BY <1>1, TaskSteps, OtherSteps

LEMMA Always == Spec => []IInv
  BY Initially, Inductive, PTL DEF Spec

\* The recorder's state is what its type says, whatever ends it
\* (record.rs:231).
THEOREM Typing == Spec => []TypeOK
  <1>1. IInv => TypeOK
    BY DEF IInv
  <1> QED
    BY <1>1, Always, PTL

\* A recording that reports success has a frame, and its file exactly the
\* frames it reports, each of them whole: the task drops a frame half-written
\* only with the whole recording (record.rs:231, 272).
THEOREM FramesAreWhole == Spec => []WholeFrames
  <1>1. IInv => WholeFrames
    BY FrameMore DEF IInv, TypeOK, Plumbing, Accounts, Under, HasFrame, WholeFrames
  <1> QED
    BY <1>1, Always, PTL

\* With the end of the session in its receiver the recorder begins at most one
\* more frame, whatever number of ticks it has missed (record.rs:249).
THEOREM EndsWithTheDesktop == Spec => []EndsWithDesktop
  <1>1. IInv => EndsWithDesktop
    BY DEF IInv, LastOne, EndsWithDesktop
  <1> QED
    BY <1>1, Always, PTL
=============================================================================
