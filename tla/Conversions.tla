----------------------------- MODULE Conversions ----------------------------
(***************************************************************************)
(* The arithmetic of bolide, a question at a time: a colour through the    *)
(* pixel format of a server and back, a desktop's picture on the canvas of *)
(* a recording, the way points of a drag.  The operators are in            *)
(* PixelFormats, Picture and Actions; what is answered is here.            *)
(***************************************************************************)
EXTENDS PixelFormats, Picture, Actions

CONSTANTS
    Formats,   \* pixel formats of a server
    Colours,   \* colours
    Screens,   \* sizes of a desktop
    Drags      \* ways: from, to, and the number of moves

ASSUME ConversionsAssumption ==
    /\ Formats \subseteq PixelFormat
    /\ Colours \subseteq [Channels -> U8]
    /\ Screens \subseteq Nat \X Nat
    /\ Drags \subseteq [from : Nat, to : Nat, n : Nat \ {0}]

VARIABLES
    asked,     \* the question
    answer     \* what the code answers, or nothing yet

convVars == <<asked, answer>>
Nothing == <<>>

Questions ==
    [of : {"colour"}, format : Formats, colour : Colours]
        \cup [of : {"frame"}, screen : Screens, now : Screens]
        \cup [of : {"drag"}, way : Drags]

ConvInit == asked \in Questions /\ answer = Nothing

\* The canvas of a recording is the size of the desktop when it began.
Canvas == ForScreen(asked.screen)

\* The client has told the desktop its format, and the desktop writes in it.
Colour ==
    /\ asked.of = "colour" /\ answer = Nothing
    /\ LET desktop == DecodeFormat(EncodeFormat(asked.format))
           pixel == FromRgba(desktop, asked.colour)
           wire == WritePixel(desktop, pixel)
       IN  answer' = [sent |-> pixel,
                      raw |-> ToRgba(asked.format, ReadPixel(asked.format, wire)),
                      zrle |-> ReadCpixel(asked.format, WriteCpixel(desktop, pixel))]
    /\ UNCHANGED asked

Frame ==
    /\ asked.of = "frame" /\ answer = Nothing
    /\ answer' = Fit(asked.now, Canvas)
    /\ UNCHANGED asked

Way ==
    /\ asked.of = "drag" /\ answer = Nothing
    /\ answer' = [i \in 1..asked.way.n |-> Along(asked.way.from, asked.way.to, i, asked.way.n)]
    /\ UNCHANGED asked

ConvNext == Colour \/ Frame \/ Way

ConvSpec == ConvInit /\ [][ConvNext]_convVars

-----------------------------------------------------------------------------
(* Properties *)

Answered(of) == asked.of = of /\ answer # Nothing

\* A colour reaches the client by ZRLE, where a pixel is a byte short, as by Raw
\* (zrle.rs:286-303).
ZrleIsRaw == Answered("colour") /\ Sound(asked.format) => answer.zrle = answer.raw

\* A colour reaches the client the same by Raw and by ZRLE; it is what was sent
\* where the format has eight bits for it, and sent again it is the same pixel
\* (proto.rs:215-221: an encoder and a decoder that disagree with the format but
\* not with each other would pass every test of a round trip).
ColourSurvives ==
    /\ ZrleIsRaw
    /\ Answered("colour") /\ Sound(asked.format) =>
        /\ \A c \in Channels : asked.format.max[c] = 255 => answer.raw[c] = asked.colour[c]
        /\ \A c \in Channels : asked.format.max[c] <= 255 =>
              FromRgba(asked.format, answer.raw) \cap Channel(asked.format, c)
                  = answer.sent \cap Channel(asked.format, c)

\* A frame is exactly the canvas, which no resize of the desktop changes; no pixel
\* is read outside the desktop's picture; the picture is there in order, whole when
\* there is room for it, and otherwise from one side of the canvas to the other
\* (record.rs:104-106: a write of another length would shift the whole video).
FrameFits ==
    Answered("frame") =>
        LET shown == {p \in DOMAIN answer : answer[p] # Black} IN
        /\ Canvas[1] % 2 = 0 /\ Canvas[2] % 2 = 0
        /\ DOMAIN answer = Pixels(Canvas)
        /\ \A p \in shown : answer[p] \in Pixels(asked.now)
        /\ \A p, q \in shown :
              p[1] <= q[1] /\ p[2] <= q[2] =>
                 answer[p][1] <= answer[q][1] /\ answer[p][2] <= answer[q][2]
        /\ (\A side \in {1, 2} : asked.now[side] <= Canvas[side]) =>
              Pixels(asked.now) = {answer[p] : p \in shown}
                /\ \A p, q \in shown : p # q => answer[p] # answer[q]
        /\ (\E side \in {1, 2} : asked.now[side] > Canvas[side]) /\ shown # {} =>
              \E side \in {1, 2} : {p[side] : p \in shown} = 0..Canvas[side] - 1

\* The way points of a drag go from one end to the other without turning back or
\* leaving the way, and the last is the end exactly (actions.rs:184-191).
WayLeadsToTheEnd ==
    Answered("drag") =>
        LET way == asked.way
            between(a, b, c) == (a <= b /\ b <= c) \/ (c <= b /\ b <= a)
        IN  /\ answer[way.n] = way.to
            /\ \A i \in 1..way.n :
                  between(IF i = 1 THEN way.from ELSE answer[i - 1], answer[i], way.to)
=============================================================================
