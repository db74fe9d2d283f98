------------------------- MODULE FakeDesktopProofs --------------------------
(***************************************************************************)
(* Theorems about FakeDesktop, for screens of every size, any number of    *)
(* directives and connections, and a socket and a receiver of any length.  *)
(*                                                                         *)
(* That the client draws what is shown rests on what is on its way to it:  *)
(* replayed message by message, from the framebuffer the client has, it    *)
(* never meets what it cannot take and ends in what the desktop shows.     *)
(***************************************************************************)
EXTENDS FakeDesktop, SequenceTheorems, TLAPS

-----------------------------------------------------------------------------
(* Pictures *)

Pictures == UNION {[w : {z[1]}, h : {z[2]}, px : [Cells(z[1], z[2]) -> Nat]] : z \in Nat \X Nat}
Rects == [x : Nat, y : Nat, w : Nat, h : Nat, sx : Nat, sy : Nat]
Same(p, q) == p.w = q.w /\ p.h = q.h

LEMMA PictureHas ==
    ASSUME NEW p \in Pictures
    PROVE  /\ p.w \in Nat /\ p.h \in Nat /\ p.px \in [Cells(p.w, p.h) -> Nat]
           /\ p = [w |-> p.w, h |-> p.h, px |-> p.px]
  <1>1. PICK z \in Nat \X Nat : p \in [w : {z[1]}, h : {z[2]}, px : [Cells(z[1], z[2]) -> Nat]]
    BY DEF Pictures
  <1>2. p.w = z[1] /\ p.h = z[2] /\ p.px \in [Cells(z[1], z[2]) -> Nat]
    BY <1>1
  <1>3. p = [w |-> p.w, h |-> p.h, px |-> p.px]
    BY <1>1
  <1> QED
    BY <1>2, <1>3

LEMMA PictureMade ==
    ASSUME NEW w \in Nat, NEW h \in Nat, NEW px \in [Cells(w, h) -> Nat]
    PROVE  Picture(w, h, px) \in Pictures
  <1>1. <<w, h>> \in Nat \X Nat /\ <<w, h>>[1] = w /\ <<w, h>>[2] = h
    OBVIOUS
  <1>2. Picture(w, h, px) \in [w : {w}, h : {h}, px : [Cells(w, h) -> Nat]]
    BY DEF Picture
  <1> QED
    BY <1>1, <1>2 DEF Pictures

LEMMA BlackMade ==
    ASSUME NEW w \in Nat, NEW h \in Nat
    PROVE  Black(w, h) \in Pictures /\ Black(w, h).w = w /\ Black(w, h).h = h
  <1>1. [c \in Cells(w, h) |-> 0] \in [Cells(w, h) -> Nat]
    OBVIOUS
  <1> QED
    BY <1>1, PictureMade DEF Black, Picture

LEMMA CellsAreNumbers ==
    ASSUME NEW w \in Nat, NEW h \in Nat, NEW c \in Cells(w, h)
    PROVE  /\ w # 0 /\ c \in Nat /\ c < w * h
           /\ c \div w \in 0 .. h - 1 /\ c % w \in 0 .. w - 1
           /\ c = (c \div w) * w + (c % w)
  <1>1. w * h \in Nat /\ c \in Nat /\ c < w * h
    BY DEF Cells
  <1>2. w # 0
    BY <1>1
  <1>3. /\ c \div w \in Nat /\ c % w \in 0 .. w - 1
        /\ c = (c \div w) * w + (c % w)
    BY <1>1, <1>2
  <1>4. c \div w < h
    <2> SUFFICES ASSUME c \div w >= h PROVE FALSE
      BY <1>3
    <2>1. (c \div w - h) * w >= 0
      BY <1>3
    <2>2. (c \div w) * w >= h * w
      BY <1>3, <2>1
    <2> QED
      BY <1>1, <1>3, <2>2
  <1> QED
    BY <1>1, <1>2, <1>3, <1>4

LEMMA CellMade ==
    ASSUME NEW w \in Nat, NEW h \in Nat, NEW u \in 0 .. w - 1, NEW v \in 0 .. h - 1
    PROVE  v * w + u \in Cells(w, h)
  <1>1. (h - 1 - v) * w >= 0 /\ v * w >= 0
    OBVIOUS
  <1>2. (h - 1 - v) * w = w * h - w - v * w
    OBVIOUS
  <1> QED
    BY <1>1, <1>2 DEF Cells

LEMMA ScriptMade ==
    ASSUME NEW w \in Nat, NEW h \in Nat, NEW p \in Script(w, h)
    PROVE  p \in Pictures /\ p.w = w /\ p.h = h
  <1>1. \A c \in Cells(w, h) : c + 1 \in Nat /\ w * h - c \in Nat
    BY CellsAreNumbers
  <1>2. /\ [c \in Cells(w, h) |-> c + 1] \in [Cells(w, h) -> Nat]
        /\ [c \in Cells(w, h) |-> w * h - c] \in [Cells(w, h) -> Nat]
    BY <1>1
  <1>3. PICK px \in [Cells(w, h) -> Nat] : p = Picture(w, h, px)
    BY <1>2 DEF Script
  <1> QED
    BY <1>3, PictureMade DEF Picture

\* What a copy reads is in the picture.
LEMMA FromInside ==
    ASSUME NEW p \in Pictures, NEW r \in Rects, Inside(r.sx, r.sy, r, p),
           NEW c \in Cells(p.w, p.h), In(p, r, c)
    PROVE  From(p, r, c) \in Cells(p.w, p.h)
  <1>1. p.w \in Nat /\ p.h \in Nat
    BY PictureHas
  <1>2. /\ r.x \in Nat /\ r.y \in Nat /\ r.w \in Nat /\ r.h \in Nat
        /\ r.sx \in Nat /\ r.sy \in Nat
    BY DEF Rects
  <1>3. X(p, c) \in Nat /\ Y(p, c) \in Nat
    BY <1>1, CellsAreNumbers DEF X, Y
  <1>4. X(p, c) - r.x + r.sx \in 0 .. p.w - 1
    BY <1>1, <1>2, <1>3 DEF In, Inside
  <1>5. Y(p, c) - r.y + r.sy \in 0 .. p.h - 1
    BY <1>1, <1>2, <1>3 DEF In, Inside
  <1> QED
    BY <1>1, <1>4, <1>5, CellMade DEF From

\* Both sides copy the same: from what was there before.
LEMMA CopyMade ==
    ASSUME NEW p \in Pictures, NEW r \in Rects, Inside(r.sx, r.sy, r, p)
    PROVE  CopyRect(p, r) \in Pictures /\ Same(CopyRect(p, r), p) /\ Blit(p, r) = CopyRect(p, r)
  <1> DEFINE new == [c \in DOMAIN p.px |-> IF In(p, r, c) THEN p.px[From(p, r, c)] ELSE p.px[c]]
  <1>1. /\ p.w \in Nat /\ p.h \in Nat /\ p.px \in [Cells(p.w, p.h) -> Nat]
        /\ p = [w |-> p.w, h |-> p.h, px |-> p.px]
    BY PictureHas
  <1>2. new \in [Cells(p.w, p.h) -> Nat]
    BY <1>1, FromInside
  <1>3. CopyRect(p, r) = Picture(p.w, p.h, new)
    BY <1>1 DEF CopyRect, Picture
  <1>4. Blit(p, r) = CopyRect(p, r)
    BY <1>1 DEF Blit, CopyRect
  <1> QED
    BY <1>1, <1>2, <1>3, <1>4, PictureMade DEF Picture, Same

\* A picture of the same size replaces what was drawn.
LEMMA DrawMade ==
    ASSUME NEW p \in Pictures, NEW q \in Pictures, q.w <= p.w, q.h <= p.h
    PROVE  /\ Draw(p, q) \in Pictures
           /\ Same(p, q) => Draw(p, q) = q
  <1> DEFINE new == [c \in DOMAIN p.px |->
                       IF X(p, c) < q.w /\ Y(p, c) < q.h THEN q.px[Y(p, c) * q.w + X(p, c)]
                       ELSE p.px[c]]
  <1>1. /\ p.w \in Nat /\ p.h \in Nat /\ p.px \in [Cells(p.w, p.h) -> Nat]
        /\ q.w \in Nat /\ q.h \in Nat /\ q.px \in [Cells(q.w, q.h) -> Nat]
        /\ p = [w |-> p.w, h |-> p.h, px |-> p.px]
        /\ q = [w |-> q.w, h |-> q.h, px |-> q.px]
    BY PictureHas
  <1>2. Draw(p, q) = Picture(p.w, p.h, new)
    BY <1>1 DEF Draw, Picture
  <1>3. new \in [Cells(p.w, p.h) -> Nat]
    <2>1. ASSUME NEW c \in Cells(p.w, p.h), X(p, c) < q.w, Y(p, c) < q.h
          PROVE  Y(p, c) * q.w + X(p, c) \in Cells(q.w, q.h)
      <3>1. X(p, c) \in 0 .. q.w - 1 /\ Y(p, c) \in 0 .. q.h - 1
        BY <1>1, <2>1, CellsAreNumbers DEF X, Y
      <3> QED
        BY <1>1, <3>1, CellMade
    <2> QED
      BY <1>1, <2>1
  <1>4. ASSUME Same(p, q) PROVE new = q.px
    <2>1. ASSUME NEW c \in Cells(p.w, p.h)
          PROVE  X(p, c) < q.w /\ Y(p, c) < q.h /\ Y(p, c) * q.w + X(p, c) = c
      BY <1>1, <1>4, CellsAreNumbers DEF X, Y, Same
    <2>2. \A c \in Cells(p.w, p.h) : new[c] = q.px[c]
      BY <1>1, <2>1
    <2> QED
      BY <1>1, <1>3, <1>4, <2>2 DEF Same
  <1> QED
    BY <1>1, <1>2, <1>3, <1>4, PictureMade DEF Picture, Same

-----------------------------------------------------------------------------
(* Types *)

Drawn == {"init", "raw", "zrle", "size"}
Places == 0 .. Wrap - 1
Messages == [kind : Drawn, of : Pictures, place : Places]
               \cup [kind : {"copy"}, of : Rects, place : {0}]
               \cup [kind : {"note"}, of : {<<>>}, place : {0}]
Said == {"hello", "encodings", "request", "input"}

\* The server task and the socket.
ServerTypes ==
    /\ phase \in {"accept", "setup", "serve", "stopped"}
    /\ screen \in Pictures /\ init \in Pictures
    /\ advertised \in BOOLEAN /\ asked \in BOOLEAN /\ moved \in BOOLEAN
    /\ written \in Places /\ pushes \in 0 .. MaxPushes
    /\ out = <<>> \/ (phase = "serve" /\ \E m \in Messages : out = <<m>>)
    /\ toClient \in Seq(Messages) /\ Len(toClient) <= Cap
    /\ toDesktop \in Seq(Said)

\* The reader task and the test.
ReaderTypes ==
    /\ hand = <<>> \/ \E m \in Said, n \in Nat : hand = <<m, n>>
    /\ passed \in Seq(Said) /\ log \in BOOLEAN
    /\ bus \in Seq(BOOLEAN) /\ Len(bus) <= BusCap /\ lagged \in BOOLEAN
    /\ waiter \in {"absent", "idle", "subscribed", "listening", "found"}

ClientTypes ==
    /\ clients \in 0 .. MaxClients
    /\ client \in {"none", "dialing", "setup", "greeted", "live", "closed", "protocol"}
    /\ fb \in Pictures /\ inflated \in Places /\ whole \in BOOLEAN

TypeInv == ServerTypes /\ ReaderTypes /\ ClientTypes

LEMMA Bounds ==
    /\ Cap \in Nat /\ Cap >= 1 /\ BusCap \in Nat /\ BusCap >= 1
    /\ MaxPushes \in Nat /\ MaxClients \in Nat
    /\ Wrap \in Nat /\ Wrap >= 1 /\ 0 \in Places
    /\ \A n \in Places : (n + 1) % Wrap \in Places /\ (n + 0) % Wrap = n
    /\ \A z \in Sizes : z[1] \in Nat /\ z[2] \in Nat
  <1>1. /\ Cap \in Nat /\ Cap >= 1 /\ BusCap \in Nat /\ BusCap >= 1
        /\ MaxPushes \in Nat /\ MaxClients \in Nat
        /\ Wrap \in Nat /\ Wrap >= 1
    BY FakeDesktopAssumption DEF FakeDesktopAssumption
  <1>2. \A z \in Sizes : z[1] \in Nat /\ z[2] \in Nat
    BY FakeDesktopAssumption DEF FakeDesktopAssumption
  <1>3. \A n \in Places : (n + 1) % Wrap \in Places /\ (n + 0) % Wrap = n
    BY <1>1 DEF Places
  <1> QED
    BY <1>1, <1>2, <1>3 DEF Places

LEMMA PictureSent ==
    ASSUME NEW kind \in Drawn, NEW p \in Pictures, NEW place \in Places
    PROVE  Message(kind, p, place) \in Messages
  BY DEF Message, Messages

LEMMA CopySent ==
    ASSUME NEW r \in Rects
    PROVE  Message("copy", r, 0) \in Messages
  BY DEF Message, Messages

LEMMA NoteSent == Message("note", <<>>, 0) \in Messages
  BY DEF Message, Messages

LEMMA MessageHas ==
    ASSUME NEW m \in Messages
    PROVE  /\ m.kind \in Drawn => m.of \in Pictures /\ m.place \in Places
           /\ m.kind = "copy" => m.of \in Rects
           /\ m.kind \in Drawn \cup {"copy", "note"}
  BY DEF Messages, Drawn

LEMMA CopiesAreRects ==
    ASSUME NEW p \in Pictures, NEW r \in Copies(p)
    PROVE  /\ r \in Rects
           /\ Inside(r.x, r.y, r, p) /\ Inside(r.sx, r.sy, r, p)
  <1>1. p.w \in Nat /\ p.h \in Nat
    BY PictureHas
  <1>2. r \in Moves(p.w, p.h) /\ Inside(r.x, r.y, r, p) /\ Inside(r.sx, r.sy, r, p)
    BY DEF Copies
  <1>3. /\ 0 .. p.w - 1 \subseteq Nat /\ 0 .. p.h - 1 \subseteq Nat
        /\ 1 .. p.w \subseteq Nat /\ 1 .. p.h \subseteq Nat
    BY <1>1
  <1> QED
    BY <1>2, <1>3 DEF Moves, Rects

LEMMA Taken ==
    ASSUME NEW S, NEW s \in Seq(S), s # <<>>
    PROVE  Head(s) \in S /\ Tail(s) \in Seq(S) /\ Len(Tail(s)) = Len(s) - 1 /\ Len(s) \in Nat
  BY HeadTailProperties, LenProperties

LEMMA FirstTaken ==
    ASSUME NEW S, NEW s \in Seq(S), s # <<>>
    PROVE  Head(s) = s[1]
  OBVIOUS

\* The screen as it is sent.
LEMMA UpdateSent ==
    ASSUME TypeInv, NEW p \in Pictures
    PROVE  /\ FramebufferUpdate(p) \in Messages
           /\ After(1) \in Places /\ After(0) \in Places
  <1>1. Encoding \in Drawn /\ written \in Places
    BY DEF Encoding, Drawn, TypeInv, ServerTypes
  <1>2. After(1) \in Places
    BY <1>1, Bounds DEF After
  <1>3. After(0) \in Places
    BY <1>1, Bounds DEF After
  <1> QED
    BY <1>1, <1>2, <1>3, PictureSent DEF FramebufferUpdate

LEMMA TypesStart == Init => TypeInv
  <1> SUFFICES ASSUME Init PROVE TypeInv
    OBVIOUS
  <1>1. screen \in Pictures
    <2>1. PICK z \in Sizes : screen = Black(z[1], z[2])
      BY DEF Init
    <2> QED
      BY <2>1, Bounds, BlackMade
  <1>2. Black(0, 0) \in Pictures
    BY BlackMade
  <1>3. /\ <<>> \in Seq(Messages) /\ <<>> \in Seq(Said) /\ <<>> \in Seq(BOOLEAN)
        /\ Len(<<>>) = 0
    BY EmptySeq
  <1>4. /\ 0 \in 0 .. MaxPushes /\ MaxPushes \in 0 .. MaxPushes /\ 0 \in 0 .. MaxClients
        /\ 0 <= Cap /\ 0 <= BusCap /\ 0 \in Places
    BY Bounds
  <1>5. ServerTypes
    BY <1>1, <1>2, <1>3, <1>4 DEF Init, ServerTypes
  <1>6. ReaderTypes
    BY <1>3, <1>4 DEF Init, ReaderTypes
  <1>7. ClientTypes
    BY <1>2, <1>4 DEF Init, ClientTypes
  <1> QED
    BY <1>5, <1>6, <1>7 DEF TypeInv

LEMMA TypesStay == TypeInv /\ [Next]_vars => TypeInv'
  <1> SUFFICES ASSUME TypeInv, [Next]_vars PROVE TypeInv'
    OBVIOUS
  <1> USE DEF TypeInv
  <1>1. CASE Accept
    <2>1. Black(screen.w, screen.h) \in Pictures
      BY PictureHas, BlackMade DEF ServerTypes
    <2>2. ServerTypes'
      BY <1>1, <2>1 DEF Accept, ServerTypes, socketVars
    <2>3. ReaderTypes' /\ ClientTypes'
      BY <1>1 DEF Accept, ReaderTypes, ClientTypes, readerVars
    <2> QED
      BY <2>2, <2>3
  <1>2. CASE Setup
    <2>1. Message("init", init, 0) \in Messages
      BY PictureSent, Bounds DEF ServerTypes, Drawn
    <2>2. toClient' \in Seq(Messages) /\ Len(toClient') = 1 /\ toDesktop' \in Seq(Said)
      BY <1>2, <2>1, Taken DEF Setup, ServerTypes
    <2>3. ServerTypes'
      BY <1>2, <2>2, Bounds DEF Setup, ServerTypes
    <2>4. ReaderTypes' /\ ClientTypes'
      BY <1>2 DEF Setup, ReaderTypes, ClientTypes, readerVars, clientVars
    <2> QED
      BY <2>3, <2>4
  <1>3. CASE Hear
    <2>1. FramebufferUpdate(screen) \in Messages /\ After(1) \in Places
      BY UpdateSent DEF ServerTypes
    <2>2. passed' \in Seq(Said)
      BY <1>3, Taken DEF Hear, ReaderTypes
    <2>3. written' \in Places /\ (out' = <<>> \/ \E m \in Messages : out' = <<m>>)
      BY <1>3, <2>1 DEF Hear, Serving, ServerTypes
    <2>4. ServerTypes'
      BY <1>3, <2>3 DEF Hear, Serving, ServerTypes, socketVars
    <2>5. ReaderTypes' /\ ClientTypes'
      BY <1>3, <2>2 DEF Hear, ReaderTypes, ClientTypes, clientVars
    <2> QED
      BY <2>4, <2>5
  <1>4. ASSUME NEW shown \in Pictures, NEW owed \in Messages, NEW rects \in {0, 1},
               Directive(shown, owed, rects)
        PROVE  TypeInv'
    <2>1. After(rects) \in Places
      BY UpdateSent DEF ServerTypes
    <2>2. pushes' \in 0 .. MaxPushes
      BY <1>4, Bounds DEF Directive, ServerTypes
    <2>3. ServerTypes'
      <3>1. CASE Serving /\ out' = <<owed>> /\ written' = After(rects) /\ UNCHANGED moved
        BY <1>4, <2>1, <2>2, <3>1 DEF Directive, Serving, ServerTypes, socketVars
      <3>2. CASE Offline(shown)
        BY <1>4, <2>2, <3>2 DEF Directive, Offline, ServerTypes, socketVars
      <3> QED
        BY <1>4, <3>1, <3>2 DEF Directive
    <2>4. ReaderTypes' /\ ClientTypes'
      BY <1>4 DEF Directive, ReaderTypes, ClientTypes, readerVars, clientVars
    <2> QED
      BY <2>3, <2>4
  <1>5. CASE SetScreen
    <2>1. PICK p \in Script(screen.w, screen.h) : Directive(p, FramebufferUpdate(p), 1)
      BY <1>5 DEF SetScreen
    <2>2. p \in Pictures
      BY PictureHas, ScriptMade DEF ServerTypes
    <2> QED
      BY <1>4, <2>1, <2>2, UpdateSent
  <1>6. CASE Resize
    <2>1. PICK z \in Sizes :
            Directive(Black(z[1], z[2]), Message("size", Black(z[1], z[2]), 0), 0)
      BY <1>6 DEF Resize
    <2>2. Black(z[1], z[2]) \in Pictures
      BY Bounds, BlackMade
    <2>3. Message("size", Black(z[1], z[2]), 0) \in Messages
      BY <2>2, PictureSent, Bounds DEF Drawn
    <2> QED
      BY <1>4, <2>1, <2>2, <2>3
  <1>7. CASE CopyWithin
    <2>1. PICK r \in Copies(screen) : Directive(Blit(screen, r), Message("copy", r, 0), 0)
      BY <1>7 DEF CopyWithin
    <2>2. Blit(screen, r) \in Pictures /\ r \in Rects
      BY CopiesAreRects, CopyMade DEF ServerTypes
    <2> QED
      BY <1>4, <2>1, <2>2, CopySent
  <1>8. CASE Notify
    <2>1. screen \in Pictures
      BY DEF ServerTypes
    <2> QED
      BY <1>4, <1>8, <2>1, NoteSent DEF Notify
  <1>9. CASE Write
    <2>1. PICK m \in Messages : out = <<m>>
      BY <1>9 DEF Write, ServerTypes
    <2>2. toClient' \in Seq(Messages) /\ Len(toClient') = Len(toClient) + 1 /\ Len(toClient) \in Nat
      BY <1>9, <2>1 DEF Write, ServerTypes
    <2>3. ServerTypes'
      BY <1>9, <2>2, Bounds DEF Write, ServerTypes
    <2>4. ReaderTypes' /\ ClientTypes'
      BY <1>9 DEF Write, ReaderTypes, ClientTypes, readerVars, clientVars
    <2> QED
      BY <2>3, <2>4
  <1>10. ASSUME NEW next \in {"accept", "stopped"}, Disconnect(next), pushes' \in 0 .. MaxPushes
         PROVE  TypeInv'
    <2>1. passed' \in Seq(Said) /\ toDesktop' \in Seq(Said)
      BY <1>10, EmptySeq DEF Disconnect
    <2>2. ServerTypes'
      BY <1>10, <2>1 DEF Disconnect, ServerTypes
    <2>3. ReaderTypes' /\ ClientTypes'
      BY <1>10, <2>1 DEF Disconnect, ReaderTypes, ClientTypes, clientVars
    <2> QED
      BY <2>2, <2>3
  <1>11. CASE WriteFails \/ HearEnd \/ HearShutdown
    <2>1. pushes' \in 0 .. MaxPushes
      BY <1>11 DEF WriteFails, HearEnd, HearShutdown, ServerTypes
    <2> QED
      BY <1>10, <1>11, <2>1 DEF WriteFails, HearEnd, HearShutdown
  <1>12. CASE DropConnection
    <2>1. pushes' \in 0 .. MaxPushes
      BY <1>12, Bounds DEF DropConnection, ServerTypes
    <2> QED
      BY <1>10, <1>12, <2>1 DEF DropConnection
  <1>13. CASE ReadMessage
    <2>1. Head(toDesktop) \in Said /\ toDesktop' \in Seq(Said)
      BY <1>13, Taken DEF ReadMessage, ServerTypes
    <2>2. clients \in Nat
      BY Bounds DEF ClientTypes
    <2>3. ServerTypes'
      BY <1>13, <2>1 DEF ReadMessage, ServerTypes, serverVars
    <2>4. ReaderTypes'
      <3>1. \E m \in Said, n \in Nat : hand' = <<m, n>>
        BY <1>13, <2>1, <2>2 DEF ReadMessage
      <3> QED
        BY <1>13, <3>1 DEF ReadMessage, ReaderTypes
    <2>5. ClientTypes'
      BY <1>13 DEF ReadMessage, ClientTypes, clientVars
    <2> QED
      BY <2>3, <2>4, <2>5
  <1>14. CASE Announce
    <2>1. PICK m \in Said, n \in Nat : hand = <<m, n>>
      BY <1>14 DEF Announce, ReaderTypes
    <2>2. passed' \in Seq(Said)
      <3>1. hand[1] \in Said
        BY <2>1
      <3> QED
        BY <1>14, <3>1 DEF Announce, ReaderTypes
    <2>3. bus' \in Seq(BOOLEAN) /\ Len(bus') <= BusCap /\ lagged' \in BOOLEAN
      <3> DEFINE more == Append(bus, hand[1] = "input")
      <3>1. more \in Seq(BOOLEAN) /\ Len(more) = Len(bus) + 1 /\ Len(bus) \in Nat /\ more # <<>>
        BY DEF ReaderTypes
      <3>2. Tail(more) \in Seq(BOOLEAN) /\ Len(Tail(more)) = Len(bus)
        BY <3>1, Taken
      <3> HIDE DEF more
      <3> QED
        <4>1. CASE waiter \in {"subscribed", "listening"}
          <5>1. /\ bus' = IF Len(more) > BusCap THEN Tail(more) ELSE more
                /\ lagged' = (lagged \/ Len(more) > BusCap)
            BY <1>14, <4>1 DEF Announce, more
          <5>2. Len(bus') <= BusCap
            BY <3>1, <3>2, <5>1, Bounds DEF ReaderTypes
          <5>3. bus' \in Seq(BOOLEAN)
            BY <3>1, <3>2, <5>1
          <5>4. lagged' \in BOOLEAN
            BY <5>1
          <5> QED
            BY <5>2, <5>3, <5>4
        <4>2. CASE waiter \notin {"subscribed", "listening"}
          BY <1>14, <4>2 DEF Announce, ReaderTypes
        <4> QED
          BY <4>1, <4>2
    <2>4. ServerTypes'
      BY <1>14 DEF Announce, ServerTypes, serverVars, socketVars
    <2>5. ReaderTypes'
      BY <1>14, <2>2, <2>3 DEF Announce, ReaderTypes
    <2>6. ClientTypes'
      BY <1>14 DEF Announce, ClientTypes, clientVars
    <2> QED
      BY <2>4, <2>5, <2>6
  <1>15. CASE Subscribe \/ Scan \/ Receive
    <2>1. ServerTypes' /\ ClientTypes'
      BY <1>15 DEF Subscribe, Scan, Receive, ServerTypes, ClientTypes, serverVars, socketVars, clientVars
    <2>2. CASE Subscribe \/ Scan
      BY <2>1, <2>2 DEF Subscribe, Scan, ReaderTypes, readerVars
    <2>3. CASE Receive
      <3>1. bus' \in Seq(BOOLEAN) /\ Len(bus') <= BusCap
        <4>1. CASE lagged
          BY <2>3, <4>1 DEF Receive, ReaderTypes
        <4>2. CASE ~lagged
          <5>1. bus \in Seq(BOOLEAN) /\ bus # <<>> /\ Len(bus) <= BusCap /\ bus' = Tail(bus)
            BY <2>3, <4>2 DEF Receive, ReaderTypes
          <5>2. Tail(bus) \in Seq(BOOLEAN) /\ Len(Tail(bus)) = Len(bus) - 1 /\ Len(bus) \in Nat
            BY <5>1, Taken
          <5>3. Len(bus') <= BusCap
            BY <5>1, <5>2, Bounds
          <5> QED
            BY <5>1, <5>2, <5>3
        <4> QED
          BY <4>1, <4>2
      <3> QED
        BY <2>1, <2>3, <3>1 DEF Receive, ReaderTypes
    <2> QED
      BY <1>15, <2>2, <2>3
  <1>16. CASE AskShutdown
    BY <1>16 DEF AskShutdown, ServerTypes, ReaderTypes, ClientTypes, socketVars, readerVars, clientVars
  <1>17. CASE Dial
    <2>1. toClient' \in Seq(Messages) /\ Len(toClient') = 0
      BY <1>17, EmptySeq DEF Dial
    <2>2. ServerTypes'
      BY <1>17, <2>1, Bounds DEF Dial, ServerTypes, serverVars
    <2>3. clients' \in 0 .. MaxClients
      BY <1>17, Bounds DEF Dial, ClientTypes
    <2>4. ReaderTypes' /\ ClientTypes'
      BY <1>17, <2>3 DEF Dial, ReaderTypes, ClientTypes, readerVars
    <2> QED
      BY <2>2, <2>4
  <1>18. CASE SayHello
    <2>1. toDesktop' \in Seq(Said)
      BY <1>18 DEF SayHello, Said
    <2>2. ServerTypes'
      BY <1>18, <2>1 DEF SayHello, ServerTypes, serverVars
    <2>3. ReaderTypes' /\ ClientTypes'
      BY <1>18 DEF SayHello, ReaderTypes, ClientTypes, readerVars
    <2> QED
      BY <2>2, <2>3
  <1>19. ASSUME NEW kind, NEW picture \in Pictures, NEW has \in BOOLEAN, NEW says \in Seq(Said),
                Reads(kind, picture, has, says), client' \in {"live", "protocol"},
                inflated' \in Places
         PROVE  TypeInv'
    <2>1. toClient' \in Seq(Messages) /\ Len(toClient') <= Cap
      BY <1>19, Taken, Bounds DEF Reads, ServerTypes
    <2>2. toDesktop' \in Seq(Said)
      BY <1>19 DEF Reads, ServerTypes
    <2>3. ServerTypes'
      BY <1>19, <2>1, <2>2 DEF Reads, ServerTypes, serverVars
    <2>4. ReaderTypes' /\ ClientTypes'
      BY <1>19 DEF Reads, ReaderTypes, ClientTypes, readerVars
    <2> QED
      BY <2>3, <2>4
  <1>20. ASSUME toClient # <<>>
         PROVE  Head(toClient) \in Messages
    BY <1>20, Taken DEF ServerTypes
  <1>21. <<"encodings", "request">> \in Seq(Said) /\ <<"request">> \in Seq(Said) /\ <<>> \in Seq(Said)
    BY DEF Said
  <1>22. fb \in Pictures /\ whole \in BOOLEAN /\ inflated \in Places
    BY DEF ClientTypes
  <1>23. CASE ReadInit
    <2>1. Head(toClient).of \in Pictures
      BY <1>20, <1>23, MessageHas DEF ReadInit, Reads, Drawn
    <2> QED
      BY <1>19, <1>21, <1>23, <2>1, Bounds DEF ReadInit
  <1>24. CASE ReadScreen
    <2> DEFINE message == Head(toClient)
               picture == IF Fits(message.of) THEN Draw(fb, message.of) ELSE fb
    <2>1. PICK kind \in {"raw", "zrle"} : Reads(kind, picture, TRUE, <<"request">>)
      BY <1>24 DEF ReadScreen
    <2>2. message.of \in Pictures
      BY <1>20, <2>1, MessageHas DEF Reads, Drawn
    <2>3. picture \in Pictures
      BY <1>22, <2>2, DrawMade DEF Fits
    <2>4. inflated' \in Places /\ client' \in {"live", "protocol"}
      BY <1>22, <1>24, Bounds DEF ReadScreen
    <2> QED
      BY <1>19, <1>21, <2>1, <2>3, <2>4
  <1>25. CASE ReadCopy
    <2> DEFINE r == Head(toClient).of
               fits == Inside(r.x, r.y, r, fb) /\ Inside(r.sx, r.sy, r, fb)
               picture == IF fits THEN CopyRect(fb, r) ELSE fb
    <2>1. Reads("copy", picture, whole, <<"request">>)
      BY <1>25 DEF ReadCopy
    <2>2. r \in Rects
      BY <1>20, <2>1, MessageHas DEF Reads
    <2>3. picture \in Pictures
      BY <1>22, <2>2, CopyMade
    <2>4. inflated' \in Places /\ client' \in {"live", "protocol"}
      BY <1>22, <1>25 DEF ReadCopy
    <2> QED
      BY <1>19, <1>21, <1>22, <2>1, <2>3, <2>4
  <1>26. CASE ReadSize
    <2>1. Head(toClient).of \in Pictures
      BY <1>20, <1>26, MessageHas DEF ReadSize, Reads, Drawn
    <2> QED
      BY <1>19, <1>21, <1>22, <1>26, <2>1 DEF ReadSize
  <1>27. CASE ReadNote
    BY <1>19, <1>21, <1>22, <1>27 DEF ReadNote
  <1>28. CASE SendInput
    <2>1. toDesktop' \in Seq(Said)
      BY <1>28 DEF SendInput, ServerTypes, Said
    <2> QED
      BY <1>28, <2>1 DEF SendInput, ServerTypes, ReaderTypes, ClientTypes, serverVars, readerVars, clientVars
  <1>29. CASE Close
    <2>1. toClient' \in Seq(Messages) /\ Len(toClient') = 0
      BY <1>29, EmptySeq DEF Close
    <2>2. ServerTypes'
      BY <1>29, <2>1, Bounds DEF Close, ServerTypes, serverVars
    <2>3. ReaderTypes' /\ ClientTypes'
      BY <1>29 DEF Close, ReaderTypes, ClientTypes, readerVars
    <2> QED
      BY <2>2, <2>3
  <1>30. CASE UNCHANGED vars
    BY <1>30 DEF vars, ServerTypes, ReaderTypes, ClientTypes, serverVars, socketVars, readerVars, clientVars
  <1> QED
    BY <1>1, <1>2, <1>3, <1>5, <1>6, <1>7, <1>8, <1>9, <1>11, <1>12, <1>13, <1>14, <1>15, <1>16,
       <1>17, <1>18, <1>23, <1>24, <1>25, <1>26, <1>27, <1>28, <1>29, <1>30
    DEF Next, Server, Reader, Test, Client, ClientReads

\* The desktop, its reader, the test and the client are at places the code has, and
\* the socket and the receiver hold no more than they can (server.rs:52-86).
THEOREM DesktopTypes == Spec => []TypeOK
  <1>1. TypeInv => TypeOK
    <2>1. ASSUME NEW m, out = <<m>> PROVE Len(out) <= 1
      BY <2>1
    <2>2. out = <<>> => Len(out) <= 1
      OBVIOUS
    <2> QED
      BY <2>1, <2>2 DEF TypeInv, ServerTypes, ReaderTypes, ClientTypes, TypeOK, Places
  <1> QED
    BY <1>1, TypesStart, TypesStay, PTL DEF Spec

-----------------------------------------------------------------------------
(* A test that waits finds its input *)

\* An input that is written down and announced since the test began to listen is in
\* its receiver, unless the receiver knows that it has lost something.
Announced ==
    waiter = "listening" /\ ~lagged /\ log /\ "input" \notin InHand
        => \E i \in 1 .. Len(bus) : bus[i]

LEMMA FirstOf ==
    ASSUME NEW h, h = <<>> \/ \E m \in Said, n \in Nat : h = <<m, n>>
    PROVE  {h[i] : i \in DOMAIN h \cap {1}} = IF h = <<>> THEN {} ELSE {h[1]}
  <1>1. CASE h = <<>>
    BY <1>1
  <1>2. CASE h # <<>>
    <2>1. PICK m \in Said, n \in Nat : h = <<m, n>>
      BY <1>2
    <2>2. DOMAIN h \cap {1} = {1}
      BY <2>1
    <2> QED
      BY <1>2, <2>2
  <1> QED
    BY <1>1, <1>2

LEMMA AnnouncedStays == TypeInv /\ TypeInv' /\ Announced /\ [Next]_vars => Announced'
  <1> SUFFICES ASSUME TypeInv, TypeInv', Announced, [Next]_vars,
                      waiter' = "listening", ~lagged', log', "input" \notin InHand'
               PROVE  \E i \in 1 .. Len(bus') : bus'[i]
    BY DEF Announced
  <1>a. /\ InHand = IF hand = <<>> THEN {} ELSE {hand[1]}
        /\ InHand' = IF hand' = <<>> THEN {} ELSE {hand'[1]}
    <2>1. hand = <<>> \/ \E m \in Said, n \in Nat : hand = <<m, n>>
      BY DEF TypeInv, ReaderTypes
    <2>2. hand' = <<>> \/ \E m \in Said, n \in Nat : hand' = <<m, n>>
      BY DEF TypeInv, ReaderTypes
    <2> QED
      BY <2>1, <2>2, FirstOf DEF InHand
  <1>b. bus \in Seq(BOOLEAN) /\ Len(bus) \in Nat
    BY DEF TypeInv, ReaderTypes
  <1>1. CASE UNCHANGED <<waiter, readerVars>>
    BY <1>1, <1>a DEF Announced, readerVars
  <1>2. CASE ReadMessage
    <2>1. hand' = <<Head(toDesktop), clients>> /\ log' = (log \/ Head(toDesktop) = "input")
            /\ hand = <<>> /\ UNCHANGED <<waiter, bus, lagged>>
      BY <1>2 DEF ReadMessage
    <2>2. hand' # <<>> /\ hand'[1] = Head(toDesktop)
      BY <2>1
    <2>3. Head(toDesktop) # "input"
      BY <1>a, <2>2
    <2> QED
      BY <1>a, <2>1, <2>3 DEF Announced
  <1>3. CASE Announce
    <2> DEFINE more == Append(bus, hand[1] = "input")
    <2>1. /\ bus' = IF Len(more) > BusCap THEN Tail(more) ELSE more
          /\ lagged' = (lagged \/ Len(more) > BusCap)
          /\ UNCHANGED <<waiter, log>> /\ hand # <<>>
      BY <1>3 DEF Announce
    <2>2. bus' = more /\ ~lagged
      BY <2>1
    <2>3. /\ Len(more) = Len(bus) + 1
          /\ \A i \in 1 .. Len(bus) : more[i] = bus[i]
          /\ more[Len(bus) + 1] = (hand[1] = "input")
      BY <1>b
    <2>4. CASE hand[1] = "input"
      <3>1. Len(bus) + 1 \in 1 .. Len(bus')
        BY <1>b, <2>2, <2>3
      <3>2. bus'[Len(bus) + 1]
        BY <2>2, <2>3, <2>4, Zenon
      <3> QED
        BY <3>1, <3>2, Zenon
    <2>5. CASE hand[1] # "input"
      <3>1. PICK i \in 1 .. Len(bus) : bus[i]
        BY <1>a, <2>1, <2>2, <2>5 DEF Announced
      <3> QED
        BY <1>b, <2>2, <2>3, <3>1
    <2> QED
      BY <2>4, <2>5
  <1>4. CASE Scan
    BY <1>4 DEF Scan, readerVars
  <1>5. CASE Receive
    <2>1. ~lagged /\ bus # <<>> /\ bus' = Tail(bus) /\ ~Head(bus) /\ waiter = "listening"
            /\ UNCHANGED <<hand, log>>
      BY <1>5 DEF Receive
    <2>2. PICK i \in 1 .. Len(bus) : bus[i]
      BY <1>a, <2>1 DEF Announced
    <2>3. i # 1
      <3>1. Head(bus) = bus[1]
        BY <1>b, <2>1, FirstTaken
      <3> QED
        BY <2>1, <2>2, <3>1, Zenon
    <2>4. Len(Tail(bus)) = Len(bus) - 1 /\ \A j \in 1 .. Len(Tail(bus)) : Tail(bus)[j] = bus[j + 1]
      BY <1>b, <2>1, HeadTailProperties
    <2>5. i - 1 \in 1 .. Len(Tail(bus)) /\ (i - 1) + 1 = i
      BY <1>b, <2>3, <2>4
    <2>6. Tail(bus)[i - 1] = bus[i]
      BY <2>4, <2>5
    <2> QED
      BY <2>1, <2>2, <2>5, <2>6, Zenon
  <1>6. CASE Hear \/ DropConnection \/ WriteFails \/ HearEnd \/ HearShutdown
    <2>1. UNCHANGED <<waiter, hand, log, bus, lagged>>
      BY <1>6 DEF Hear, DropConnection, WriteFails, HearEnd, HearShutdown, Disconnect
    <2> QED
      BY <1>a, <2>1 DEF Announced
  <1>7. CASE Subscribe
    BY <1>7 DEF Subscribe
  <1>8. CASE Accept \/ Setup \/ SetScreen \/ Resize \/ CopyWithin \/ Notify \/ Write \/ AskShutdown
               \/ Client \/ UNCHANGED vars
    BY <1>1, <1>8
    DEF Accept, Setup, SetScreen, Resize, CopyWithin, Notify, Directive, Write, AskShutdown,
        Client, Dial, SayHello, ClientReads, ReadInit, ReadScreen, ReadCopy, ReadSize, ReadNote,
        Reads, SendInput, Close, vars
  <1> QED
    BY <1>2, <1>3, <1>4, <1>5, <1>6, <1>7, <1>8 DEF Next, Server, Reader, Test

\* A test that sleeps has not missed the input it waits for: whatever the order of
\* writing down, announcing, subscribing and scanning, and whatever a receiver of any
\* length has lost (server.rs:196-267).
THEOREM InputsAreFound == Spec => []InputIsFound
  <1>1. Init => Announced
    BY DEF Init, Announced
  <1>2. Announced => InputIsFound
    BY DEF Announced, InputIsFound
  <1> QED
    BY <1>1, <1>2, TypesStart, TypesStay, AnnouncedStays, PTL DEF Spec

-----------------------------------------------------------------------------
(* What is on its way to the client *)

ClientStates == [fb : Pictures, whole : BOOLEAN, inflated : Places]
State(picture, has, n) == [fb |-> picture, whole |-> has, inflated |-> n]

\* The client takes message m in state s, and is in state t then.
Drawing(s, m, t) ==
    \/ m.kind = "init" /\ t = State(m.of, FALSE, 0)
    \/ m.kind = "raw" /\ Same(m.of, s.fb) /\ t = State(m.of, TRUE, s.inflated)
    \/ /\ m.kind = "zrle" /\ Same(m.of, s.fb) /\ m.place = s.inflated
       /\ t = State(m.of, TRUE, (s.inflated + 1) % Wrap)
    \/ /\ m.kind = "copy"
       /\ Inside(m.of.x, m.of.y, m.of, s.fb) /\ Inside(m.of.sx, m.of.sy, m.of, s.fb)
       /\ t = State(CopyRect(s.fb, m.of), s.whole, s.inflated)
    \/ m.kind = "size" /\ t = State(m.of, FALSE, s.inflated)
    \/ m.kind = "note" /\ t = s

\* The client takes the messages ms one by one.
Replay(h, ms) ==
    /\ h \in [0 .. Len(ms) -> ClientStates]
    /\ \A i \in 1 .. Len(ms) : Drawing(h[i - 1], ms[i], h[i])

Ends(s, ms, t) == \E h : Replay(h, ms) /\ h[0] = s /\ h[Len(ms)] = t

LEMMA StateMade ==
    ASSUME NEW p \in Pictures, NEW has \in BOOLEAN, NEW n \in Places
    PROVE  /\ State(p, has, n) \in ClientStates
           /\ State(p, has, n).fb = p /\ State(p, has, n).whole = has
           /\ State(p, has, n).inflated = n
  BY DEF State, ClientStates

LEMMA ReplayStarts ==
    ASSUME NEW s \in ClientStates
    PROVE  Ends(s, <<>>, s)
  <1> DEFINE h == [i \in 0 .. 0 |-> s]
  <1>1. Len(<<>>) = 0 /\ h[0] = s /\ h \in [0 .. 0 -> ClientStates]
    OBVIOUS
  <1>2. Replay(h, <<>>)
    BY <1>1 DEF Replay
  <1> HIDE DEF h
  <1> QED
    BY <1>1, <1>2 DEF Ends

LEMMA ReplayNothing ==
    ASSUME NEW s, NEW t, Ends(s, <<>>, t)
    PROVE  s = t /\ t \in ClientStates
  <1>1. PICK h : Replay(h, <<>>) /\ h[0] = s /\ h[Len(<<>>)] = t
    BY DEF Ends
  <1>2. Len(<<>>) = 0
    OBVIOUS
  <1> QED
    BY <1>1, <1>2 DEF Replay

LEMMA ReplayMore ==
    ASSUME NEW ms \in Seq(Messages), NEW m \in Messages, NEW s, NEW t,
           NEW u \in ClientStates, Ends(s, ms, t), Drawing(t, m, u)
    PROVE  Ends(s, Append(ms, m), u)
  <1>1. PICK h : Replay(h, ms) /\ h[0] = s /\ h[Len(ms)] = t
    BY DEF Ends
  <1> DEFINE n == Len(ms)
             more == Append(ms, m)
             g == [i \in 0 .. n + 1 |-> IF i = n + 1 THEN u ELSE h[i]]
  <1>2. /\ n \in Nat /\ Len(more) = n + 1 /\ more[n + 1] = m
        /\ \A i \in 1 .. n : more[i] = ms[i]
    OBVIOUS
  <1>3. h \in [0 .. n -> ClientStates] /\ \A i \in 1 .. n : Drawing(h[i - 1], ms[i], h[i])
    BY <1>1 DEF Replay
  <1> HIDE DEF n, more
  <1>4. /\ g \in [0 .. n + 1 -> ClientStates] /\ g[n + 1] = u
        /\ \A i \in 0 .. n : g[i] = h[i]
    BY <1>2, <1>3
  <1> HIDE DEF g
  <1>5. \A i \in 1 .. n : i - 1 \in 0 .. n /\ i \in 0 .. n
    BY <1>2
  <1>6. \A i \in 1 .. n : Drawing(g[i - 1], more[i], g[i])
    BY <1>2, <1>3, <1>4, <1>5
  <1>7. Drawing(g[n], more[n + 1], g[n + 1]) /\ (n + 1) - 1 = n /\ 0 \in 0 .. n
    BY <1>1, <1>2, <1>4 DEF n
  <1>8. Replay(g, more)
    <2>1. \A i \in 1 .. n + 1 : i \in 1 .. n \/ i = n + 1
      BY <1>2
    <2> QED
      BY <1>2, <1>4, <1>6, <1>7, <2>1 DEF Replay
  <1> QED
    BY <1>1, <1>2, <1>4, <1>7, <1>8 DEF Ends, more

LEMMA ReplayPrefix ==
    ASSUME NEW ms \in Seq(Messages), NEW ns \in Seq(Messages), NEW s, NEW t, Ends(s, ms \o ns, t)
    PROVE  \E u \in ClientStates : Ends(s, ms, u)
  <1>1. PICK h : Replay(h, ms \o ns) /\ h[0] = s
    BY DEF Ends
  <1> DEFINE n == Len(ms)
             both == ms \o ns
             g == [i \in 0 .. n |-> h[i]]
  <1>2. /\ n \in Nat /\ Len(both) \in Nat /\ n <= Len(both)
        /\ \A i \in 1 .. n : both[i] = ms[i]
    BY ConcatProperties, LenProperties
  <1>3. /\ h \in [0 .. Len(both) -> ClientStates]
        /\ \A i \in 1 .. Len(both) : Drawing(h[i - 1], both[i], h[i])
    BY <1>1 DEF Replay
  <1> HIDE DEF n, both
  <1>4. g \in [0 .. n -> ClientStates] /\ \A i \in 0 .. n : g[i] = h[i]
    <2>1. \A i \in 0 .. n : i \in 0 .. Len(both)
      BY <1>2
    <2>2. \A i \in 0 .. n : h[i] \in ClientStates
      BY <1>3, <2>1
    <2> QED
      BY <2>2
  <1> HIDE DEF g
  <1>5. \A i \in 1 .. n : i - 1 \in 0 .. n /\ i \in 0 .. n /\ i \in 1 .. Len(both)
    BY <1>2
  <1>6. Replay(g, ms)
    BY <1>2, <1>3, <1>4, <1>5 DEF Replay, n
  <1>7. g[0] = s /\ g[n] \in ClientStates
    BY <1>1, <1>2, <1>4
  <1> QED
    BY <1>6, <1>7 DEF Ends, n

LEMMA ReplayNext ==
    ASSUME NEW ms \in Seq(Messages), ms # <<>>, NEW s, NEW t, Ends(s, ms, t)
    PROVE  \E u \in ClientStates : Drawing(s, Head(ms), u) /\ Ends(u, Tail(ms), t)
  <1>1. PICK h : Replay(h, ms) /\ h[0] = s /\ h[Len(ms)] = t
    BY DEF Ends
  <1> DEFINE n == Len(ms)
             rest == Tail(ms)
             g == [i \in 0 .. n - 1 |-> h[i + 1]]
  <1>2. /\ n \in Nat /\ n >= 1 /\ Len(rest) = n - 1 /\ Head(ms) = ms[1]
        /\ \A i \in 1 .. n - 1 : rest[i] = ms[i + 1]
    BY HeadTailProperties, LenProperties, FirstTaken
  <1>3. h \in [0 .. n -> ClientStates] /\ \A i \in 1 .. n : Drawing(h[i - 1], ms[i], h[i])
    BY <1>1 DEF Replay
  <1> HIDE DEF n, rest
  <1>4. /\ g \in [0 .. n - 1 -> ClientStates]
        /\ \A i \in 0 .. n - 1 : g[i] = h[i + 1]
    BY <1>2, <1>3
  <1> HIDE DEF g
  <1>5. \A i \in 1 .. n - 1 : /\ i - 1 \in 0 .. n - 1 /\ i \in 0 .. n - 1 /\ i + 1 \in 1 .. n
                              /\ (i - 1) + 1 = i /\ (i + 1) - 1 = i
    BY <1>2
  <1>6. \A i \in 1 .. n - 1 : Drawing(g[i - 1], rest[i], g[i])
    BY <1>2, <1>3, <1>4, <1>5
  <1>7. Replay(g, rest)
    BY <1>2, <1>4, <1>6 DEF Replay
  <1>8. /\ 0 \in 0 .. n - 1 /\ n - 1 \in 0 .. n - 1 /\ (n - 1) + 1 = n /\ 0 + 1 = 1
        /\ 1 \in 1 .. n /\ 1 - 1 = 0 /\ 1 \in 0 .. n
    BY <1>2
  <1>9. g[0] = h[1] /\ g[n - 1] = t /\ h[1] \in ClientStates /\ Drawing(s, Head(ms), h[1])
    BY <1>1, <1>2, <1>3, <1>4, <1>8 DEF n
  <1>10. Ends(h[1], rest, t)
    BY <1>2, <1>7, <1>9 DEF Ends
  <1> QED
    BY <1>9, <1>10 DEF rest

-----------------------------------------------------------------------------
(* The client draws what is shown *)

Now == State(fb, whole, inflated)
Pipe == toClient \o out
Agrees(s, p, n) == Same(s.fb, p) /\ (s.whole => s.fb = p) /\ s.inflated = n

\* What is on its way, and what is being written, ends in what is shown.
Follows ==
    \E t \in ClientStates : Ends(Now, Pipe, t) /\ (phase = "serve" => Agrees(t, screen, written))

Draws ==
    /\ client = "dialing" => toClient = <<>> /\ phase \notin {"setup", "serve"}
    /\ ~moved => /\ phase = "setup" => Same(init, screen)
                 /\ client # "protocol"
                 /\ ~Gone => Follows

LEMMA SocketTypes ==
    ASSUME TypeInv
    PROVE  toClient \in Seq(Messages) /\ out \in Seq(Messages)
  <1>1. ASSUME NEW m \in Messages, out = <<m>> PROVE out \in Seq(Messages)
    BY <1>1
  <1>2. out = <<>> => out \in Seq(Messages)
    OBVIOUS
  <1> QED
    BY <1>1, <1>2 DEF TypeInv, ServerTypes

LEMMA NowIsAState ==
    ASSUME TypeInv
    PROVE  /\ Now \in ClientStates
           /\ Now.fb = fb /\ Now.whole = whole /\ Now.inflated = inflated
           /\ Pipe \in Seq(Messages)
           /\ out = <<>> => Pipe = toClient
           /\ phase # "serve" => out = <<>>
  <1>1. /\ Now \in ClientStates
        /\ Now.fb = fb /\ Now.whole = whole /\ Now.inflated = inflated
    BY StateMade DEF Now, TypeInv, ClientTypes
  <1>2. toClient \in Seq(Messages) /\ out \in Seq(Messages)
    BY SocketTypes
  <1>3. Pipe \in Seq(Messages) /\ (out = <<>> => Pipe = toClient)
    BY <1>2 DEF Pipe
  <1> QED
    BY <1>1, <1>3 DEF TypeInv, ServerTypes

\* A message the server owes the client is written next.
LEMMA FollowsOwed ==
    ASSUME TypeInv, TypeInv', Follows, out = <<>>, phase' = "serve",
           NEW m \in Messages, out' = <<m>>, UNCHANGED <<toClient, fb, whole, inflated>>,
           \A t \in ClientStates : (phase = "serve" => Agrees(t, screen, written)) =>
               \E u \in ClientStates : Drawing(t, m, u) /\ Agrees(u, screen', written')
    PROVE  Follows'
  <1>1. PICK t \in ClientStates : /\ Ends(Now, Pipe, t)
                                  /\ phase = "serve" => Agrees(t, screen, written)
    BY DEF Follows
  <1>2. PICK u \in ClientStates : Drawing(t, m, u) /\ Agrees(u, screen', written')
    BY <1>1
  <1>3. Now' = Now
    BY DEF Now
  <1>4. Pipe = toClient /\ toClient \in Seq(Messages)
    BY NowIsAState DEF TypeInv, ServerTypes
  <1>5. Pipe' = Append(toClient, m)
    BY <1>4 DEF Pipe
  <1>6. Ends(Now, Append(toClient, m), u)
    BY <1>1, <1>2, <1>4, ReplayMore
  <1> QED
    BY <1>2, <1>3, <1>5, <1>6 DEF Follows

LEMMA HeadOfBoth ==
    ASSUME NEW S, NEW ms \in Seq(S), NEW ns \in Seq(S), ms # <<>>
    PROVE  /\ ms \o ns # <<>> /\ Head(ms \o ns) = Head(ms)
           /\ Tail(ms \o ns) = Tail(ms) \o ns
  <1> DEFINE both == ms \o ns
             rest == Tail(ms)
  <1>1. /\ both \in Seq(S) /\ Len(ms) \in Nat /\ Len(ns) \in Nat /\ Len(ms) >= 1
        /\ Len(both) = Len(ms) + Len(ns)
        /\ \A i \in 1 .. Len(both) : both[i] = IF i <= Len(ms) THEN ms[i] ELSE ns[i - Len(ms)]
    BY ConcatProperties, LenProperties
  <1>2. both # <<>>
    BY <1>1
  <1>3. Head(both) = Head(ms)
    BY <1>1, <1>2, FirstTaken
  <1>4. /\ rest \in Seq(S) /\ Len(rest) = Len(ms) - 1
        /\ \A i \in 1 .. Len(rest) : rest[i] = ms[i + 1]
    BY HeadTailProperties
  <1>5. /\ Tail(both) \in Seq(S) /\ Len(Tail(both)) = Len(both) - 1
        /\ \A i \in 1 .. Len(Tail(both)) : Tail(both)[i] = both[i + 1]
    BY <1>1, <1>2, HeadTailProperties
  <1>6. /\ rest \o ns \in Seq(S) /\ Len(rest \o ns) = Len(rest) + Len(ns)
        /\ \A i \in 1 .. Len(rest \o ns) :
              (rest \o ns)[i] = IF i <= Len(rest) THEN rest[i] ELSE ns[i - Len(rest)]
    BY <1>4, ConcatProperties
  <1> HIDE DEF both, rest
  <1>7. Tail(both) = rest \o ns
    <2> DEFINE a == Tail(both)
               b == rest \o ns
    <2>1. Len(a) = Len(b) /\ Len(a) = Len(ms) - 1 + Len(ns)
      BY <1>1, <1>4, <1>5, <1>6
    <2>2. ASSUME NEW i \in 1 .. Len(a) PROVE a[i] = b[i]
      <3>1. i \in Nat /\ i >= 1 /\ i + 1 \in 1 .. Len(both) /\ i \in 1 .. Len(b)
        BY <1>1, <2>1
      <3>2. CASE i <= Len(rest)
        BY <1>1, <1>4, <1>5, <1>6, <3>1, <3>2
      <3>3. CASE i > Len(rest)
        <4>1. i + 1 > Len(ms) /\ (i + 1) - Len(ms) = i - Len(rest)
          BY <1>1, <1>4, <3>1, <3>3
        <4> QED
          BY <1>1, <1>4, <1>5, <1>6, <3>1, <3>3, <4>1
      <3> QED
        BY <1>1, <1>4, <3>1, <3>2, <3>3
    <2>3. a \in Seq(S) /\ b \in Seq(S)
      BY <1>5, <1>6
    <2> HIDE DEF a, b
    <2>4. a = b
      BY <2>1, <2>2, <2>3, SeqEqual
    <2> QED
      BY <2>4 DEF a, b
  <1> QED
    BY <1>2, <1>3, <1>7 DEF both, rest

\* The client takes the next message, as it must be taken.
LEMMA FollowsRead ==
    ASSUME TypeInv, Follows, toClient # <<>>, toClient' = Tail(toClient),
           UNCHANGED <<out, phase, screen, written>>,
           \A u \in ClientStates : Drawing(Now, Head(toClient), u) => Now' = u
    PROVE  Follows'
  <1>1. PICK t \in ClientStates : /\ Ends(Now, Pipe, t)
                                  /\ phase = "serve" => Agrees(t, screen, written)
    BY DEF Follows
  <1>2. toClient \in Seq(Messages) /\ out \in Seq(Messages)
    BY SocketTypes
  <1>3. Pipe # <<>> /\ Head(Pipe) = Head(toClient) /\ Tail(Pipe) = Tail(toClient) \o out
    BY <1>2, HeadOfBoth DEF Pipe
  <1>4. PICK u \in ClientStates : Drawing(Now, Head(toClient), u) /\ Ends(u, Tail(Pipe), t)
    BY <1>1, <1>3, ReplayNext, NowIsAState
  <1>5. Now' = u /\ Pipe' = Tail(Pipe)
    BY <1>3, <1>4 DEF Pipe
  <1> QED
    BY <1>1, <1>4, <1>5 DEF Follows

\* Nothing is on its way.
LEMMA FollowsNothing ==
    ASSUME TypeInv', toClient' = <<>>, phase' # "serve"
    PROVE  Follows'
  <1>1. Now' \in ClientStates
    BY StateMade DEF Now, TypeInv, ClientTypes
  <1>2. Pipe' = <<>>
    BY DEF Pipe, TypeInv, ServerTypes
  <1> QED
    BY <1>1, <1>2, ReplayStarts DEF Follows

\* The whole screen, in either encoding.
LEMMA UpdateDrawn ==
    ASSUME TypeInv, NEW p \in Pictures, Same(p, screen),
           NEW t \in ClientStates, Agrees(t, screen, written)
    PROVE  \E u \in ClientStates : Drawing(t, FramebufferUpdate(p), u) /\ Agrees(u, p, After(1))
  <1> DEFINE m == FramebufferUpdate(p)
  <1>1. m.kind = Encoding /\ m.of = p /\ m.place = written
    BY DEF FramebufferUpdate, Message
  <1>2. t.inflated = written /\ written \in Places /\ Same(p, t.fb)
    BY DEF Agrees, Same, TypeInv, ServerTypes
  <1> HIDE DEF m
  <1>3. CASE Encoding = "zrle"
    <2> DEFINE u == State(p, TRUE, (t.inflated + 1) % Wrap)
    <2>1. After(1) = (t.inflated + 1) % Wrap /\ (t.inflated + 1) % Wrap \in Places
      BY <1>2, <1>3, Bounds DEF After
    <2>2. Drawing(t, m, u)
      BY <1>1, <1>2, <1>3 DEF Drawing
    <2>3. u \in ClientStates /\ u.fb = p /\ u.inflated = After(1)
      BY <2>1 DEF State, ClientStates
    <2> HIDE DEF u
    <2> QED
      BY <2>2, <2>3 DEF Agrees, Same, m
  <1>4. CASE Encoding # "zrle"
    <2> DEFINE u == State(p, TRUE, t.inflated)
    <2>1. After(1) = t.inflated /\ Encoding = "raw"
      BY <1>2, <1>4 DEF After, Encoding
    <2>2. Drawing(t, m, u)
      BY <1>1, <1>2, <2>1 DEF Drawing
    <2>3. u \in ClientStates /\ u.fb = p /\ u.inflated = After(1)
      BY <1>2, <2>1 DEF State, ClientStates
    <2> HIDE DEF u
    <2> QED
      BY <2>2, <2>3 DEF Agrees, Same, m
  <1> QED
    BY <1>3, <1>4

LEMMA AfterNothing == TypeInv => After(0) = written
  BY Bounds DEF After, TypeInv, ServerTypes

LEMMA DrawsStart == Init => Draws
  <1> SUFFICES ASSUME Init PROVE Draws
    OBVIOUS
  <1>1. /\ client = "none" /\ phase = "accept" /\ toClient = <<>> /\ out = <<>>
    BY DEF Init
  <1>2. Now \in ClientStates /\ Pipe = <<>>
    BY <1>1, TypesStart, NowIsAState
  <1>3. Follows
    BY <1>1, <1>2, ReplayStarts DEF Follows
  <1> QED
    BY <1>1, <1>3 DEF Draws

LEMMA DrawsServed == TypeInv /\ TypeInv' /\ Draws /\ Server => Draws'
  <1> SUFFICES ASSUME TypeInv, TypeInv', Draws, Server PROVE Draws'
    OBVIOUS
  <1>1. CASE Accept
    <2>1. /\ toClient' = <<>> /\ phase' = "setup" /\ client' = "setup"
          /\ init' = Black(screen.w, screen.h) /\ screen' = screen
      BY <1>1 DEF Accept, Draws, socketVars
    <2>2. Same(init', screen')
      BY <2>1, PictureHas, BlackMade DEF Same, TypeInv, ServerTypes
    <2> QED
      BY <2>1, <2>2, FollowsNothing DEF Draws
  <1>2. CASE Setup
    <2> DEFINE m == Message("init", init, 0)
               u == State(init, FALSE, 0)
    <2>1. /\ toClient' = <<m>> /\ phase = "setup" /\ phase' = "serve" /\ written' = 0
          /\ UNCHANGED <<screen, init, out, moved, client, fb, whole, inflated>>
      BY <1>2 DEF Setup, clientVars
    <2>2. m \in Messages /\ u \in ClientStates /\ m.kind = "init" /\ m.of = init
      BY PictureSent, StateMade, Bounds DEF Drawn, Message, TypeInv, ServerTypes
    <2>3. u.fb = init /\ u.whole = FALSE /\ u.inflated = 0
      BY DEF State
    <2>4. Now \in ClientStates /\ out = <<>> /\ Now' = Now
      BY <2>1, NowIsAState DEF Now
    <2>5. Drawing(Now, m, u)
      BY <2>2 DEF Drawing
    <2>6. Ends(Now, <<>>, Now) /\ <<>> \in Seq(Messages) /\ Append(<<>>, m) = <<m>>
      BY <2>4, ReplayStarts
    <2>7. Pipe' = <<m>>
      BY <2>1, <2>2, <2>4 DEF Pipe
    <2> HIDE DEF m, u
    <2>8. Ends(Now', Pipe', u)
      BY <2>2, <2>4, <2>5, <2>6, <2>7, ReplayMore
    <2>9. ~moved => Agrees(u, screen', written')
      BY <2>1, <2>3 DEF Agrees, Draws
    <2>10. client' # "dialing"
      BY <2>1 DEF Draws
    <2> QED
      BY <2>1, <2>2, <2>8, <2>9 DEF Draws, Follows, Gone
  <1>3. CASE Hear
    <2>1. CASE UNCHANGED <<out, written>>
      BY <1>3, <2>1 DEF Hear, Draws, Follows, Now, Pipe, Gone, clientVars, socketVars
    <2>2. CASE out' = <<FramebufferUpdate(screen)>> /\ written' = After(1)
      <3>1. /\ phase = "serve" /\ phase' = "serve" /\ out = <<>>
            /\ UNCHANGED <<screen, init, moved, toClient, client, fb, whole, inflated>>
        BY <1>3 DEF Hear, Serving, socketVars, clientVars
      <3>2. ASSUME NEW t \in ClientStates, Agrees(t, screen, written)
            PROVE  \E u \in ClientStates : /\ Drawing(t, FramebufferUpdate(screen), u)
                                           /\ Agrees(u, screen, After(1))
        BY <3>2, UpdateDrawn DEF TypeInv, ServerTypes, Same
      <3>3. Follows => Follows'
        BY <2>2, <3>1, <3>2, UpdateSent, FollowsOwed DEF TypeInv, ServerTypes
      <3> QED
        BY <3>1, <3>3 DEF Draws, Gone
    <2> QED
      BY <1>3, <2>1, <2>2 DEF Hear
  <1>4. ASSUME NEW shown \in Pictures, NEW owed \in Messages, NEW rects \in {0, 1},
               Directive(shown, owed, rects),
               \A t \in ClientStates : Agrees(t, screen, written) =>
                   \E u \in ClientStates : Drawing(t, owed, u) /\ Agrees(u, shown, After(rects))
        PROVE  Draws'
    <2>1. /\ screen' = shown /\ phase' = phase
          /\ UNCHANGED <<init, toClient, client, fb, whole, inflated>>
      BY <1>4 DEF Directive, socketVars, clientVars
    <2>2. CASE Serving /\ out' = <<owed>> /\ written' = After(rects) /\ UNCHANGED moved
      <3>1. Follows => Follows'
        BY <1>4, <2>1, <2>2, FollowsOwed DEF Serving
      <3> QED
        BY <2>1, <2>2, <3>1 DEF Draws, Gone, Serving
    <2>3. CASE Offline(shown)
      <3>1. Follows => Follows'
        BY <2>1, <2>3 DEF Offline, Follows, Now, Pipe
      <3>2. ~moved' /\ phase = "setup" => shown.w = init.w /\ shown.h = init.h
        BY <2>3 DEF Offline
      <3>3. ~moved' => ~moved
        BY <2>3 DEF Offline
      <3> QED
        BY <2>1, <3>1, <3>2, <3>3 DEF Draws, Gone, Same
    <2> QED
      BY <1>4, <2>2, <2>3 DEF Directive
  <1>5. CASE SetScreen
    <2>1. PICK p \in Script(screen.w, screen.h) : Directive(p, FramebufferUpdate(p), 1)
      BY <1>5 DEF SetScreen
    <2>2. p \in Pictures /\ Same(p, screen)
      BY PictureHas, ScriptMade DEF TypeInv, ServerTypes, Same
    <2>3. \A t \in ClientStates : Agrees(t, screen, written) =>
             \E u \in ClientStates : Drawing(t, FramebufferUpdate(p), u) /\ Agrees(u, p, After(1))
      BY <2>2, UpdateDrawn
    <2> QED
      BY <1>4, <2>1, <2>2, <2>3, UpdateSent
  <1>6. CASE Resize
    <2>1. PICK z \in Sizes :
            Directive(Black(z[1], z[2]), Message("size", Black(z[1], z[2]), 0), 0)
      BY <1>6 DEF Resize
    <2> DEFINE p == Black(z[1], z[2])
               m == Message("size", p, 0)
    <2>2. p \in Pictures /\ m \in Messages /\ m.kind = "size" /\ m.of = p
      BY Bounds, BlackMade, PictureSent DEF Drawn, Message
    <2> HIDE DEF p, m
    <2>3. ASSUME NEW t \in ClientStates, Agrees(t, screen, written)
          PROVE  \E u \in ClientStates : Drawing(t, m, u) /\ Agrees(u, p, After(0))
      <3>1. t.inflated \in Places /\ t.inflated = written /\ After(0) = written
        BY <2>3, AfterNothing DEF ClientStates, Agrees
      <3>2. Drawing(t, m, State(p, FALSE, t.inflated))
        BY <2>2 DEF Drawing
      <3>3. /\ State(p, FALSE, t.inflated) \in ClientStates
            /\ State(p, FALSE, t.inflated).fb = p /\ State(p, FALSE, t.inflated).whole = FALSE
            /\ State(p, FALSE, t.inflated).inflated = t.inflated
        BY <2>2, <3>1 DEF State, ClientStates
      <3> QED
        BY <3>1, <3>2, <3>3 DEF Agrees, Same
    <2>4. Directive(p, m, 0)
      BY <2>1 DEF p, m
    <2> QED
      BY <1>4, <2>2, <2>3, <2>4
  <1>7. CASE CopyWithin
    <2>1. PICK r \in Copies(screen) : Directive(Blit(screen, r), Message("copy", r, 0), 0)
      BY <1>7 DEF CopyWithin
    <2> DEFINE m == Message("copy", r, 0)
    <2>2. /\ r \in Rects /\ screen \in Pictures
          /\ Inside(r.x, r.y, r, screen) /\ Inside(r.sx, r.sy, r, screen)
      BY CopiesAreRects DEF TypeInv, ServerTypes
    <2>3. /\ Blit(screen, r) \in Pictures /\ Blit(screen, r) = CopyRect(screen, r)
          /\ Same(CopyRect(screen, r), screen)
      BY <2>2, CopyMade
    <2>4. m \in Messages /\ m.kind = "copy" /\ m.of = r
      BY <2>2, CopySent DEF Message
    <2> HIDE DEF m
    <2>5. ASSUME NEW t \in ClientStates, Agrees(t, screen, written)
          PROVE  \E u \in ClientStates : /\ Drawing(t, m, u)
                                         /\ Agrees(u, Blit(screen, r), After(0))
      <3> DEFINE u == State(CopyRect(t.fb, r), t.whole, t.inflated)
      <3>1. /\ t.fb \in Pictures /\ t.whole \in BOOLEAN /\ t.inflated \in Places
            /\ Same(t.fb, screen) /\ (t.whole => t.fb = screen) /\ t.inflated = written
        BY <2>5 DEF ClientStates, Agrees
      <3>2. Inside(r.x, r.y, r, t.fb) /\ Inside(r.sx, r.sy, r, t.fb)
        BY <2>2, <3>1 DEF Inside, Same
      <3>3. CopyRect(t.fb, r) \in Pictures /\ Same(CopyRect(t.fb, r), t.fb)
        BY <2>2, <3>1, <3>2, CopyMade
      <3>4. /\ u \in ClientStates /\ u.fb = CopyRect(t.fb, r) /\ u.whole = t.whole
            /\ u.inflated = t.inflated
        BY <3>1, <3>3, StateMade
      <3>5. Drawing(t, m, u)
        BY <2>4, <3>2 DEF Drawing
      <3>6. After(0) = written
        BY AfterNothing
      <3> HIDE DEF u
      <3>7. Same(u.fb, Blit(screen, r))
        BY <2>3, <3>1, <3>3, <3>4 DEF Same
      <3> QED
        BY <2>3, <3>1, <3>4, <3>5, <3>6, <3>7 DEF Agrees
    <2>6. Directive(Blit(screen, r), m, 0)
      BY <2>1 DEF m
    <2> QED
      BY <1>4, <2>3, <2>4, <2>5, <2>6
  <1>8. CASE Notify
    <2> DEFINE m == Message("note", <<>>, 0)
    <2>1. m \in Messages /\ m.kind = "note"
      BY NoteSent DEF Message
    <2>2. Directive(screen, m, 0)
      BY <1>8 DEF Notify
    <2>3. screen \in Pictures /\ After(0) = written
      BY AfterNothing DEF TypeInv, ServerTypes
    <2> HIDE DEF m
    <2>4. \A t \in ClientStates : Drawing(t, m, t)
      BY <2>1 DEF Drawing
    <2> QED
      BY <1>4, <2>1, <2>2, <2>3, <2>4
  <1>9. CASE Write
    <2>1. Pipe' = Pipe
      <3>1. toClient \in Seq(Messages) /\ out \in Seq(Messages)
        BY SocketTypes
      <3>2. toClient' = toClient \o out /\ out' = <<>> /\ toClient \o out \in Seq(Messages)
        BY <1>9, <3>1 DEF Write
      <3> QED
        BY <3>2 DEF Pipe
    <2>2. /\ out # <<>> /\ phase = "serve"
          /\ UNCHANGED <<phase, screen, init, written, moved, client, fb, whole, inflated>>
      BY <1>9 DEF Write, clientVars, TypeInv, ServerTypes
    <2>3. Follows => Follows'
      BY <2>1, <2>2 DEF Follows, Now
    <2> QED
      BY <2>2, <2>3 DEF Draws, Gone
  <1>10. ASSUME NEW next \in {"accept", "stopped"}, Disconnect(next) PROVE Draws'
    <2>1. /\ phase' = next /\ out' = <<>>
          /\ UNCHANGED <<moved, toClient, client, fb, whole, inflated>>
      BY <1>10 DEF Disconnect, clientVars
    <2>2. toClient \in Seq(Messages) /\ out \in Seq(Messages)
      BY SocketTypes
    <2>3. Now' = Now /\ Pipe' = toClient /\ Pipe = toClient \o out
      BY <2>1, <2>2 DEF Now, Pipe
    <2>4. Follows => Follows'
      <3>1. phase' # "serve"
        BY <2>1
      <3> QED
        BY <2>2, <2>3, <3>1, ReplayPrefix DEF Follows
    <2> QED
      BY <2>1, <2>4 DEF Draws, Gone
  <1> QED
    BY <1>1, <1>2, <1>3, <1>5, <1>6, <1>7, <1>8, <1>9, <1>10
    DEF Server, WriteFails, HearEnd, DropConnection, HearShutdown

LEMMA DrawsRead == TypeInv /\ TypeInv' /\ Draws /\ Client => Draws'
  <1> SUFFICES ASSUME TypeInv, TypeInv', Draws, Client PROVE Draws'
    OBVIOUS
  <1>1. CASE Dial
    <2>1. toClient' = <<>> /\ phase' = "accept" /\ client' = "dialing" /\ phase = phase'
      BY <1>1 DEF Dial, serverVars
    <2> QED
      BY <2>1, FollowsNothing DEF Draws
  <1>2. CASE SayHello
    <2>1. /\ client = "setup" /\ client' = "greeted"
          /\ UNCHANGED <<phase, screen, init, written, out, moved, toClient, fb, whole, inflated>>
      BY <1>2 DEF SayHello, serverVars
    <2> QED
      BY <2>1 DEF Draws, Gone, Follows, Now, Pipe
  <1>3. ASSUME NEW kind, NEW picture, NEW has, NEW says, Reads(kind, picture, has, says),
               client \in {"greeted", "live"}, client' \in {"live", "protocol"},
               \A u \in ClientStates : Drawing(Now, Head(toClient), u) =>
                   Now' = u /\ client' = "live"
        PROVE  Draws'
    <2>1. /\ toClient # <<>> /\ toClient' = Tail(toClient)
          /\ UNCHANGED <<phase, screen, init, written, out, moved>>
      BY <1>3 DEF Reads, serverVars
    <2>2. Follows => Follows'
      BY <1>3, <2>1, FollowsRead
    <2>3. Follows => client' = "live"
      <3> SUFFICES ASSUME Follows PROVE client' = "live"
        OBVIOUS
      <3>1. PICK t \in ClientStates : Ends(Now, Pipe, t)
        BY DEF Follows
      <3>2. Pipe # <<>> /\ Head(Pipe) = Head(toClient) /\ Pipe \in Seq(Messages)
        BY <2>1, SocketTypes, HeadOfBoth, NowIsAState DEF Pipe
      <3>3. PICK u \in ClientStates : Drawing(Now, Head(toClient), u)
        BY <3>1, <3>2, ReplayNext
      <3> QED
        BY <1>3, <3>3
    <2>4. CASE moved
      BY <1>3, <2>1, <2>4 DEF Draws
    <2>5. CASE ~moved
      <3>1. Follows
        BY <1>3, <2>5 DEF Draws, Gone
      <3> QED
        BY <2>1, <2>2, <2>3, <2>5, <3>1 DEF Draws
    <2> QED
      BY <2>4, <2>5
  <1>4. /\ Now = State(fb, whole, inflated) /\ Now' = State(fb', whole', inflated')
        /\ Now.fb = fb /\ Now.whole = whole /\ Now.inflated = inflated
        /\ fb \in Pictures
    BY NowIsAState DEF Now, TypeInv, ClientTypes
  <1>5. ASSUME toClient # <<>> PROVE Head(toClient) \in Messages
    BY <1>5, Taken DEF TypeInv, ServerTypes
  <1>6. CASE ReadInit
    <2>1. /\ Reads("init", Head(toClient).of, FALSE, <<"encodings", "request">>)
          /\ client = "greeted" /\ client' = "live" /\ inflated' = 0
      BY <1>6 DEF ReadInit
    <2>2. /\ Head(toClient).kind = "init"
          /\ fb' = Head(toClient).of /\ whole' = FALSE
      BY <2>1 DEF Reads
    <2>3. \A u \in ClientStates : Drawing(Now, Head(toClient), u) => Now' = u
      BY <1>4, <2>1, <2>2 DEF Drawing
    <2> QED
      BY <1>3, <2>1, <2>3
  <1>7. CASE ReadScreen
    <2> DEFINE m == Head(toClient)
               picture == IF Fits(m.of) THEN Draw(fb, m.of) ELSE fb
    <2>1. PICK kind \in {"raw", "zrle"} : Reads(kind, picture, TRUE, <<"request">>)
      BY <1>7 DEF ReadScreen
    <2>2. /\ client = "live"
          /\ client' = IF Fits(m.of) /\ Inflates(m) THEN client ELSE "protocol"
          /\ inflated' = IF m.kind = "zrle" THEN (inflated + 1) % Wrap ELSE inflated
      BY <1>7 DEF ReadScreen
    <2>3. m.kind = kind /\ m \in Messages /\ fb' = picture /\ whole' = TRUE
      BY <1>5, <2>1 DEF Reads
    <2>4. m.of \in Pictures /\ m.of.w \in Nat /\ m.of.h \in Nat
      BY <2>3, MessageHas, PictureHas DEF Drawn
    <2>5. ASSUME NEW u \in ClientStates, Drawing(Now, m, u)
          PROVE  Now' = u /\ client' = "live"
      <3>1. /\ Same(m.of, fb) /\ (m.kind = "zrle" => m.place = inflated)
            /\ u = State(m.of, TRUE, inflated')
        <4> HIDE DEF m
        <4>1. CASE m.kind = "raw"
          BY <1>4, <2>2, <2>5, <4>1 DEF Drawing
        <4>2. CASE m.kind = "zrle"
          BY <1>4, <2>2, <2>5, <4>2 DEF Drawing
        <4> QED
          BY <2>3, <4>1, <4>2
      <3>2. Fits(m.of) /\ Inflates(m)
        BY <2>4, <3>1 DEF Fits, Inflates, Same
      <3>3. Draw(fb, m.of) = m.of
        BY <1>4, <2>4, <3>1, <3>2, DrawMade DEF Fits, Same
      <3> QED
        BY <1>4, <2>2, <2>3, <3>1, <3>2, <3>3
    <2>6. client' \in {"live", "protocol"}
      BY <2>2
    <2> QED
      BY <1>3, <2>1, <2>2, <2>5, <2>6
  <1>8. CASE ReadCopy
    <2> DEFINE r == Head(toClient).of
               fits == Inside(r.x, r.y, r, fb) /\ Inside(r.sx, r.sy, r, fb)
               picture == IF fits THEN CopyRect(fb, r) ELSE fb
    <2>1. /\ Reads("copy", picture, whole, <<"request">>)
          /\ client = "live" /\ client' = (IF fits THEN client ELSE "protocol")
          /\ inflated' = inflated
      BY <1>8 DEF ReadCopy
    <2>2. Head(toClient).kind = "copy" /\ fb' = picture /\ whole' = whole
      BY <2>1 DEF Reads
    <2>3. \A u \in ClientStates : Drawing(Now, Head(toClient), u) => Now' = u /\ client' = "live"
      BY <1>4, <2>1, <2>2 DEF Drawing
    <2>4. client' \in {"live", "protocol"}
      BY <2>1
    <2> QED
      BY <1>3, <2>1, <2>3, <2>4
  <1>9. CASE ReadSize
    <2>1. /\ Reads("size", Head(toClient).of, FALSE, <<"request">>)
          /\ client = "live" /\ client' = "live" /\ inflated' = inflated
      BY <1>9 DEF ReadSize
    <2>2. /\ Head(toClient).kind = "size"
          /\ fb' = Head(toClient).of /\ whole' = FALSE
      BY <2>1 DEF Reads
    <2>3. \A u \in ClientStates : Drawing(Now, Head(toClient), u) => Now' = u
      BY <1>4, <2>1, <2>2 DEF Drawing
    <2> QED
      BY <1>3, <2>1, <2>3
  <1>10. CASE ReadNote
    <2>1. /\ Reads("note", fb, whole, <<>>)
          /\ client = "live" /\ client' = "live" /\ inflated' = inflated
      BY <1>10 DEF ReadNote
    <2>2. Head(toClient).kind = "note" /\ fb' = fb /\ whole' = whole
      BY <2>1 DEF Reads
    <2>3. \A u \in ClientStates : Drawing(Now, Head(toClient), u) => Now' = u
      BY <1>4, <2>1, <2>2 DEF Drawing
    <2> QED
      BY <1>3, <2>1, <2>3
  <1>11. CASE SendInput
    <2>1. UNCHANGED <<phase, screen, init, written, out, moved, toClient, client, fb, whole, inflated>>
      BY <1>11 DEF SendInput, serverVars, clientVars
    <2> QED
      BY <2>1 DEF Draws, Gone, Follows, Now, Pipe
  <1>12. CASE Close
    <2>1. client \in {"setup", "greeted", "live"} /\ client' = "closed"
            /\ UNCHANGED <<phase, screen, init, moved>>
      BY <1>12 DEF Close, serverVars
    <2> QED
      BY <2>1 DEF Draws, Gone
  <1> QED
    BY <1>1, <1>2, <1>6, <1>7, <1>8, <1>9, <1>10, <1>11, <1>12 DEF Client, ClientReads

LEMMA DrawsStay == TypeInv /\ TypeInv' /\ Draws /\ [Next]_vars => Draws'
  <1> SUFFICES ASSUME TypeInv, TypeInv', Draws, Reader \/ Test \/ UNCHANGED vars PROVE Draws'
    BY DrawsServed, DrawsRead DEF Next
  <1>1. UNCHANGED <<phase, screen, init, written, out, moved, toClient, client, fb, whole, inflated>>
    BY DEF Reader, Test, ReadMessage, Announce, Subscribe, Scan, Receive, AskShutdown, vars,
           serverVars, socketVars, clientVars
  <1> QED
    BY <1>1 DEF Draws, Gone, Follows, Now, Pipe

\* Once nothing is on its way, what the client has is what is shown, and it never
\* meets a message it cannot take: through pushes that cross its requests, copies
\* that overlap, resizes, and connections one after the other (server.rs:500-575).
THEOREM ScreensAgree == Spec => []PixelsAgree
  <1>1. TypeInv /\ Draws => PixelsAgree
    <2> SUFFICES ASSUME TypeInv, Draws, ~moved, phase = "serve", client = "live", whole,
                        toClient = <<>>, out = <<>>
                 PROVE  fb = screen
      BY DEF Draws, PixelsAgree
    <2>1. PICK t \in ClientStates : Ends(Now, Pipe, t) /\ Agrees(t, screen, written)
      BY DEF Draws, Gone, Follows
    <2>2. t = Now
      BY <2>1, NowIsAState, ReplayNothing
    <2> QED
      BY <2>1, <2>2, NowIsAState DEF Agrees
  <1> QED
    BY <1>1, DrawsStart, DrawsStay, TypesStart, TypesStay, PTL DEF Spec
=============================================================================
