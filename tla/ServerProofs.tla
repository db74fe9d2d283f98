---------------------------- MODULE ServerProofs ----------------------------
(***************************************************************************)
(* Theorems about ComputerServer, for any number of concurrent requests,   *)
(* any actions, pacing, screens and delays.                                *)
(***************************************************************************)
EXTENDS ComputerServer, FiniteSetTheorems, SequenceTheorems, TLAPS

-----------------------------------------------------------------------------
(* A plan is a sequence of operations. *)

LEMMA PointersAreOps ==
    ASSUME NEW at \in Coordinate, NEW buttons \in Nat
    PROVE  Pointer(at, buttons) \in RfbOp
  BY DEF Pointer, RfbOp, Coordinate

LEMMA KeysAreOps ==
    ASSUME NEW sym \in Keysyms, NEW down \in BOOLEAN
    PROVE  Key(sym, down) \in RfbOp
  BY DEF Key, RfbOp

LEMMA SleepsAreOps ==
    ASSUME NEW ms \in Nat
    PROVE  Sleep(ms) \in RfbOp /\ Pause(ms) \in Seq(RfbOp)
  <1>1. Sleep(ms) \in RfbOp
    BY DEF Sleep, RfbOp
  <1> QED
    BY <1>1 DEF Pause

LEMMA ClicksAreOps ==
    ASSUME NEW at \in Coordinate, NEW buttons \in Nat, NEW count \in Nat
    PROVE  ClicksAt(at, buttons, count) \in Seq(RfbOp)
  <1>1. 1 + 2 * count \in Nat
    OBVIOUS
  <1>2. \A j \in 1 .. 1 + 2 * count : Pointer(at, IF j % 2 = 0 THEN buttons ELSE 0) \in RfbOp
    BY PointersAreOps
  <1> QED
    BY <1>1, <1>2 DEF ClicksAt

LEMMA PointsAlong ==
    ASSUME NEW start \in Coordinate, NEW end \in Coordinate,
           NEW n \in Nat \ {0}, NEW i \in Nat
    PROVE  PointAlong(start, end, i, n) \in Coordinate
  <1>1. ASSUME NEW a \in Int, NEW b \in Int PROVE Along(a, b, i, n) \in Int
    <2>1. (b - a) * i \in Int /\ 2 * n \in Nat \ {0}
      OBVIOUS
    <2>2. \A x \in Int : Quotient(x, 2 * n) \in Int
      BY <2>1 DEF Quotient
    <2>3. Sign((b - a) * i) * n \in Int
      BY <2>1 DEF Sign
    <2> QED
      BY <2>1, <2>2, <2>3 DEF Along
  <1> QED
    BY <1>1 DEF PointAlong, Coordinate

LEMMA WalksAreOps ==
    ASSUME NEW start \in Coordinate, NEW end \in Coordinate, NEW pacing \in DragPacing
    PROVE  Walk(start, end, pacing) \in Seq(RfbOp)
  <1> DEFINE n == Steps(pacing)
             held(i) == Pointer(PointAlong(start, end, i, n), Left)
  <1>1. n \in Nat \ {0} /\ pacing.step_ms \in Nat
    BY DEF Steps, DragPacing
  <1>2. \A i \in Nat : held(i) \in RfbOp
    BY <1>1, PointsAlong, PointersAreOps DEF Left
  <1>3. Sleep(pacing.step_ms) \in RfbOp
    BY <1>1, SleepsAreOps
  <1>4. \A j \in 1 .. 2 * n - 1 : (j + 1) \div 2 \in Nat
    BY <1>1
  <1> HIDE DEF n, held
  <1>5. [i \in 1 .. n |-> held(i)] \in Seq(RfbOp)
    BY <1>1, <1>2
  <1>6. [j \in 1 .. 2 * n - 1 |->
            IF j % 2 = 1 THEN held((j + 1) \div 2) ELSE Sleep(pacing.step_ms)] \in Seq(RfbOp)
    <2>1. 2 * n - 1 \in Nat
      BY <1>1
    <2>2. \A j \in 1 .. 2 * n - 1 :
             (IF j % 2 = 1 THEN held((j + 1) \div 2) ELSE Sleep(pacing.step_ms)) \in RfbOp
      BY <1>2, <1>3, <1>4
    <2> QED
      BY <2>1, <2>2
  <1> QED
    BY <1>5, <1>6 DEF Walk, n, held

LEMMA DragsAreOps ==
    ASSUME NEW start \in Coordinate, NEW end \in Coordinate, NEW pacing \in DragPacing
    PROVE  Drag(start, end, pacing) \in Seq(RfbOp)
  <1>1. /\ Pointer(start, 0) \in RfbOp /\ Pointer(start, Left) \in RfbOp
        /\ Pointer(end, 0) \in RfbOp
    BY PointersAreOps DEF Left
  <1>2. Pause(pacing.dwell_ms) \in Seq(RfbOp)
    BY SleepsAreOps DEF DragPacing
  <1>3. Walk(start, end, pacing) \in Seq(RfbOp)
    BY WalksAreOps
  <1> QED
    BY <1>1, <1>2, <1>3 DEF Drag

LEMMA TypingIsOps ==
    ASSUME NEW text \in Seq(Characters)
    PROVE  Typed(text) \in Seq(RfbOp)
  <1>1. 2 * Len(text) \in Nat
    OBVIOUS
  <1>2. ASSUME NEW j \in 1 .. 2 * Len(text)
        PROVE  Key(KeysymForTyped(text[(j + 1) \div 2]), j % 2 = 1) \in RfbOp
    <2>1. (j + 1) \div 2 \in 1 .. Len(text)
      OBVIOUS
    <2>2. text[(j + 1) \div 2] \in Characters
      BY <2>1
    <2>3. \A c \in Characters : KeysymForTyped(c) \in Keysyms
      BY DEF KeysymForTyped, Keysyms
    <2> QED
      BY <2>2, <2>3, KeysAreOps
  <1> QED
    BY <1>1, <1>2 DEF Typed

LEMMA ChordsAreKeys ==
    ASSUME NEW text \in Seq(Characters)
    PROVE  ParseChord(text) \in Seq(Keysyms)
  <1> DEFINE starts == {i \in 1 .. Len(text) : StartsKey(text, i)}
             n == Cardinality(starts)
             nth(k) == CHOOSE i \in starts : Cardinality(starts \cap 1 .. i) = k
  <1>1. ASSUME NEW i PROVE KeyAt(text, i) \in Keysyms
    <2>1. i \in DOMAIN text => text[i] \in Characters
      OBVIOUS
    <2> QED
      BY <2>1 DEF KeyAt, Keysyms
  <1>2. n \in Nat
    <2>1. IsFiniteSet(1 .. Len(text)) /\ starts \in SUBSET (1 .. Len(text))
      BY FS_Interval
    <2> QED
      BY <2>1, FS_Subset, FS_CardinalityType
  <1>3. ParseChord(text) = [k \in 1 .. n |-> KeyAt(text, nth(k))]
    BY DEF ParseChord
  <1> HIDE DEF n, nth
  <1> QED
    BY <1>1, <1>2, <1>3

LEMMA ChordsAreOps ==
    ASSUME NEW text \in Seq(Characters)
    PROVE  Chord(ParseChord(text)) \in Seq(RfbOp)
  <1> DEFINE chord == ParseChord(text)
  <1>1. chord \in Seq(Keysyms)
    BY ChordsAreKeys
  <1> HIDE DEF chord
  <1>2. 2 * Len(chord) \in Nat
    BY <1>1
  <1>3. ASSUME NEW j \in 1 .. 2 * Len(chord)
        PROVE  (IF j <= Len(chord) THEN Key(chord[j], TRUE)
                                   ELSE Key(chord[2 * Len(chord) + 1 - j], FALSE)) \in RfbOp
    <2>1. Len(chord) \in Nat
      BY <1>1
    <2>2. CASE j <= Len(chord)
      <3>1. chord[j] \in Keysyms
        BY <1>1, <2>1, <2>2
      <3> QED
        BY <2>2, <3>1, KeysAreOps
    <2>3. CASE ~(j <= Len(chord))
      <3>1. 2 * Len(chord) + 1 - j \in 1 .. Len(chord)
        BY <2>1, <2>3
      <3> QED
        <4>1. chord[2 * Len(chord) + 1 - j] \in Keysyms
          BY <1>1, <2>1, <3>1
        <4> QED
          BY <2>3, <4>1, KeysAreOps
    <2> QED
      BY <2>2, <2>3
  <1>4. Chord(chord) \in Seq(RfbOp)
    <2>1. Chord(chord) = [j \in 1 .. 2 * Len(chord) |->
                            IF j <= Len(chord) THEN Key(chord[j], TRUE)
                            ELSE Key(chord[2 * Len(chord) + 1 - j], FALSE)]
      BY DEF Chord
    <2> DEFINE ops == [j \in 1 .. 2 * Len(chord) |->
                          IF j <= Len(chord) THEN Key(chord[j], TRUE)
                          ELSE Key(chord[2 * Len(chord) + 1 - j], FALSE)]
    <2>2. ops \in [1 .. 2 * Len(chord) -> RfbOp]
      BY <1>3
    <2> HIDE DEF ops
    <2>3. ops \in Seq(RfbOp)
      BY <1>2, <2>2
    <2> QED
      BY <2>1, <2>3 DEF ops
  <1> QED
    BY <1>4 DEF chord

LEMMA PlansAreOps ==
    ASSUME NEW a \in Action, NEW pacing \in DragPacing
    PROVE  Plan(a, pacing) \in Seq(RfbOp)
  <1>1. CASE a \in [action : Clicks \cup {"mouse_move"}, coordinate : Coordinate]
    <2>1. CASE a.action \in Clicks
      <3>1. ClickButton[a.action] \in Nat /\ ClickCount[a.action] \in Nat
        BY <2>1 DEF ClickButton, ClickCount, Clicks, Left, Middle, Right
      <3>2. Plan(a, pacing) = ClicksAt(a.coordinate, ClickButton[a.action], ClickCount[a.action])
        BY <2>1 DEF Plan, Clicks, ClickButton
      <3> QED
        BY <1>1, <3>1, <3>2, ClicksAreOps
    <2>2. CASE a.action = "mouse_move"
      <3>1. Plan(a, pacing) = <<Pointer(a.coordinate, 0)>>
        BY <2>2 DEF Plan, Clicks, ClickButton
      <3> QED
        BY <1>1, <3>1, PointersAreOps
    <2> QED
      BY <1>1, <2>1, <2>2
  <1>2. CASE a \in [action : {"left_click_drag"}, start_coordinate : Coordinate, coordinate : Coordinate]
    <2>1. Plan(a, pacing) = Drag(a.start_coordinate, a.coordinate, pacing)
      BY <1>2 DEF Plan, Clicks, ClickButton
    <2> QED
      BY <1>2, <2>1, DragsAreOps
  <1>3. CASE a \in [action : {"scroll"}, coordinate : Coordinate, scroll_direction : {"up", "down"},
                    scroll_amount : Nat]
    <2> DEFINE wheel == IF a.scroll_direction = "up" THEN WheelUp ELSE WheelDown
    <2>1. Plan(a, pacing) = IF a.scroll_amount = 0 THEN <<>>
                            ELSE ClicksAt(a.coordinate, wheel, a.scroll_amount)
      BY <1>3 DEF Plan, Clicks, ClickButton
    <2>2. wheel \in Nat
      BY DEF WheelUp, WheelDown
    <2>3. ClicksAt(a.coordinate, wheel, a.scroll_amount) \in Seq(RfbOp)
      BY <1>3, <2>2, ClicksAreOps
    <2> QED
      BY <2>1, <2>3
  <1>4. CASE a \in [action : {"type", "key"}, text : Seq(Characters)]
    <2>1. a.action = "type" => Plan(a, pacing) = Typed(a.text)
      BY DEF Plan, Clicks, ClickButton
    <2>2. a.action = "key" => Plan(a, pacing) = Chord(ParseChord(a.text))
      BY DEF Plan, Clicks, ClickButton
    <2> QED
      BY <1>4, <2>1, <2>2, TypingIsOps, ChordsAreOps
  <1>5. CASE a \in [action : {"wait"}, duration : Int]
    <2>1. Plan(a, pacing) = <<Sleep(IF a.duration > 0 THEN a.duration ELSE 0)>>
      BY <1>5 DEF Plan, Clicks, ClickButton
    <2> QED
      BY <1>5, <2>1, SleepsAreOps
  <1>6. CASE a \in [action : {"screenshot", "cursor_position"}]
    BY <1>6 DEF Plan, Clicks, ClickButton
  <1> QED
    BY <1>1, <1>2, <1>3, <1>4, <1>5, <1>6 DEF Action

-----------------------------------------------------------------------------
(* Types *)

USE ServerAssumption DEF ServerAssumption

LEMMA Delays ==
    /\ InputSettle \in Nat /\ IncrementalWait \in Nat /\ AfterInputWait \in Nat
    /\ FrameTimeout \in Nat /\ Redraw \in Nat /\ UpdatePeriod \in Nat
  OBVIOUS

LEMMA QueueShrinks ==
    ASSUME NEW q \in Seq(Requests), NEW r
    PROVE  Without(q, r) \in Seq(Requests)
  <1>1. CASE \A i \in DOMAIN q : q[i] # r
    BY <1>1 DEF Without
  <1>2. CASE ~\A i \in DOMAIN q : q[i] # r
    <2> DEFINE i == CHOOSE i \in DOMAIN q : q[i] = r
    <2>1. i \in 1 .. Len(q)
      BY <1>2
    <2>2. Without(q, r) = SubSeq(q, 1, i - 1) \o SubSeq(q, i + 1, Len(q))
      BY <1>2 DEF Without
    <2> HIDE DEF i
    <2>3. ASSUME NEW a \in Nat \ {0}, NEW b \in Nat, b <= Len(q) PROVE SubSeq(q, a, b) \in Seq(Requests)
      <3>1. \A k \in a .. b : q[k] \in Requests
        BY <2>3
      <3> QED
        BY <2>3, <3>1, SubSeqProperties
    <2>4. i - 1 \in Nat /\ i + 1 \in Nat \ {0} /\ 1 \in Nat \ {0} /\ Len(q) \in Nat
          /\ i - 1 <= Len(q) /\ Len(q) <= Len(q)
      BY <2>1
    <2>5. SubSeq(q, 1, i - 1) \in Seq(Requests) /\ SubSeq(q, i + 1, Len(q)) \in Seq(Requests)
      BY <2>3, <2>4
    <2> QED
      BY <2>2, <2>5
  <1> QED
    BY <1>1, <1>2

LEMMA Started == NewRequest \in Handlers
  BY DEF NewRequest, Handlers, Points, GetScreenshot

LEMMA Fields ==
    ASSUME NEW h \in Handlers
    PROVE  /\ h.pc \in Points /\ h.ops \in Seq(RfbOp) /\ h.timer \in Nat /\ h.owes \in Nat
           /\ h.asked \in Nat /\ h.body \in Action \cup {GetScreenshot}
           /\ h.input \in BOOLEAN /\ h.failed \in BOOLEAN
           /\ h.after \in BOOLEAN /\ h.whole \in BOOLEAN /\ h.answered \in BOOLEAN
           /\ h.misled \in BOOLEAN
           /\ h.image \in [black : BOOLEAN, shows : Nat]
  BY DEF Handlers

LEMMA Sequences ==
    ASSUME NEW S, NEW s \in Seq(S), NEW x \in S
    PROVE  /\ s # <<>> => Head(s) \in S /\ Tail(s) \in Seq(S)
           /\ Append(s, x) \in Seq(S)
  OBVIOUS

LEMMA Elements ==
    ASSUME NEW S, NEW s \in Seq(S), NEW i \in DOMAIN s
    PROVE  s[i] \in S
  OBVIOUS

LEMMA Prefixes ==
    ASSUME NEW S, NEW s \in Seq(S), NEW k \in Nat
    PROVE  SubSeq(s, k + 1, Len(s)) \in Seq(S)
  OBVIOUS

\* A handler that ends, or starts over with some of its history, is a handler.
LEMMA Restarts ==
    ASSUME NEW h \in Handlers, NEW pc \in Points, NEW image \in [black : BOOLEAN, shows : Nat]
    PROVE  /\ [NewRequest EXCEPT !.pc = pc, !.owes = h.owes] \in Handlers
           /\ [NewRequest EXCEPT !.pc = pc, !.owes = h.owes, !.asked = h.asked,
                                 !.misled = h.misled, !.image = image] \in Handlers
  <1>1. h.owes \in Nat /\ h.asked \in Nat /\ h.misled \in BOOLEAN
    BY Fields
  <1> QED
    BY <1>1, Started DEF Handlers

LEMMA Moves ==
    ASSUME NEW h \in Handlers, NEW pc \in Points
    PROVE  [h EXCEPT !.pc = pc] \in Handlers
  BY DEF Handlers

\* Every step of a handler leaves it a handler.
LEMMA HandlerSteps ==
    ASSUME TypeOK, NEW r \in Requests, Arrive(r) \/ Handler(r) \/ Cancel(r)
    PROVE  \E g \in Handlers : req' = [req EXCEPT ![r] = g]
  <1> DEFINE h == req[r]
             Yields(g) == g \in Handlers /\ req' = [req EXCEPT ![r] = g]
  <1>0. h \in Handlers
    BY DEF TypeOK
  <1>1. /\ {"execute", "drop", "take", "frame", "done", "gone", "queue", "sleep", "settle", "ask",
            "wait", "image"} \subseteq Points
    BY DEF Points
  <1>2. ASSUME NEW pc \in Points, Goto(r, pc) PROVE Yields([h EXCEPT !.pc = pc])
    BY <1>0, <1>2, Moves DEF Goto
  <1>3. ASSUME NEW pc \in Points, Ends(r, pc)
        PROVE  Yields([NewRequest EXCEPT !.pc = pc, !.owes = h.owes])
    <2>1. [black |-> TRUE, shows |-> 0] \in [black : BOOLEAN, shows : Nat]
      OBVIOUS
    <2> QED
      BY <1>0, <1>3, <2>1, Restarts DEF Ends
  <1>4. CASE Arrive(r)
    <2> PICK b \in Bodies[r] :
              \/ /\ b = GetScreenshot
                 /\ req' = [req EXCEPT ![r] = [@ EXCEPT !.pc = "take", !.body = b]]
              \/ /\ b # GetScreenshot
                 /\ LET ops == Plan(b, Pacing) IN
                    req' = [req EXCEPT ![r] = [@ EXCEPT !.pc = "queue", !.body = b, !.ops = ops,
                              !.input = \E i \in DOMAIN ops : IsInput(ops[i])]]
              \/ Ends(r, "done")
      BY <1>4 DEF Arrive
    <2>1. b \in Action \cup {GetScreenshot}
      OBVIOUS
    <2>2. CASE req' = [req EXCEPT ![r] = [@ EXCEPT !.pc = "take", !.body = b]]
      <3>1. [h EXCEPT !.pc = "take", !.body = b] \in Handlers
        BY <1>0, <1>1, <2>1 DEF Handlers
      <3> QED
        BY <2>2, <3>1
    <2>3. CASE b # GetScreenshot /\
               LET ops == Plan(b, Pacing) IN
                    req' = [req EXCEPT ![r] = [@ EXCEPT !.pc = "queue", !.body = b, !.ops = ops,
                              !.input = \E i \in DOMAIN ops : IsInput(ops[i])]]
      <3> DEFINE ops == Plan(b, Pacing)
                 input == \E i \in DOMAIN ops : IsInput(ops[i])
      <3>1. ops \in Seq(RfbOp) /\ input \in BOOLEAN
        BY <2>1, <2>3, PlansAreOps
      <3>2. req' = [req EXCEPT ![r] = [@ EXCEPT !.pc = "queue", !.body = b, !.ops = ops, !.input = input]]
        BY <2>3
      <3> HIDE DEF ops, input
      <3>3. [h EXCEPT !.pc = "queue", !.body = b, !.ops = ops, !.input = input] \in Handlers
        BY <1>0, <1>1, <2>1, <3>1 DEF Handlers
      <3> QED
        BY <3>2, <3>3
    <2>4. CASE Ends(r, "done")
      BY <1>1, <1>3, <2>4
    <2> QED
      BY <2>2, <2>3, <2>4
  <1>5. CASE TakeHands(r)
    BY <1>1, <1>2, <1>5 DEF TakeHands
  <1>6. CASE Send(r)
    <2>1. h.ops \in Seq(RfbOp) /\ h.ops # <<>>
      BY <1>0, <1>6, Fields DEF Send, Executing
    <2>2. Tail(h.ops) \in Seq(RfbOp)
      BY <2>1, Sequences
    <2>3. [h EXCEPT !.ops = Tail(h.ops)] \in Handlers
      BY <1>0, <2>2 DEF Handlers
    <2>4. [h EXCEPT !.ops = <<>>, !.failed = TRUE] \in Handlers
      <3>1. <<>> \in Seq(RfbOp)
        OBVIOUS
      <3> QED
        BY <1>0, <3>1 DEF Handlers
    <2> QED
      BY <1>6, <2>3, <2>4 DEF Send
  <1>7. CASE FallAsleep(r)
    <2>1. h.ops \in Seq(RfbOp) /\ h.ops # <<>> /\ Head(h.ops).op = "sleep"
      BY <1>0, <1>7, Fields DEF FallAsleep, Executing
    <2>2. Tail(h.ops) \in Seq(RfbOp) /\ Head(h.ops) \in RfbOp
      BY <2>1, Sequences
    <2>3. Head(h.ops).ms \in Nat
      BY <2>1, <2>2 DEF RfbOp
    <2>4. [h EXCEPT !.pc = "sleep", !.ops = Tail(h.ops), !.timer = Head(h.ops).ms] \in Handlers
      BY <1>0, <1>1, <2>2, <2>3 DEF Handlers
    <2>5. req' = [req EXCEPT ![r] = [h EXCEPT !.pc = "sleep", !.ops = Tail(h.ops),
                                              !.timer = Head(h.ops).ms]]
      BY <1>7 DEF FallAsleep
    <2> QED
      BY <2>4, <2>5
  <1>8. CASE WakeUp(r)
    BY <1>1, <1>2, <1>8 DEF WakeUp
  <1>9. CASE Stamp(r)
    BY <1>1, <1>2, <1>9 DEF Stamp
  <1>10. CASE DropHands(r)
    BY <1>1, <1>2, <1>3, <1>10 DEF DropHands
  <1>11. CASE TakeLastInput(r)
    <2> DEFINE after == lastInput # None
               left == IF lastInput # None THEN InputSettle - lastInput.age ELSE 0
    <2>1. lastInput.upto \in Nat /\ lastInput.age \in -1 .. InputSettle
      BY DEF TypeOK
    <2>2. left \in Nat /\ after \in BOOLEAN
      BY <2>1
    <2>3. req' = [req EXCEPT ![r] = [@ EXCEPT !.pc = "settle", !.after = after,
                    !.owes = lastInput.upto, !.timer = left]]
      BY <1>11 DEF TakeLastInput
    <2> HIDE DEF after, left
    <2>4. [h EXCEPT !.pc = "settle", !.after = after, !.owes = lastInput.upto,
                    !.timer = left] \in Handlers
      BY <1>0, <1>1, <2>1, <2>2 DEF Handlers
    <2> QED
      BY <2>3, <2>4
  <1>12. CASE CheckPainted(r)
    <2>1. painted \in BOOLEAN /\ resizes \in Nat /\ behind \in BOOLEAN
      BY DEF TypeOK
    <2>2. [h EXCEPT !.pc = "ask", !.whole = ~painted, !.asked = resizes,
                    !.misled = behind] \in Handlers
      BY <1>0, <1>1, <2>1 DEF Handlers
    <2> QED
      BY <1>12, <2>2 DEF CheckPainted
  <1>13. CASE Ask(r)
    <2>1. Wait(r) \in Nat
      BY DEF Wait, AtMost
    <2>2. [h EXCEPT !.pc = "wait", !.timer = Wait(r)] \in Handlers
      BY <1>0, <1>1, <2>1 DEF Handlers
    <2> QED
      BY <1>1, <1>3, <1>13, <2>2 DEF Ask
  <1>14. CASE RefreshResolves(r)
    BY <1>1, <1>2, <1>14 DEF RefreshResolves
  <1>15. CASE RefreshTimesOut(r)
    BY <1>1, <1>2, <1>3, <1>15 DEF RefreshTimesOut
  <1>16. CASE RefreshCloses(r)
    BY <1>1, <1>3, <1>16 DEF RefreshCloses
  <1>17. CASE TakeFrame(r)
    <2>1. screen \in [black : BOOLEAN, shows : Nat]
      BY DEF TypeOK
    <2>2. [NewRequest EXCEPT !.pc = "image", !.owes = h.owes, !.asked = h.asked,
                             !.misled = h.misled, !.image = screen] \in Handlers
      BY <1>0, <1>1, <2>1, Restarts
    <2> QED
      BY <1>17, <2>2 DEF TakeFrame
  <1>18. CASE Cancel(r)
    BY <1>1, <1>3, <1>18 DEF Cancel
  <1> QED
    BY <1>4, <1>5, <1>6, <1>7, <1>8, <1>9, <1>10, <1>11, <1>12, <1>13, <1>14, <1>15, <1>16,
       <1>17, <1>18 DEF Handler

\* A handler is polled, or dropped: it acts on its record, on the hands, on the
\* record of the last input and on the desktop.
LEMMA ServedTypes ==
    ASSUME TypeOK, NEW r \in Requests, Arrive(r) \/ Handler(r) \/ Cancel(r)
    PROVE  TypeOK'
  <1>1. req' \in [Requests -> Handlers]
    <2>1. PICK g \in Handlers : req' = [req EXCEPT ![r] = g]
      BY HandlerSteps
    <2>2. req \in [Requests -> Handlers]
      BY DEF TypeOK
    <2> QED
      BY <2>1, <2>2
  <1>2. UNCHANGED sessionVars => (/\ connected \in BOOLEAN /\ painted \in BOOLEAN /\ size \in Sizes
                                  /\ screen \in [black : BOOLEAN, shows : Nat]
                                  /\ unread \subseteq SUBSET Requests
                                  /\ resizes \in Nat /\ behind \in BOOLEAN)'
    BY DEF sessionVars, TypeOK
  <1>3. UNCHANGED <<drawn, unsent>> => (drawn \in Nat /\ unsent \in -1 .. UpdatePeriod)'
    BY DEF TypeOK
  <1>4. CASE Send(r)
    <2> DEFINE op == Head(req[r].ops)
    <2>1. op \in RfbOp
      <3>1. req[r] \in Handlers
        BY DEF TypeOK
      <3> QED
        BY <1>4, <3>1, Fields, Sequences DEF Send, Executing
    <2>2. Append(wire, [by |-> r, op |-> op]) \in Seq([by : Requests, op : RfbOp])
      <3>1. [by |-> r, op |-> op] \in [by : Requests, op : RfbOp]
        BY <2>1
      <3> QED
        BY <3>1, Sequences DEF TypeOK
    <2>3. Append(undrawn, 0) \in Seq(Nat)
      BY Sequences DEF TypeOK
    <2>4. (wire \in Seq([by : Requests, op : RfbOp]) /\ undrawn \in Seq(Nat))'
      BY <1>4, <2>2, <2>3 DEF Send, TypeOK
    <2>5. cursor' \in Int \X Int
      <3>1. op.op = "pointer" => op.at \in Int \X Int
        BY <2>1 DEF RfbOp
      <3> QED
        BY <1>4, <3>1 DEF Send, Record, TypeOK
    <2>6. UNCHANGED <<sessionVars, drawn, unsent>>
      BY <1>4 DEF Send
    <2>7. (/\ holder \in Requests \cup {Nobody} /\ queue \in Seq(Requests)
           /\ lastInput \in [age : -1 .. InputSettle, upto : Nat])'
      BY <1>4 DEF Send, TypeOK
    <2> QED
      BY <1>1, <1>2, <1>3, <2>4, <2>5, <2>6, <2>7 DEF TypeOK
  <1>5. CASE ~Send(r)
    <2>1. UNCHANGED <<cursor, sessionVars, desktopVars, wire>>
      BY <1>5 DEF Arrive, Handler, Cancel, handsVars, TakeHands, FallAsleep, WakeUp, Stamp, DropHands,
                  TakeLastInput, CheckPainted, Ask, RefreshResolves, RefreshTimesOut, RefreshCloses,
                  TakeFrame
    <2>2. holder' \in Requests \cup {Nobody}
      BY <1>5 DEF Arrive, Handler, Cancel, handsVars, TakeHands, FallAsleep, WakeUp, Stamp, DropHands,
                  TakeLastInput, CheckPainted, Ask, RefreshResolves, RefreshTimesOut, RefreshCloses,
                  TakeFrame, TypeOK
    <2>3. queue' \in Seq(Requests)
      <3>1. queue \in Seq(Requests) /\ Append(queue, r) \in Seq(Requests)
            /\ Without(queue, r) \in Seq(Requests)
        BY QueueShrinks, Sequences DEF TypeOK
      <3>2. queue # <<>> => Tail(queue) \in Seq(Requests)
        BY Sequences DEF TypeOK
      <3> QED
        BY <1>5, <3>1, <3>2
           DEF Arrive, Handler, Cancel, handsVars, TakeHands, FallAsleep, WakeUp, Stamp, DropHands,
               TakeLastInput, CheckPainted, Ask, RefreshResolves, RefreshTimesOut, RefreshCloses,
               TakeFrame
    <2>4. lastInput' \in [age : -1 .. InputSettle, upto : Nat]
      <3>1. lastInput \in [age : -1 .. InputSettle, upto : Nat]
            /\ None \in [age : -1 .. InputSettle, upto : Nat]
            /\ [age |-> 0, upto |-> Len(wire)] \in [age : -1 .. InputSettle, upto : Nat]
        <4>1. lastInput \in [age : -1 .. InputSettle, upto : Nat]
              /\ wire \in Seq([by : Requests, op : RfbOp])
          BY DEF TypeOK
        <4>2. Len(wire) \in Nat
          BY <4>1
        <4> QED
          BY <4>1, <4>2, Delays DEF None
      <3> QED
        BY <1>5, <3>1
           DEF Arrive, Handler, Cancel, handsVars, TakeHands, FallAsleep, WakeUp, Stamp, DropHands,
               TakeLastInput, CheckPainted, Ask, RefreshResolves, RefreshTimesOut, RefreshCloses,
               TakeFrame
    <2>5. (cursor \in Int \X Int /\ undrawn \in Seq(Nat)
           /\ wire \in Seq([by : Requests, op : RfbOp]))'
      BY <2>1 DEF desktopVars, TypeOK
    <2> QED
      BY <1>1, <1>2, <1>3, <2>1, <2>2, <2>3, <2>4, <2>5 DEF desktopVars, TypeOK
  <1> QED
    BY <1>4, <1>5

\* The desktop, the session and time.
LEMMA OutsideTypes ==
    ASSUME TypeOK, DesktopDraws \/ UpdateArrives \/ ScreenResizes \/ ResizesBehindRect \/ UpdateEnds
       \/ SessionDies \/ Tick
    PROVE  TypeOK'
  <1>1. (holder \in Requests \cup {Nobody} /\ queue \in Seq(Requests) /\ cursor \in Int \X Int
         /\ wire \in Seq([by : Requests, op : RfbOp]))'
    BY DEF DesktopDraws, UpdateArrives, ScreenResizes, ResizesBehindRect,
       UpdateEnds, SessionDies, Tick, handsVars, desktopVars, TypeOK
  <1>2. req' \in [Requests -> Handlers]
    <2>1. CASE UpdateArrives
      <3>1. \A h \in Handlers : [h EXCEPT !.answered = TRUE] \in Handlers
        BY DEF Handlers
      <3> QED
        BY <2>1, <3>1 DEF UpdateArrives, TypeOK
    <2>3. CASE UpdateEnds
      <3>1. \A h \in Handlers : [h EXCEPT !.answered = TRUE] \in Handlers
        BY DEF Handlers
      <3>2. \E S \in {Requests} : /\ req \in [S -> Handlers] /\ S = Requests
                                  /\ \E found : req' = [r \in S |->
                                       IF At(r, "wait") /\ r \in found
                                       THEN [req[r] EXCEPT !.answered = TRUE] ELSE req[r]]
        BY <2>3 DEF UpdateEnds, TypeOK
      <3> QED
        BY <3>1, <3>2
    <2>2. CASE Tick
      <3>1. \A h \in Handlers : [h EXCEPT !.timer = IF @ > 0 THEN @ - 1 ELSE 0] \in Handlers
        <4> TAKE h \in Handlers
        <4>1. (IF h.timer > 0 THEN h.timer - 1 ELSE 0) \in Nat
          BY Fields
        <4> QED
          BY <4>1 DEF Handlers
      <3> QED
        BY <2>2, <3>1 DEF Tick, TypeOK
    <2> QED
      BY <2>1, <2>2, <2>3 DEF DesktopDraws, ScreenResizes, ResizesBehindRect, SessionDies, TypeOK
  <1>3. (/\ connected \in BOOLEAN /\ painted \in BOOLEAN /\ size \in Sizes
         /\ screen \in [black : BOOLEAN, shows : Nat] /\ resizes \in Nat)'
    <2>1. UNCHANGED <<connected, painted, size, screen, resizes>> \/ UpdateArrives \/ ScreenResizes
          \/ ResizesBehindRect \/ UpdateEnds \/ SessionDies
      BY DEF DesktopDraws, Tick, sessionVars
    <2>2. CASE UpdateArrives
      BY <2>2 DEF UpdateArrives, TypeOK
    <2>4. CASE UpdateEnds
      <3>1. UNCHANGED <<connected, size, screen, resizes>> /\ painted' = TRUE
        BY <2>4 DEF UpdateEnds
      <3> QED
        BY <3>1 DEF TypeOK
    <2>3. CASE ScreenResizes \/ ResizesBehindRect
      <3>1. resizes \in Nat => resizes + 1 \in Nat
        OBVIOUS
      <3>2. [black |-> TRUE, shows |-> 0] \in [black : BOOLEAN, shows : Nat]
        OBVIOUS
      <3>3. resizes' \in Nat
        BY <2>3, <3>1 DEF ScreenResizes, ResizesBehindRect, TypeOK
      <3>4. screen' \in [black : BOOLEAN, shows : Nat] /\ size' \in Sizes /\ painted' = FALSE
            /\ connected' = connected
        BY <2>3, <3>2 DEF ScreenResizes, ResizesBehindRect
      <3> QED
        BY <3>3, <3>4 DEF TypeOK
    <2> QED
      BY <2>1, <2>2, <2>3, <2>4 DEF SessionDies, TypeOK
  <1>6. (unread \subseteq SUBSET Requests /\ behind \in BOOLEAN)'
    <2>1. UNCHANGED <<unread, behind>> \/ ResizesBehindRect \/ UpdateEnds \/ SessionDies
          \/ UpdateArrives \/ ScreenResizes
      BY DEF DesktopDraws, Tick, sessionVars
    <2> QED
      BY <2>1 DEF ResizesBehindRect, UpdateEnds, SessionDies, UpdateArrives, ScreenResizes, TypeOK
  <1>4. lastInput' \in [age : -1 .. InputSettle, upto : Nat]
    <2>1. CASE Tick
      <3>1. lastInput' = None \/ lastInput' = [lastInput EXCEPT !.age = AtMost(@ + 1, InputSettle)]
        BY <2>1 DEF Tick
      <3>2. lastInput.age \in -1 .. InputSettle
            /\ lastInput \in [age : -1 .. InputSettle, upto : Nat]
        BY DEF TypeOK
      <3>3. AtMost(lastInput.age + 1, InputSettle) \in -1 .. InputSettle
        BY <3>2, Delays DEF AtMost
      <3>4. None \in [age : -1 .. InputSettle, upto : Nat]
        BY Delays DEF None
      <3>5. [lastInput EXCEPT !.age = AtMost(lastInput.age + 1, InputSettle)]
                \in [age : -1 .. InputSettle, upto : Nat]
        BY <3>2, <3>3
      <3> QED
        BY <3>1, <3>4, <3>5
    <2> QED
      BY <2>1 DEF DesktopDraws, UpdateArrives, ScreenResizes, ResizesBehindRect,
       UpdateEnds, SessionDies, TypeOK
  <1>5. (drawn \in Nat /\ undrawn \in Seq(Nat) /\ unsent \in -1 .. UpdatePeriod)'
    <2>1. CASE DesktopDraws
      <3> PICK k \in 1 .. Len(undrawn) : drawn' = drawn + k
                                         /\ undrawn' = SubSeq(undrawn, k + 1, Len(undrawn))
        BY <2>1 DEF DesktopDraws
      <3>1. undrawn' \in Seq(Nat)
        <4>1. undrawn \in Seq(Nat)
          BY DEF TypeOK
        <4>2. k \in Nat
          OBVIOUS
        <4> QED
          BY <4>1, <4>2, Prefixes
      <3> QED
        BY <2>1, <3>1 DEF DesktopDraws, TypeOK
    <2>2. CASE Tick
      <3>1. \A i \in DOMAIN undrawn : AtMost(undrawn[i] + 1, Redraw) \in Nat
        <4>1. \A i \in DOMAIN undrawn : undrawn[i] \in Nat
          <5>1. undrawn \in Seq(Nat)
            BY DEF TypeOK
          <5> QED
            BY <5>1
        <4> QED
          BY <4>1, Delays DEF AtMost
      <3>2. [i \in DOMAIN undrawn |-> AtMost(undrawn[i] + 1, Redraw)] \in Seq(Nat)
        <4>1. DOMAIN undrawn = 1 .. Len(undrawn) /\ Len(undrawn) \in Nat
          BY DEF TypeOK
        <4> QED
          BY <3>1, <4>1
      <3>3. AtMost(unsent + 1, UpdatePeriod) \in -1 .. UpdatePeriod
        <4>1. unsent \in -1 .. UpdatePeriod
          BY DEF TypeOK
        <4> QED
          BY <4>1, Delays DEF AtMost
      <3> QED
        BY <2>2, <3>2, <3>3 DEF Tick, TypeOK
    <2>3. CASE UpdateArrives \/ ResizesBehindRect
      <3>1. drawn' = drawn /\ undrawn' = undrawn /\ unsent' = -1
        BY <2>3 DEF UpdateArrives, ResizesBehindRect
      <3>2. drawn \in Nat /\ undrawn \in Seq(Nat) /\ -1 \in -1 .. UpdatePeriod
        BY Delays DEF TypeOK
      <3> QED
        BY <3>1, <3>2
    <2> QED
      BY <2>1, <2>2, <2>3 DEF ScreenResizes, UpdateEnds, SessionDies, desktopVars, TypeOK
  <1> QED
    BY <1>1, <1>2, <1>3, <1>4, <1>5, <1>6 DEF TypeOK

LEMMA Starts == Init => TypeOK
  <1> SUFFICES ASSUME Init PROVE TypeOK
    OBVIOUS
  <1>1. req \in [Requests -> Handlers]
    BY Started DEF Init
  <1>2. lastInput \in [age : -1 .. InputSettle, upto : Nat] /\ unsent \in -1 .. UpdatePeriod
    BY Delays DEF Init, None
  <1>3. holder \in Requests \cup {Nobody} /\ queue \in Seq(Requests) /\ cursor \in Int \X Int
        /\ undrawn \in Seq(Nat) /\ wire \in Seq([by : Requests, op : RfbOp])
    BY DEF Init
  <1>4. connected \in BOOLEAN /\ painted \in BOOLEAN /\ size \in Sizes
        /\ screen \in [black : BOOLEAN, shows : Nat] /\ drawn \in Nat
        /\ unread \subseteq SUBSET Requests /\ resizes \in Nat /\ behind \in BOOLEAN
    BY DEF Init
  <1> QED
    BY <1>1, <1>2, <1>3, <1>4 DEF TypeOK

LEMMA TypesStay == TypeOK /\ [Next]_vars => TypeOK'
  <1> SUFFICES ASSUME TypeOK, [Next]_vars PROVE TypeOK'
    OBVIOUS
  <1>1. CASE UNCHANGED vars
    BY <1>1 DEF vars, handsVars, sessionVars, desktopVars, TypeOK
  <1> QED
    BY <1>1, ServedTypes, OutsideTypes DEF Next

\* Whatever is asked, by however many, and whatever becomes of the session: the
\* plans are operations, the waits and the counts are never negative.
THEOREM Typing == Spec => []TypeOK
  BY Starts, TypesStay, PTL DEF Spec

-----------------------------------------------------------------------------
(* The wire *)

\* Only a handler that sends touches the cursor and the wire.
LEMMA OnlySending ==
    ASSUME [Next]_vars, ~\E r \in Requests : Send(r)
    PROVE  UNCHANGED <<cursor, wire>>
  <1>1. CASE \E r \in Requests : Arrive(r) \/ Handler(r) \/ Cancel(r)
    BY <1>1 DEF Arrive, Handler, Cancel, handsVars, TakeHands, FallAsleep, WakeUp, Stamp, DropHands,
                TakeLastInput, CheckPainted, Ask, RefreshResolves, RefreshTimesOut, RefreshCloses,
                TakeFrame
  <1>2. CASE DesktopDraws \/ UpdateArrives \/ ScreenResizes \/ ResizesBehindRect \/ UpdateEnds
       \/ SessionDies \/ Tick
    BY <1>2 DEF DesktopDraws, UpdateArrives, ScreenResizes, ResizesBehindRect,
       UpdateEnds, SessionDies, Tick, handsVars
  <1> QED
    BY <1>1, <1>2 DEF Next, vars, handsVars

\* What a sender leaves on the wire.
LEMMA Sending ==
    ASSUME TypeOK, NEW r \in Requests, Send(r)
    PROVE  LET n == Len(wire) + 1 IN
           \/ /\ connected /\ Len(wire') = n /\ n \in Nat
              /\ wire'[n] = [by |-> r, op |-> Head(req[r].ops)]
              /\ \A i \in 1 .. n - 1 : wire'[i] = wire[i]
           \/ ~connected /\ UNCHANGED wire
  <1>1. wire \in Seq([by : Requests, op : RfbOp])
    BY DEF TypeOK
  <1>2. Head(req[r].ops) \in RfbOp
    <2>1. req[r] \in Handlers
      BY DEF TypeOK
    <2> QED
      BY <2>1, Fields, Sequences DEF Send, Executing
  <1>3. [by |-> r, op |-> Head(req[r].ops)] \in [by : Requests, op : RfbOp]
    BY <1>2
  <1>4. CASE connected
    <2>1. wire' = Append(wire, [by |-> r, op |-> Head(req[r].ops)])
      BY <1>4 DEF Send
    <2> QED
      BY <1>1, <1>3, <1>4, <2>1
  <1>5. CASE ~connected
    BY <1>5 DEF Send
  <1> QED
    BY <1>4, <1>5

\* The record of the pointer is the last pointer event on the wire.
LEMMA CursorFollows == TypeOK /\ CursorIsTrue /\ [Next]_vars => CursorIsTrue'
  <1> SUFFICES ASSUME TypeOK, CursorIsTrue, [Next]_vars PROVE CursorIsTrue'
    OBVIOUS
  <1> DEFINE n == Len(wire) + 1
  <1>0. wire \in Seq([by : Requests, op : RfbOp]) /\ DOMAIN wire = 1 .. n - 1 /\ n \in Nat \ {0}
    <2>1. wire \in Seq([by : Requests, op : RfbOp])
      BY DEF TypeOK
    <2> QED
      BY <2>1
  <1>1. CASE ~\E r \in Requests : Send(r)
    BY <1>1, OnlySending DEF CursorIsTrue, IsPointer
  <1>2. ASSUME NEW r \in Requests, Send(r) PROVE CursorIsTrue'
    <2> DEFINE op == Head(req[r].ops)
    <2>1. CASE ~connected
      <3>1. UNCHANGED <<cursor, wire>>
        BY <1>2, <2>1 DEF Send, Record
      <3> QED
        BY <3>1 DEF CursorIsTrue, IsPointer
    <2>2. CASE connected
      <3>1. /\ Len(wire') = n /\ wire'[n] = [by |-> r, op |-> op]
            /\ \A i \in 1 .. n - 1 : wire'[i] = wire[i]
        BY <1>2, <2>2, Sending
      <3>2. cursor' = IF op.op = "pointer" THEN op.at ELSE cursor
        BY <1>2, <2>2 DEF Send, Record
      <3>3. wire' \in Seq([by : Requests, op : RfbOp])
        BY <1>2, ServedTypes DEF Handler, TypeOK
      <3>4. DOMAIN wire' = 1 .. n
        BY <3>1, <3>3
      <3> HIDE DEF n, op
      <3>5. CASE op.op = "pointer"
        <4>1. n \in 1 .. n /\ \A j \in 1 .. n : ~(j > n)
          BY <1>0
        <4> QED
          BY <3>1, <3>2, <3>4, <3>5, <4>1 DEF CursorIsTrue, IsPointer
      <3>6. CASE op.op # "pointer"
        <4>1. \A j \in {n} : ~IsPointer(j)'
          BY <3>1, <3>6 DEF IsPointer
        <4>2. \A i \in 1 .. n - 1 : IsPointer(i)' <=> IsPointer(i)
          BY <3>1 DEF IsPointer
        <4>3. 1 .. n = 1 .. n - 1 \cup {n}
          BY <1>0
        <4>4. CASE cursor = <<0, 0>> /\ \A i \in DOMAIN wire : ~IsPointer(i)
          BY <1>0, <3>2, <3>4, <3>6, <4>1, <4>2, <4>3, <4>4 DEF CursorIsTrue
        <4>5. CASE ~(cursor = <<0, 0>> /\ \A i \in DOMAIN wire : ~IsPointer(i))
          <5> PICK i \in 1 .. n - 1 : /\ IsPointer(i) /\ cursor = wire[i].op.at
                                      /\ \A j \in 1 .. n - 1 : j > i => ~IsPointer(j)
            BY <1>0, <4>5 DEF CursorIsTrue
          <5>1. IsPointer(i)' /\ cursor' = wire'[i].op.at
            BY <3>1, <3>2, <3>6, <4>2
          <5>2. \A j \in 1 .. n : j > i => ~IsPointer(j)'
            BY <4>1, <4>2, <4>3
          <5> QED
            BY <3>4, <4>3, <5>1, <5>2 DEF CursorIsTrue
        <4> QED
          BY <4>4, <4>5
      <3> QED
        BY <3>5, <3>6
    <2> QED
      BY <2>1, <2>2
  <1> QED
    BY <1>1, <1>2

\* cursor_position is true: however actions fail, sleep, queue or are dropped at
\* an await, the record is the last pointer event that went out.
THEOREM Cursor == Spec => []CursorIsTrue
  <1>1. Init => CursorIsTrue
    BY DEF Init, CursorIsTrue
  <1> QED
    BY <1>1, Starts, TypesStay, CursorFollows, PTL DEF Spec

-----------------------------------------------------------------------------
(* One pair of hands *)

\* Who executes holds the hands; who has not had them has sent nothing; and what
\* their holder has sent is the last thing on the wire.
Unbraided(r) ==
    /\ req[r].pc \in {"execute", "sleep", "drop"} => holder = r
    /\ req[r].pc \in {"new", "queue"} => \A i \in DOMAIN wire : wire[i].by # r
    /\ req[r].pc \in {"execute", "sleep"} =>
         \A i \in DOMAIN wire : wire[i].by = r => wire[Len(wire)].by = r

Hands == NeverBraided /\ \A r \in Requests : Unbraided(r)

LEMMA HandsStart == Init => Hands
  BY DEF Init, Hands, NeverBraided, Unbraided, NewRequest

LEMMA HandsStay == TypeOK /\ Hands /\ [Next]_vars => Hands'
  <1> SUFFICES ASSUME TypeOK, Hands, [Next]_vars PROVE Hands'
    OBVIOUS
  <1> DEFINE n == Len(wire) + 1
  <1>0. /\ DOMAIN wire = 1 .. n - 1 /\ n \in Nat \ {0}
        /\ DOMAIN req = Requests /\ \A s \in Requests : "pc" \in DOMAIN req[s]
    <2>1. wire \in Seq([by : Requests, op : RfbOp]) /\ req \in [Requests -> Handlers]
      BY DEF TypeOK
    <2>2. \A h \in Handlers : "pc" \in DOMAIN h
      BY DEF Handlers
    <2> QED
      BY <2>1, <2>2
  <1>1. ASSUME NEW r \in Requests, Send(r) PROVE Hands'
    <2>1. req[r].pc = "execute" /\ holder = r
      BY <1>1 DEF Send, Executing, At, Hands, Unbraided
    <2>2. /\ holder' = r
          /\ \A s \in Requests : req'[s].pc = req[s].pc
      BY <1>0, <1>1, <2>1 DEF Send
    <2>3. \A s \in Requests \ {r} : req[s].pc \notin {"execute", "sleep", "drop"}
      BY <2>1 DEF Hands, Unbraided
    <2>4. CASE ~connected
      <3>1. UNCHANGED wire
        BY <1>1, <2>4 DEF Send
      <3>2. NeverBraided'
        BY <3>1 DEF Hands, NeverBraided
      <3>3. ASSUME NEW s \in Requests PROVE Unbraided(s)'
        BY <2>1, <2>2, <3>1 DEF Hands, Unbraided
      <3> QED
        BY <3>2, <3>3 DEF Hands
    <2>5. CASE connected
      <3>0. /\ Len(wire') = n /\ wire'[n] = [by |-> r, op |-> Head(req[r].ops)]
            /\ \A i \in 1 .. n - 1 : wire'[i] = wire[i]
        BY <1>1, <2>5, Sending
      <3>1. /\ Len(wire') = n /\ wire'[n].by = r
            /\ \A i \in 1 .. n - 1 : wire'[i] = wire[i]
        BY <3>0
      <3>2. DOMAIN wire' = 1 .. n
        <4>1. wire' \in Seq([by : Requests, op : RfbOp])
          BY <1>1, ServedTypes DEF Handler, TypeOK
        <4> QED
          BY <3>1, <4>1
      <3>3. \A i \in 1 .. n - 1 : wire[i].by = r => wire[n - 1].by = r
        BY <1>0, <2>1 DEF Hands, Unbraided
      <3> HIDE DEF n
      <3>4. NeverBraided'
        <4> SUFFICES ASSUME NEW i \in 1 .. n, NEW k \in 1 .. n, NEW j \in i .. k,
                            wire'[i].by = wire'[k].by
                     PROVE  wire'[j].by = wire'[i].by
          BY <3>2 DEF NeverBraided
        <4>0. \A a, c \in 1 .. n - 1 : \A b \in a .. c :
                 wire[a].by = wire[c].by => wire[b].by = wire[a].by
          BY <1>0 DEF Hands, NeverBraided
        <4>1. CASE k # n
          <5>1. k \in 1 .. n - 1 /\ i \in 1 .. n - 1 /\ j \in 1 .. n - 1
            BY <1>0, <4>1
          <5> QED
            BY <3>1, <4>0, <5>1
        <4>2. CASE k = n /\ j # n
          <5>1. i \in 1 .. n - 1 /\ j \in 1 .. n - 1 /\ n - 1 \in 1 .. n - 1 /\ j \in i .. n - 1
            BY <1>0, <4>2
          <5>2. wire[i].by = r
            BY <3>1, <4>2, <5>1
          <5>3. wire[n - 1].by = r
            BY <3>3, <5>1, <5>2
          <5>4. wire[j].by = r
            BY <4>0, <5>1, <5>2, <5>3
          <5> QED
            BY <3>1, <5>1, <5>2, <5>4
        <4> QED
          BY <4>1, <4>2
      <3>5. ASSUME NEW s \in Requests PROVE Unbraided(s)'
        <4>1. 1 .. n = 1 .. n - 1 \cup {n}
          BY <1>0
        <4>2. CASE s = r
          BY <2>1, <2>2, <3>1, <3>2, <4>2 DEF Unbraided
        <4>3. CASE s # r
          <5>1. req[s].pc \in {"new", "queue"} => \A i \in 1 .. n - 1 : wire[i].by # s
            BY <1>0 DEF Hands, Unbraided
          <5> QED
            BY <2>2, <2>3, <3>1, <3>2, <4>1, <4>3, <5>1 DEF Unbraided
        <4> QED
          BY <4>2, <4>3
      <3> QED
        BY <3>4, <3>5 DEF Hands
    <2> QED
      BY <2>4, <2>5
  <1>2. CASE ~\E r \in Requests : Send(r)
    <2>1. UNCHANGED wire
      BY <1>2, OnlySending
    <2>2. NeverBraided'
      BY <2>1 DEF Hands, NeverBraided
    <2>3. ASSUME NEW s \in Requests, holder' = holder, req'[s].pc = req[s].pc PROVE Unbraided(s)'
      BY <2>1, <2>3 DEF Hands, Unbraided
    <2>4. ASSUME NEW r \in Requests, Arrive(r) \/ Handler(r) \/ Cancel(r) PROVE Hands'
      <3>1. ASSUME NEW s \in Requests \ {r} PROVE Unbraided(s)'
        <4>1. req'[s] = req[s]
          BY <1>0, <2>4, HandlerSteps
        <4>2. CASE holder' = holder
          BY <2>3, <4>1, <4>2
        <4>3. CASE holder' # holder
          <5>1. TakeHands(r) \/ DropHands(r) \/ Cancel(r)
            BY <1>2, <2>4, <4>3 DEF Arrive, Handler, handsVars, FallAsleep, WakeUp, Stamp, TakeLastInput,
                 CheckPainted, Ask, RefreshResolves, RefreshTimesOut, RefreshCloses, TakeFrame
          <5>2. holder \in {r, Nobody}
            BY <4>3, <5>1 DEF TakeHands, DropHands, Cancel, At, Hands, Unbraided
          <5>3. req[s].pc \notin {"execute", "sleep", "drop"}
            BY <5>2 DEF Hands, Unbraided
          <5> QED
            BY <2>1, <4>1, <5>3 DEF Hands, Unbraided
        <4> QED
          BY <4>2, <4>3
      <3>2. Unbraided(r)'
        <4>1. ASSUME NEW pc, Goto(r, pc) PROVE req'[r].pc = pc
          BY <1>0, <4>1 DEF Goto
        <4>2. ASSUME NEW pc, Ends(r, pc) PROVE req'[r].pc = pc
          BY <1>0, <4>2 DEF Ends, NewRequest
        <4>3. CASE Arrive(r)
          <5>1. req[r].pc = "new" /\ req'[r].pc \in {"take", "queue", "done"}
            BY <1>0, <4>2, <4>3 DEF Arrive, At
          <5> QED
            BY <2>1, <5>1 DEF Hands, Unbraided
        <4>4. CASE TakeHands(r)
          <5>1. req[r].pc = "queue" /\ req'[r].pc = "execute" /\ holder' = r
            BY <4>1, <4>4 DEF TakeHands, At
          <5> QED
            BY <2>1, <5>1 DEF Hands, Unbraided
        <4>5. CASE FallAsleep(r) \/ WakeUp(r) \/ Stamp(r)
          <5>1. /\ req[r].pc \in {"execute", "sleep"} /\ req'[r].pc \in {"execute", "sleep", "drop"}
                /\ holder' = holder
            BY <1>0, <4>1, <4>5 DEF FallAsleep, WakeUp, Stamp, Executing, At, handsVars
          <5> QED
            BY <2>1, <5>1 DEF Hands, Unbraided
        <4>6. CASE \/ DropHands(r) \/ TakeLastInput(r) \/ CheckPainted(r) \/ Ask(r)
                   \/ RefreshResolves(r) \/ RefreshTimesOut(r) \/ RefreshCloses(r) \/ TakeFrame(r)
                   \/ Cancel(r)
          <5>1. req'[r].pc \in {"take", "done", "settle", "ask", "wait", "frame", "image", "gone"}
            <6>1. CASE DropHands(r) \/ TakeLastInput(r) \/ CheckPainted(r) \/ Ask(r)
              BY <1>0, <4>1, <4>2, <6>1 DEF DropHands, TakeLastInput, CheckPainted, Ask
            <6>2. CASE RefreshResolves(r) \/ RefreshTimesOut(r) \/ RefreshCloses(r)
              BY <1>0, <4>1, <4>2, <6>2 DEF RefreshResolves, RefreshTimesOut, RefreshCloses
            <6>3. CASE TakeFrame(r)
              BY <1>0, <4>1, <4>2, <6>3 DEF TakeFrame
            <6>4. CASE Cancel(r)
              BY <1>0, <4>1, <4>2, <6>4 DEF Cancel
            <6> QED
              BY <4>6, <6>1, <6>2, <6>3, <6>4
          <5> QED
            BY <5>1 DEF Unbraided
        <4> QED
          BY <1>2, <2>4, <4>3, <4>4, <4>5, <4>6 DEF Handler
      <3> QED
        BY <2>2, <3>1, <3>2 DEF Hands
    <2>5. CASE DesktopDraws \/ UpdateArrives \/ ScreenResizes \/ ResizesBehindRect \/ UpdateEnds
       \/ SessionDies \/ Tick \/ UNCHANGED vars
      <3>1. holder' = holder /\ \A s \in Requests : req'[s].pc = req[s].pc
        BY <1>0, <2>5
           DEF DesktopDraws, UpdateArrives, ScreenResizes, ResizesBehindRect,
       UpdateEnds, SessionDies, Tick, handsVars, vars
      <3> QED
        BY <2>2, <2>3, <3>1 DEF Hands
    <2> QED
      BY <2>4, <2>5 DEF Next
  <1> QED
    BY <1>1, <1>2

\* One pair of hands, for any number of handlers: the inputs of an action are
\* never mixed with another's, though each sleeps in the middle of its plan and
\* may be dropped there.
THEOREM Unmixed == Spec => []NeverBraided
  <1>1. Hands => NeverBraided
    BY DEF Hands
  <1> QED
    BY <1>1, Starts, TypesStay, HandsStart, HandsStay, PTL DEF Spec

-----------------------------------------------------------------------------
(* Black images *)

\* Why a black screen would not be the handler's mistake: it has been resized since
\* it last looked, or what it knew of came behind a painted rect.
Unlucky(r) == resizes > req[r].asked \/ req[r].misled
Excused(r) == screen.black => Unlucky(r)

\* An update will answer the handler, and has resized the screen since it asked.
Found(r) == \E found \in unread : r \in found

Seen(r) ==
    /\ req[r].asked <= resizes
    /\ req[r].pc \notin {"wait", "frame"} => ~req[r].answered
    /\ req[r].pc \in {"ask", "wait"} /\ ~req[r].whole => Excused(r)
    /\ req[r].pc = "wait" /\ req[r].answered => Excused(r)
    /\ req[r].pc = "frame" => Excused(r)
    /\ req[r].pc = "image" /\ req[r].image.black => Unlucky(r)
    /\ Found(r) => /\ req[r].pc \in {"wait", "frame", "image", "done", "gone"}
                   /\ req[r].pc = "wait" => resizes > req[r].asked

\* Of a screen that is painted and black, the last resize came behind a rect.
Sight ==
    /\ painted /\ screen.black => behind
    /\ unread # {} => screen.black
    /\ \A r \in Requests : Seen(r)

LEMMA SightStart == Init => Sight
  <1> SUFFICES ASSUME Init PROVE Sight
    OBVIOUS
  <1>1. ASSUME NEW r \in Requests PROVE Seen(r)
    <2>1. req[r].pc = "new" /\ req[r].asked = 0 /\ req[r].answered = FALSE /\ resizes = 0
          /\ ~Found(r)
      BY DEF Init, NewRequest, Found
    <2> QED
      BY <2>1 DEF Seen
  <1> QED
    BY <1>1 DEF Init, Sight

LEMMA SightStays == TypeOK /\ Sight /\ [Next]_vars => Sight'
  <1> SUFFICES ASSUME TypeOK, Sight, [Next]_vars PROVE Sight'
    OBVIOUS
  <1>0. /\ DOMAIN req = Requests
        /\ \A r \in Requests :
              /\ req[r].asked \in Nat
              /\ {"pc", "asked", "misled", "answered", "whole", "image", "timer"}
                    \subseteq DOMAIN req[r]
        /\ resizes \in Nat /\ painted \in BOOLEAN
    <2>1. req \in [Requests -> Handlers] /\ resizes \in Nat /\ painted \in BOOLEAN
      BY DEF TypeOK
    <2>2. \A h \in Handlers : /\ h.asked \in Nat
                              /\ {"pc", "asked", "misled", "answered", "whole", "image", "timer"}
                                    \subseteq DOMAIN h
      BY DEF Handlers
    <2> QED
      BY <2>1, <2>2
  <1>1. ASSUME NEW r \in Requests, req'[r] = req[r], UNCHANGED <<screen, resizes>>,
               unread' \subseteq unread
        PROVE  Seen(r)'
    BY <1>1 DEF Sight, Seen, Excused, Unlucky, Found
  <1>2. ASSUME NEW r \in Requests, Arrive(r) \/ Handler(r) \/ Cancel(r) PROVE Sight'
    <2>1. UNCHANGED sessionVars
      BY <1>2 DEF Arrive, Handler, Cancel, TakeHands, Send, FallAsleep, WakeUp, Stamp, DropHands,
                  TakeLastInput, CheckPainted, Ask, RefreshResolves, RefreshTimesOut, RefreshCloses,
                  TakeFrame
    <2>2. (painted /\ screen.black => behind)' /\ (unread # {} => screen.black)'
      BY <2>1 DEF sessionVars, Sight
    <2>3. ASSUME NEW s \in Requests \ {r} PROVE Seen(s)'
      <3>1. req'[s] = req[s]
        BY <1>0, <1>2, HandlerSteps
      <3> QED
        BY <1>1, <2>1, <3>1 DEF sessionVars
    <2>4. Seen(r)'
      <3>0. Seen(r) /\ UNCHANGED <<painted, screen, resizes, behind>> /\ Found(r)' = Found(r)
        BY <2>1 DEF sessionVars, Sight, Found
      <3>1. ASSUME NEW pc \in {"done", "gone"}, Ends(r, pc) PROVE Seen(r)'
        <4>1. req'[r].pc = pc /\ req'[r].asked = 0 /\ req'[r].answered = FALSE
          BY <1>0, <3>1 DEF Ends, NewRequest
        <4> QED
          BY <1>0, <3>0, <3>1, <4>1 DEF Seen
      <3>2. ASSUME req[r].pc \notin {"wait", "frame", "image", "done", "gone"},
                   req'[r].pc \in {"queue", "execute", "sleep", "drop", "take", "settle"},
                   req'[r].asked = req[r].asked, req'[r].answered = req[r].answered
            PROVE  Seen(r)'
        BY <3>0, <3>2 DEF Seen
      <3>3. CASE Arrive(r)
        <4>1. \/ Ends(r, "done")
              \/ /\ req[r].pc = "new" /\ req'[r].pc \in {"take", "queue"}
                 /\ req'[r].asked = req[r].asked /\ req'[r].answered = req[r].answered
          <5> PICK b \in Bodies[r] :
                  \/ req' = [req EXCEPT ![r] = [@ EXCEPT !.pc = "take", !.body = b]]
                  \/ LET ops == Plan(b, Pacing) IN
                     req' = [req EXCEPT ![r] = [@ EXCEPT !.pc = "queue", !.body = b, !.ops = ops,
                                !.input = \E i \in DOMAIN ops : IsInput(ops[i])]]
                  \/ Ends(r, "done")
            BY <3>3 DEF Arrive
          <5>1. req[r].pc = "new"
            BY <3>3 DEF Arrive, At
          <5> DEFINE ops == Plan(b, Pacing)
                     input == \E i \in DOMAIN ops : IsInput(ops[i])
          <5>2. \/ req' = [req EXCEPT ![r] = [@ EXCEPT !.pc = "take", !.body = b]]
                \/ req' = [req EXCEPT ![r] = [@ EXCEPT !.pc = "queue", !.body = b, !.ops = ops,
                                !.input = input]]
                \/ Ends(r, "done")
            OBVIOUS
          <5> HIDE DEF ops, input
          <5>3. CASE req' = [req EXCEPT ![r] = [@ EXCEPT !.pc = "take", !.body = b]]
            BY <1>0, <5>1, <5>3
          <5>4. CASE req' = [req EXCEPT ![r] = [@ EXCEPT !.pc = "queue", !.body = b, !.ops = ops,
                                !.input = input]]
            BY <1>0, <5>1, <5>4
          <5> QED
            BY <5>2, <5>3, <5>4
        <4> QED
          BY <3>1, <3>2, <4>1
      <3>4. CASE TakeHands(r) \/ Send(r) \/ FallAsleep(r) \/ WakeUp(r) \/ Stamp(r) \/ TakeLastInput(r)
        <4>1. req[r].pc \in {"queue", "execute", "sleep", "take"}
          BY <3>4 DEF TakeHands, Send, FallAsleep, WakeUp, Stamp, TakeLastInput, Executing, At
        <4>2. /\ req'[r].pc \in {"execute", "sleep", "drop", "settle"}
              /\ req'[r].asked = req[r].asked /\ req'[r].answered = req[r].answered
          <5>1. CASE TakeHands(r) \/ WakeUp(r) \/ Stamp(r)
            BY <1>0, <5>1 DEF TakeHands, WakeUp, Stamp, Goto
          <5>2. CASE Send(r)
            <6>1. \/ req' = [req EXCEPT ![r] = [@ EXCEPT !.ops = Tail(req[r].ops)]]
                  \/ req' = [req EXCEPT ![r] = [@ EXCEPT !.ops = <<>>, !.failed = TRUE]]
              BY <5>2 DEF Send
            <6> QED
              BY <1>0, <5>2, <6>1 DEF Send, Executing, At
          <5>3. CASE FallAsleep(r)
            BY <1>0, <5>3 DEF FallAsleep
          <5>4. CASE TakeLastInput(r)
            BY <1>0, <5>4 DEF TakeLastInput
          <5> QED
            BY <3>4, <5>1, <5>2, <5>3, <5>4
        <4> QED
          BY <3>2, <4>1, <4>2
      <3>5. CASE DropHands(r)
        <4>1. \/ Ends(r, "done")
              \/ /\ req[r].pc = "drop" /\ req'[r].pc = "take"
                 /\ req'[r].asked = req[r].asked /\ req'[r].answered = req[r].answered
          BY <1>0, <3>5 DEF DropHands, At, Goto
        <4> QED
          BY <3>1, <3>2, <4>1
      <3>6. CASE CheckPainted(r)
        <4>1. /\ req[r].pc = "settle" /\ req'[r].pc = "ask" /\ req'[r].asked = resizes
              /\ req'[r].answered = req[r].answered /\ req'[r].misled = behind
          BY <1>0, <3>6 DEF CheckPainted, At
        <4>2. ~req'[r].whole => painted
          BY <1>0, <3>0, <3>6 DEF CheckPainted
        <4>3. req'[r].asked <= resizes'
          BY <1>0, <3>0, <4>1
        <4>4. painted /\ screen.black => behind
          BY DEF Sight
        <4> QED
          BY <3>0, <4>1, <4>2, <4>3, <4>4 DEF Seen, Excused, Unlucky
      <3>7. CASE Ask(r)
        <4>1. \/ Ends(r, "done")
              \/ /\ req[r].pc = "ask" /\ req'[r].pc = "wait" /\ req'[r].asked = req[r].asked
                 /\ req'[r].answered = req[r].answered /\ req'[r].whole = req[r].whole
                 /\ req'[r].misled = req[r].misled
          <5>1. \/ Ends(r, "done")
                \/ req' = [req EXCEPT ![r] = [@ EXCEPT !.pc = "wait", !.timer = Wait(r)]]
            BY <3>7 DEF Ask
          <5>2. req[r].pc = "ask"
            BY <3>7 DEF Ask, At
          <5> QED
            BY <1>0, <5>1, <5>2
        <4> QED
          BY <3>0, <3>1, <4>1 DEF Seen, Excused, Unlucky
      <3>8. CASE RefreshResolves(r)
        <4>1. /\ req[r].pc = "wait" /\ req[r].answered /\ req'[r].pc = "frame"
              /\ req'[r].asked = req[r].asked /\ req'[r].misled = req[r].misled
          BY <1>0, <3>8 DEF RefreshResolves, At, Goto
        <4> QED
          BY <3>0, <4>1 DEF Seen, Excused, Unlucky
      <3>9. CASE RefreshTimesOut(r)
        <4>1. \/ Ends(r, "done")
              \/ /\ req[r].pc = "wait" /\ ~req[r].whole /\ req'[r].pc = "frame"
                 /\ req'[r].asked = req[r].asked /\ req'[r].misled = req[r].misled
          BY <1>0, <3>9 DEF RefreshTimesOut, At, Goto
        <4> QED
          BY <3>0, <3>1, <4>1 DEF Seen, Excused, Unlucky
      <3>10. CASE RefreshCloses(r)
        BY <3>1, <3>10 DEF RefreshCloses
      <3>11. CASE TakeFrame(r)
        <4>1. /\ req[r].pc = "frame" /\ req'[r].pc = "image" /\ req'[r].asked = req[r].asked
              /\ req'[r].image = screen /\ req'[r].answered = FALSE
              /\ req'[r].misled = req[r].misled
          BY <1>0, <3>11 DEF TakeFrame, At, NewRequest
        <4> QED
          BY <3>0, <4>1 DEF Seen, Excused, Unlucky
      <3>12. CASE Cancel(r)
        BY <3>1, <3>12 DEF Cancel
      <3> QED
        BY <1>2, <3>3, <3>4, <3>5, <3>6, <3>7, <3>8, <3>9, <3>10, <3>11, <3>12 DEF Handler
    <2> QED
      BY <2>2, <2>3, <2>4 DEF Sight
  <1>3. CASE UpdateArrives
    <2>1. /\ screen'.black = FALSE /\ UNCHANGED <<resizes, unread>> /\ unread = {}
          /\ \A r \in Requests : /\ req'[r].pc = req[r].pc /\ req'[r].asked = req[r].asked
                                 /\ req'[r].image = req[r].image /\ req'[r].misled = req[r].misled
                                 /\ req[r].pc # "wait" => req'[r].answered = req[r].answered
      BY <1>0, <1>3 DEF UpdateArrives, At
    <2>2. ASSUME NEW r \in Requests PROVE Seen(r)'
      BY <2>1 DEF Sight, Seen, Excused, Unlucky, Found
    <2> QED
      BY <2>1, <2>2 DEF Sight
  <1>4. CASE ScreenResizes \/ ResizesBehindRect
    <2>1. /\ painted' = FALSE /\ resizes' = resizes + 1 /\ screen'.black = TRUE /\ req' = req
      BY <1>4 DEF ScreenResizes, ResizesBehindRect
    <2>2. ASSUME NEW r \in Requests PROVE Seen(r)'
      <3>1. req[r].asked <= resizes /\ resizes + 1 > req[r].asked
        BY <1>0 DEF Sight, Seen
      <3>2. Found(r)' => Found(r) \/ req[r].pc = "wait"
        BY <1>4 DEF ScreenResizes, ResizesBehindRect, Found, At
      <3> QED
        BY <1>0, <2>1, <3>1, <3>2 DEF Sight, Seen, Excused, Unlucky
    <2> QED
      BY <2>1, <2>2 DEF Sight
  <1>7. CASE UpdateEnds
    <2>1. /\ screen' = screen /\ resizes' = resizes /\ behind' = TRUE /\ unread' = {}
          /\ \A r \in Requests :
                /\ req'[r].pc = req[r].pc /\ req'[r].asked = req[r].asked
                /\ req'[r].image = req[r].image /\ req'[r].whole = req[r].whole
                /\ req'[r].misled = req[r].misled
                /\ \/ req'[r].answered = req[r].answered
                   \/ req[r].pc = "wait" /\ Found(r)
      BY <1>0, <1>7 DEF UpdateEnds, At, Found
    <2>2. ASSUME NEW r \in Requests PROVE Seen(r)'
      BY <2>1 DEF Sight, Seen, Excused, Unlucky, Found
    <2> QED
      BY <2>1, <2>2 DEF Sight
  <1>5. CASE DesktopDraws \/ SessionDies \/ UNCHANGED vars
    <2>1. UNCHANGED <<painted, screen, resizes, behind, req>> /\ unread' \subseteq unread
      BY <1>5 DEF DesktopDraws, SessionDies, vars, sessionVars
    <2> QED
      BY <1>1, <2>1 DEF Sight
  <1>6. CASE Tick
    <2>1. /\ UNCHANGED sessionVars
          /\ \A r \in Requests : /\ req'[r].pc = req[r].pc /\ req'[r].asked = req[r].asked
                                 /\ req'[r].image = req[r].image /\ req'[r].whole = req[r].whole
                                 /\ req'[r].answered = req[r].answered
                                 /\ req'[r].misled = req[r].misled
      BY <1>0, <1>6 DEF Tick
    <2>2. ASSUME NEW r \in Requests PROVE Seen(r)'
      BY <2>1 DEF Sight, Seen, Excused, Unlucky, Found, sessionVars
    <2> QED
      BY <2>1, <2>2 DEF Sight, sessionVars
  <1> QED
    BY <1>2, <1>3, <1>4, <1>5, <1>6, <1>7 DEF Next

\* A black image has its excuse, whatever the delays: the screen was resized after
\* the handler had looked, or the resize it knew of came behind a painted rect of
\* its own update, which leaves painted() true of a black framebuffer.
THEOREM BlackImages == Spec => []BlackOnlyAfterResize
  <1>1. Sight => BlackOnlyAfterResize
    BY DEF Sight, Seen, Unlucky, BlackOnlyAfterResize, At
  <1> QED
    BY <1>1, Starts, TypesStay, SightStart, SightStays, PTL DEF Spec

-----------------------------------------------------------------------------
(* What an image shows *)

LEMMA Delayed ==
    Redraw < InputSettle /\ UpdatePeriod < AfterInputWait /\ UpdatePeriod < FrameTimeout
  BY DelayAssumption DEF DelayAssumption

\* Every input on the wire is drawn or has an age, which is at most Redraw; and
\* nobody owes what is not on the wire.
Books ==
    /\ drawn + Len(undrawn) = Len(wire)
    /\ \A i \in DOMAIN undrawn : undrawn[i] <= Redraw
    /\ lastInput.upto <= Len(wire)
    /\ \A r \in Requests : req[r].owes <= Len(wire)

\* Of the first n inputs those that are not drawn are at least this old.
Aged(n, age) == \A i \in DOMAIN undrawn : drawn + i <= n => undrawn[i] >= age

LEMMA Shapes ==
    ASSUME TypeOK
    PROVE  /\ undrawn \in Seq(Nat) /\ DOMAIN undrawn = 1 .. Len(undrawn) /\ Len(undrawn) \in Nat
           /\ \A i \in DOMAIN undrawn : undrawn[i] \in Nat
           /\ drawn \in Nat /\ Len(wire) \in Nat /\ lastInput.upto \in Nat
           /\ lastInput.age \in -1 .. InputSettle /\ unsent \in -1 .. UpdatePeriod
           /\ DOMAIN req = Requests /\ \A r \in Requests : req[r].owes \in Nat
           /\ \A r \in Requests : req[r].timer \in Nat
  <1>1. /\ undrawn \in Seq(Nat) /\ drawn \in Nat /\ wire \in Seq([by : Requests, op : RfbOp])
        /\ lastInput.upto \in Nat /\ lastInput.age \in -1 .. InputSettle
        /\ unsent \in -1 .. UpdatePeriod /\ req \in [Requests -> Handlers]
    BY DEF TypeOK
  <1>2. \A r \in Requests : req[r].owes \in Nat /\ req[r].timer \in Nat
    BY <1>1, Fields
  <1>3. \A i \in DOMAIN undrawn : undrawn[i] \in Nat
    BY <1>1, Elements
  <1> QED
    BY <1>1, <1>2, <1>3

\* The same, a few at a time.
LEMMA Rows ==
    ASSUME TypeOK
    PROVE  /\ undrawn \in Seq(Nat) /\ DOMAIN undrawn = 1 .. Len(undrawn) /\ Len(undrawn) \in Nat
           /\ \A i \in DOMAIN undrawn : undrawn[i] \in Nat
  BY Shapes

LEMMA Counts ==
    ASSUME TypeOK
    PROVE  drawn \in Nat /\ Len(wire) \in Nat /\ Len(undrawn) \in Nat
  BY Shapes

LEMMA Clocks ==
    ASSUME TypeOK, NEW r \in Requests
    PROVE  unsent \in -1 .. UpdatePeriod /\ req[r].timer \in Nat /\ req[r].owes \in Nat
  BY Shapes

LEMMA Suffixes ==
    ASSUME NEW S, NEW s \in Seq(S), NEW k \in 1 .. Len(s)
    PROVE  LET t == SubSeq(s, k + 1, Len(s)) IN
           /\ Len(t) = Len(s) - k /\ DOMAIN t = 1 .. Len(s) - k
           /\ \A i \in 1 .. Len(s) - k : t[i] = s[k + i] /\ k + i \in 1 .. Len(s)
  <1>1. Len(s) \in Nat /\ k \in Nat
    OBVIOUS
  <1> DEFINE t == SubSeq(s, k + 1, Len(s))
  <1>2. \A i \in k + 1 .. Len(s) : s[i] \in S
    BY <1>1
  <1>3. /\ t \in Seq(S) /\ Len(t) = (IF k + 1 <= Len(s) THEN Len(s) - (k + 1) + 1 ELSE 0)
        /\ \A i \in 1 .. Len(s) - (k + 1) + 1 : t[i] = s[(k + 1) + i - 1]
    BY <1>1, <1>2, SubSeqProperties
  <1>4. Len(s) - (k + 1) + 1 = Len(s) - k /\ Len(s) - k \in Nat
        /\ \A i \in 1 .. Len(s) - k : (k + 1) + i - 1 = k + i /\ k + i \in 1 .. Len(s)
    BY <1>1
  <1> HIDE DEF t
  <1>5. Len(t) = Len(s) - k /\ DOMAIN t = 1 .. Len(s) - k
    <2>1. k + 1 <= Len(s) \/ Len(s) - k = 0
      BY <1>1
    <2>2. Len(t) = Len(s) - k
      BY <1>3, <1>4, <2>1
    <2>3. DOMAIN t = 1 .. Len(t)
      BY <1>3
    <2> QED
      BY <2>2, <2>3
  <1>6. \A i \in 1 .. Len(s) - k : t[i] = s[k + i] /\ k + i \in 1 .. Len(s)
    BY <1>3, <1>4
  <1> QED
    BY <1>5, <1>6 DEF t

\* The steps that let no time pass, and those that do not change what is shown
\* either.
Quiet ==
    \/ \E r \in Requests : Arrive(r) \/ Handler(r) \/ Cancel(r)
    \/ DesktopDraws \/ SessionDies \/ UNCHANGED vars
Timeless == Quiet \/ UpdateArrives \/ ScreenResizes \/ ResizesBehindRect \/ UpdateEnds

LEMMA EveryStep == [Next]_vars => Timeless \/ Tick
  BY DEF Next, Timeless, Quiet

LEMMA Undrawn ==
    ASSUME TypeOK, [Next]_vars
    PROVE  \A i \in DOMAIN undrawn' : undrawn'[i] \in Nat /\ ~(drawn' + i <= 0)
  <1>1. undrawn' \in Seq(Nat) /\ drawn' \in Nat
    BY TypesStay DEF TypeOK
  <1>2. \A i \in DOMAIN undrawn' : undrawn'[i] \in Nat /\ i \in Nat \ {0}
    BY <1>1
  <1> QED
    BY <1>1, <1>2

\* How the desktop's own books change.
LEMMA Drawing ==
    ASSUME TypeOK, Timeless
    PROVE  \/ UNCHANGED <<drawn, undrawn, wire>>
           \/ /\ undrawn' = Append(undrawn, 0) /\ drawn' = drawn /\ Len(wire') = Len(wire) + 1
           \/ \E k \in 1 .. Len(undrawn) :
                /\ drawn' = drawn + k /\ undrawn' = SubSeq(undrawn, k + 1, Len(undrawn))
                /\ UNCHANGED wire
  <1>1. ASSUME NEW r \in Requests, Send(r)
        PROVE  \/ UNCHANGED <<drawn, undrawn, wire>>
               \/ undrawn' = Append(undrawn, 0) /\ drawn' = drawn /\ Len(wire') = Len(wire) + 1
    <2>1. CASE connected
      BY <1>1, <2>1, Sending DEF Send
    <2>2. CASE ~connected
      BY <1>1, <2>2 DEF Send
    <2> QED
      BY <2>1, <2>2
  <1>2. ASSUME NEW r \in Requests, Arrive(r) \/ Handler(r) \/ Cancel(r), ~Send(r)
        PROVE  UNCHANGED <<drawn, undrawn, wire>>
    BY <1>2 DEF Arrive, Handler, Cancel, TakeHands, FallAsleep, WakeUp, Stamp, DropHands, desktopVars,
                TakeLastInput, CheckPainted, Ask, RefreshResolves, RefreshTimesOut, RefreshCloses,
                TakeFrame
  <1>3. CASE DesktopDraws
    BY <1>3 DEF DesktopDraws
  <1>4. CASE UpdateArrives \/ ScreenResizes \/ ResizesBehindRect \/ UpdateEnds
       \/ SessionDies \/ UNCHANGED vars
    BY <1>4 DEF UpdateArrives, ScreenResizes, ResizesBehindRect,
       UpdateEnds, SessionDies, vars, desktopVars
  <1> QED
    BY <1>1, <1>2, <1>3, <1>4 DEF Timeless, Quiet

LEMMA AgesKeep ==
    ASSUME TypeOK, Books, Timeless, NEW n \in Nat, n <= Len(wire), NEW age \in Int,
           Aged(n, age)
    PROVE  Aged(n, age)'
  <1>1. CASE UNCHANGED <<drawn, undrawn, wire>>
    BY <1>1 DEF Aged
  <1>2. CASE undrawn' = Append(undrawn, 0) /\ drawn' = drawn
    <2> SUFFICES ASSUME NEW i \in DOMAIN undrawn', drawn + i <= n PROVE undrawn'[i] >= age
      BY <1>2 DEF Aged
    <2>1. i \in 1 .. Len(undrawn) + 1
      BY <1>2, Rows
    <2>2. i \in 1 .. Len(undrawn)
      <3>1. drawn + Len(undrawn) = Len(wire) /\ drawn + i <= n /\ n <= Len(wire)
        BY <1>2 DEF Books
      <3>2. drawn \in Nat /\ Len(wire) \in Nat /\ Len(undrawn) \in Nat
        BY Counts
      <3>3. i \in Nat /\ i >= 1
        BY <2>1, <3>2
      <3>4. i <= Len(undrawn)
        BY <3>1, <3>2, <3>3
      <3> QED
        BY <3>2, <3>3, <3>4
    <2>3. undrawn'[i] = undrawn[i]
      BY <1>2, <2>2, Rows
    <2> QED
      BY <2>2, <2>3, Shapes DEF Aged
  <1>3. ASSUME NEW k \in 1 .. Len(undrawn), drawn' = drawn + k,
               undrawn' = SubSeq(undrawn, k + 1, Len(undrawn))
        PROVE  Aged(n, age)'
    <2> SUFFICES ASSUME NEW i \in DOMAIN undrawn', drawn + k + i <= n PROVE undrawn'[i] >= age
      BY <1>3 DEF Aged
    <2>1. i \in 1 .. Len(undrawn) - k
      BY <1>3, Shapes
    <2>2. undrawn'[i] = undrawn[k + i] /\ k + i \in 1 .. Len(undrawn)
      BY <1>3, <2>1, Suffixes, Shapes
    <2>3. drawn + (k + i) <= n
      <3>1. i \in Nat /\ k \in Nat /\ drawn \in Nat
        BY <2>1, Counts
      <3> QED
        BY <3>1
    <2> QED
      BY <2>2, <2>3, Shapes DEF Aged
  <1> QED
    BY <1>1, <1>2, <1>3, Drawing

LEMMA AgesGrow ==
    ASSUME TypeOK, Books, Tick, connected, NEW n \in Nat, NEW age \in Int, Aged(n, age)
    PROVE  Aged(n, age + 1)'
  <1>1. /\ undrawn' = [i \in DOMAIN undrawn |-> AtMost(undrawn[i] + 1, Redraw)] /\ drawn' = drawn
        /\ \A i \in DOMAIN undrawn : undrawn[i] < Redraw
    BY DEF Tick
  <1>2. ASSUME NEW i \in DOMAIN undrawn, drawn + i <= n
        PROVE  AtMost(undrawn[i] + 1, Redraw) >= age + 1
    <2>1. undrawn[i] >= age /\ undrawn[i] < Redraw /\ undrawn[i] \in Nat
      BY <1>1, <1>2, Shapes DEF Aged
    <2> QED
      BY <2>1, Delays DEF AtMost
  <1> QED
    BY <1>1, <1>2 DEF Aged

\* What becomes of a handler's record, action by action.
LEMMA Owing ==
    ASSUME TypeOK, [Next]_vars, NEW s \in Requests
    PROVE  req'[s].owes \in {0, req[s].owes, lastInput.upto}
  <1>0. /\ DOMAIN req = Requests
        /\ \A r \in Requests : {"owes", "timer", "answered"} \subseteq DOMAIN req[r]
    <2>1. req \in [Requests -> Handlers]
      BY DEF TypeOK
    <2>2. \A h \in Handlers : {"owes", "timer", "answered"} \subseteq DOMAIN h
      BY DEF Handlers
    <2> QED
      BY <2>1, <2>2
  <1>1. ASSUME NEW r \in Requests, Arrive(r) \/ Handler(r) \/ Cancel(r)
        PROVE  req'[s].owes \in {0, req[s].owes, lastInput.upto}
    <2>1. CASE s # r
      <3>1. req'[s] = req[s]
        BY <1>0, <1>1, <2>1, HandlerSteps
      <3> QED
        BY <3>1
    <2>2. CASE s = r
      <3>1. ASSUME NEW pc, Goto(r, pc) \/ Ends(r, pc) PROVE req'[r].owes = req[r].owes
        BY <1>0, <3>1 DEF Goto, Ends, NewRequest
      <3>2. CASE Arrive(r)
        <4> PICK b \in Bodies[r] :
                  \/ req' = [req EXCEPT ![r] = [@ EXCEPT !.pc = "take", !.body = b]]
                  \/ LET ops == Plan(b, Pacing) IN
                     req' = [req EXCEPT ![r] = [@ EXCEPT !.pc = "queue", !.body = b, !.ops = ops,
                                !.input = \E i \in DOMAIN ops : IsInput(ops[i])]]
                  \/ Ends(r, "done")
          BY <3>2 DEF Arrive
        <4> DEFINE ops == Plan(b, Pacing)
                   input == \E i \in DOMAIN ops : IsInput(ops[i])
        <4>1. \/ req' = [req EXCEPT ![r] = [@ EXCEPT !.pc = "take", !.body = b]]
              \/ req' = [req EXCEPT ![r] = [@ EXCEPT !.pc = "queue", !.body = b, !.ops = ops,
                              !.input = input]]
              \/ Ends(r, "done")
          OBVIOUS
        <4> HIDE DEF ops, input
        <4>2. CASE req' = [req EXCEPT ![r] = [@ EXCEPT !.pc = "take", !.body = b]]
          BY <1>0, <2>2, <4>2
        <4>3. CASE req' = [req EXCEPT ![r] = [@ EXCEPT !.pc = "queue", !.body = b, !.ops = ops,
                              !.input = input]]
          BY <1>0, <2>2, <4>3
        <4> QED
          BY <2>2, <3>1, <4>1, <4>2, <4>3
      <3>3. CASE Send(r)
        <4>1. \/ req' = [req EXCEPT ![r] = [@ EXCEPT !.ops = Tail(req[r].ops)]]
              \/ req' = [req EXCEPT ![r] = [@ EXCEPT !.ops = <<>>, !.failed = TRUE]]
          BY <3>3 DEF Send
        <4> QED
          BY <1>0, <2>2, <4>1
      <3>4. CASE FallAsleep(r)
        BY <1>0, <2>2, <3>4 DEF FallAsleep
      <3>5. CASE TakeLastInput(r)
        BY <1>0, <2>2, <3>5 DEF TakeLastInput
      <3>6. CASE CheckPainted(r)
        BY <1>0, <2>2, <3>6 DEF CheckPainted
      <3>7. CASE Ask(r)
        BY <1>0, <2>2, <3>1, <3>7 DEF Ask
      <3>8. CASE TakeFrame(r)
        BY <1>0, <2>2, <3>8 DEF TakeFrame, NewRequest
      <3> QED
        BY <1>1, <2>2, <3>1, <3>2, <3>3, <3>4, <3>5, <3>6, <3>7, <3>8
           DEF Handler, Cancel, TakeHands, WakeUp, Stamp, DropHands, RefreshResolves,
               RefreshTimesOut, RefreshCloses
    <2> QED
      BY <2>1, <2>2
  <1>2. CASE UpdateArrives \/ UpdateEnds
    BY <1>0, <1>2 DEF UpdateArrives, UpdateEnds
  <1>3. CASE Tick
    BY <1>0, <1>3 DEF Tick
  <1> QED
    BY <1>1, <1>2, <1>3 DEF Next, DesktopDraws, ScreenResizes, ResizesBehindRect, SessionDies, vars

LEMMA BooksStart == Init => Books
  BY DEF Init, Books, None, NewRequest

LEMMA BooksStay == TypeOK /\ Books /\ [Next]_vars => Books'
  <1> SUFFICES ASSUME TypeOK, Books, [Next]_vars PROVE Books'
    OBVIOUS
  <1>1. drawn' + Len(undrawn') = Len(wire') /\ Len(wire') >= Len(wire)
    <2>1. ASSUME NEW k \in 1 .. Len(undrawn), drawn' = drawn + k,
                 undrawn' = SubSeq(undrawn, k + 1, Len(undrawn)), UNCHANGED wire
          PROVE  drawn' + Len(undrawn') = Len(wire') /\ Len(wire') >= Len(wire)
      <3>1. Len(undrawn') = Len(undrawn) - k
        BY <2>1, Suffixes, Shapes
      <3>2. drawn \in Nat /\ Len(undrawn) \in Nat /\ drawn + Len(undrawn) = Len(wire)
            /\ Len(wire) \in Nat
        BY Shapes DEF Books
      <3>3. drawn' + Len(undrawn') = drawn + k + (Len(undrawn) - k)
        BY <2>1, <3>1
      <3>4. Len(wire') = Len(wire)
        BY <2>1
      <3>5. drawn + k + (Len(undrawn) - k) = drawn + Len(undrawn)
        BY <3>2
      <3> QED
        BY <3>2, <3>3, <3>4, <3>5
    <2>2. CASE undrawn' = Append(undrawn, 0) /\ drawn' = drawn /\ Len(wire') = Len(wire) + 1
      <3>1. Len(undrawn') = Len(undrawn) + 1
        BY <2>2, Rows
      <3>2. drawn + Len(undrawn) = Len(wire)
        BY DEF Books
      <3> QED
        BY <2>2, <3>1, <3>2, Counts
    <2>3. CASE Tick
      <3>1. undrawn' = [i \in DOMAIN undrawn |-> AtMost(undrawn[i] + 1, Redraw)]
            /\ UNCHANGED <<drawn, wire>>
        BY <2>3 DEF Tick
      <3>2. Len(undrawn') = Len(undrawn)
        BY <3>1, Shapes
      <3>3. drawn + Len(undrawn) = Len(wire) /\ Len(wire) \in Nat
        BY Shapes DEF Books
      <3> QED
        BY <3>1, <3>2, <3>3
    <2>4. CASE UNCHANGED <<drawn, undrawn, wire>>
      BY <2>4, Shapes DEF Books
    <2> QED
      BY <2>1, <2>2, <2>3, <2>4, Drawing, EveryStep
  <1>2. \A i \in DOMAIN undrawn' : undrawn'[i] <= Redraw
    <2>1. ASSUME NEW k \in 1 .. Len(undrawn), undrawn' = SubSeq(undrawn, k + 1, Len(undrawn)),
                 NEW i \in DOMAIN undrawn'
          PROVE  undrawn'[i] <= Redraw
      <3>1. undrawn'[i] = undrawn[k + i] /\ k + i \in 1 .. Len(undrawn)
        BY <2>1, Suffixes, Shapes
      <3> QED
        BY <3>1, Shapes DEF Books
    <2>2. ASSUME undrawn' = Append(undrawn, 0), NEW i \in DOMAIN undrawn' PROVE undrawn'[i] <= Redraw
      <3>1. undrawn'[i] = 0 \/ (i \in DOMAIN undrawn /\ undrawn'[i] = undrawn[i])
        <4>1. undrawn \in Seq(Nat) /\ i \in DOMAIN Append(undrawn, 0)
          BY <2>2, Rows
        <4> QED
          BY <2>2, <4>1
      <3> QED
        BY <3>1, Delays DEF Books
    <2>3. CASE Tick
      <3>1. undrawn' = [i \in DOMAIN undrawn |-> AtMost(undrawn[i] + 1, Redraw)]
        BY <2>3 DEF Tick
      <3>2. \A i \in DOMAIN undrawn : AtMost(undrawn[i] + 1, Redraw) <= Redraw
        BY Shapes, Delays DEF AtMost
      <3> QED
        BY <3>1, <3>2
    <2>4. CASE UNCHANGED undrawn
      BY <2>4 DEF Books
    <2> QED
      BY <2>1, <2>2, <2>3, <2>4, Drawing, EveryStep
  <1>3. lastInput'.upto <= Len(wire')
    <2>1. lastInput'.upto \in {0, lastInput.upto, Len(wire)}
      <3>1. CASE \E r \in Requests : Arrive(r) \/ Handler(r) \/ Cancel(r)
        <4>1. CASE \E r \in Requests : Stamp(r)
          BY <4>1 DEF Stamp
        <4>2. CASE \E r \in Requests : TakeLastInput(r)
          BY <4>2 DEF TakeLastInput, None
        <4> QED
          BY <3>1, <4>1, <4>2
             DEF Arrive, Handler, Cancel, TakeHands, Send, FallAsleep, WakeUp, DropHands,
                 CheckPainted, Ask, RefreshResolves, RefreshTimesOut, RefreshCloses, TakeFrame
      <3>2. CASE Tick
        <4>1. lastInput' = None \/ lastInput' = [lastInput EXCEPT !.age = AtMost(@ + 1, InputSettle)]
          BY <3>2 DEF Tick
        <4>2. lastInput \in [age : -1 .. InputSettle, upto : Nat]
          BY DEF TypeOK
        <4> QED
          BY <4>1, <4>2 DEF None
      <3> QED
        BY <3>1, <3>2 DEF Next, DesktopDraws, UpdateArrives, ScreenResizes, ResizesBehindRect,
       UpdateEnds, SessionDies, vars
    <2>2. lastInput.upto \in Nat /\ lastInput.upto <= Len(wire) /\ Len(wire) \in Nat
      BY Shapes DEF Books
    <2>3. Len(wire') \in Nat
      <3>1. wire' \in Seq([by : Requests, op : RfbOp])
        BY TypesStay DEF TypeOK
      <3> QED
        BY <3>1
    <2> QED
      BY <1>1, <2>1, <2>2, <2>3
  <1>4. ASSUME NEW s \in Requests PROVE req'[s].owes <= Len(wire')
    <2>1. req'[s].owes \in {0, req[s].owes, lastInput.upto}
      BY Owing
    <2> DEFINE owes == req'[s].owes
    <2>2. req[s].owes \in Nat /\ req[s].owes <= Len(wire)
          /\ lastInput.upto \in Nat /\ lastInput.upto <= Len(wire) /\ Len(wire) \in Nat
      BY Shapes DEF Books
    <2>3. Len(wire') \in Nat
      <3>1. wire' \in Seq([by : Requests, op : RfbOp])
        BY TypesStay DEF TypeOK
      <3> QED
        BY <3>1
    <2> HIDE DEF owes
    <2>a. owes \in {0, req[s].owes, lastInput.upto}
      BY <2>1 DEF owes
    <2>4. owes \in Nat /\ owes <= Len(wire)
      BY <2>2, <2>a
    <2>5. owes <= Len(wire')
      BY <1>1, <2>2, <2>3, <2>4
    <2> QED
      BY <2>5 DEF owes
  <1> QED
    BY <1>1, <1>2, <1>3, <1>4 DEF Books

\* An update that shows what the handler owes has come, or will in time.
Promised(r) ==
    \/ screen.black \/ screen.shows >= req[r].owes
    \/ ~req[r].answered /\ unsent >= 0 /\ unsent + req[r].timer > UpdatePeriod

Owed(r) ==
    /\ req[r].pc = "settle" => Aged(req[r].owes, InputSettle - req[r].timer)
    /\ req[r].pc \in {"ask", "wait", "frame"} => drawn >= req[r].owes
    /\ req[r].pc \in {"settle", "ask", "wait"} /\ ~req[r].after => req[r].owes = 0
    /\ req[r].pc = "wait" => Promised(r)
    /\ req[r].pc = "frame" => screen.black \/ screen.shows >= req[r].owes
    /\ req[r].pc = "image" => req[r].image.black \/ req[r].image.shows >= req[r].owes

Fresh ==
    connected =>
        /\ Aged(lastInput.upto, lastInput.age)
        /\ screen.black \/ unsent # -1 \/ screen.shows = drawn
        /\ \A r \in Requests : Owed(r)

LEMMA FreshStart == Init => Fresh
  <1> SUFFICES ASSUME Init PROVE Fresh
    OBVIOUS
  <1>1. ASSUME NEW r \in Requests PROVE Owed(r)
    <2>1. req[r].pc = "new"
      BY DEF Init, NewRequest
    <2> QED
      BY <2>1 DEF Owed
  <1>2. Aged(lastInput.upto, lastInput.age)
    BY DEF Init, Aged
  <1>3. screen.black
    BY DEF Init
  <1> QED
    BY <1>1, <1>2, <1>3 DEF Fresh

LEMMA QuietSteps ==
    ASSUME TypeOK, Books, Quiet
    PROVE  /\ drawn' >= drawn /\ screen' = screen /\ (unsent # -1 => unsent' = unsent)
           /\ unsent' = unsent \/ unsent' = 0
           /\ drawn' # drawn => unsent' # -1
  <1>1. CASE \E r \in Requests : Arrive(r) \/ Handler(r) \/ Cancel(r)
    <2>1. UNCHANGED <<drawn, unsent, screen>>
      BY <1>1 DEF Arrive, Handler, Cancel, TakeHands, Send, FallAsleep, WakeUp, Stamp, DropHands,
                  TakeLastInput, CheckPainted, Ask, RefreshResolves, RefreshTimesOut, RefreshCloses,
                  TakeFrame, sessionVars, desktopVars
    <2> QED
      BY <2>1, Shapes
  <1>2. CASE DesktopDraws
    <2> PICK k \in 1 .. Len(undrawn) : drawn' = drawn + k
      BY <1>2 DEF DesktopDraws
    <2>1. screen' = screen /\ unsent' = IF unsent = -1 THEN 0 ELSE unsent
      BY <1>2 DEF DesktopDraws, sessionVars
    <2>2. drawn' >= drawn
      BY Shapes
    <2> QED
      BY <2>1, <2>2
  <1>3. CASE SessionDies \/ UNCHANGED vars
    <2>1. UNCHANGED <<drawn, unsent, screen>>
      BY <1>3 DEF SessionDies, vars, sessionVars, desktopVars
    <2> QED
      BY <2>1, Shapes
  <1> QED
    BY <1>1, <1>2, <1>3 DEF Quiet

LEMMA QuietOwes ==
    ASSUME TypeOK, Books, Quiet, NEW r \in Requests, Owed(r), req'[r] = req[r]
    PROVE  Owed(r)'
  <1>1. PICK n : n = req[r].owes
    OBVIOUS
  <1>2. PICK age : age = InputSettle - req[r].timer
    OBVIOUS
  <1>3. n \in Nat /\ n <= Len(wire) /\ age \in Int
    BY <1>1, <1>2, Shapes, Delays DEF Books
  <1>4. req[r].pc = "settle" => Aged(n, age)'
    BY <1>1, <1>2, <1>3, AgesKeep DEF Owed, Timeless
  <1>5. req[r].pc = "settle" => Aged(req[r].owes, InputSettle - req[r].timer)'
    BY <1>1, <1>2, <1>4 DEF Aged
  <1>6. /\ drawn' >= drawn /\ screen' = screen /\ (unsent # -1 => unsent' = unsent)
        /\ drawn' \in Nat /\ drawn \in Nat /\ n \in Nat
    <2>1. [Next]_vars
      BY DEF Quiet, Next
    <2>2. drawn' \in Nat /\ drawn \in Nat
      BY <2>1, TypesStay DEF TypeOK
    <2> QED
      BY <1>3, <2>2, QuietSteps
  <1>7. req[r].pc = "wait" => Promised(r)'
    <2> SUFFICES ASSUME req[r].pc = "wait" PROVE Promised(r)'
      OBVIOUS
    <2>1. CASE screen.black \/ screen.shows >= req[r].owes
      BY <1>6, <2>1 DEF Promised
    <2>2. CASE ~req[r].answered /\ unsent >= 0 /\ unsent + req[r].timer > UpdatePeriod
      <3>1. unsent # -1
        BY <2>2, Shapes
      <3> QED
        BY <1>6, <2>2, <3>1 DEF Promised
    <2> QED
      BY <2>1, <2>2 DEF Owed, Promised
  <1>8. req[r].pc \in {"ask", "wait", "frame"} => drawn' >= req[r].owes
    <2> SUFFICES ASSUME req[r].pc \in {"ask", "wait", "frame"} PROVE drawn' >= n
      BY <1>1
    <2>1. drawn >= n
      BY <1>1 DEF Owed
    <2> QED
      BY <1>6, <2>1
  <1>9. /\ req[r].pc \in {"settle", "ask", "wait"} /\ ~req[r].after => req[r].owes = 0
        /\ req[r].pc = "frame" => screen'.black \/ screen'.shows >= req[r].owes
        /\ req[r].pc = "image" => req[r].image.black \/ req[r].image.shows >= req[r].owes
    BY <1>6 DEF Owed
  <1> QED
    BY <1>5, <1>7, <1>8, <1>9 DEF Owed

\* While the session lives it was alive before.
LEMMA StaysDead == [Next]_vars /\ connected' => connected
  <1>1. CASE \E r \in Requests : Arrive(r) \/ Handler(r) \/ Cancel(r)
    BY <1>1 DEF Arrive, Handler, Cancel, TakeHands, Send, FallAsleep, WakeUp, Stamp, DropHands,
                TakeLastInput, CheckPainted, Ask, RefreshResolves, RefreshTimesOut, RefreshCloses,
                TakeFrame, sessionVars
  <1> QED
    BY <1>1 DEF Next, DesktopDraws, UpdateArrives, ScreenResizes, ResizesBehindRect,
       UpdateEnds, SessionDies, Tick, vars, sessionVars

\* What a handler of a screenshot does to what it owes.
LEMMA HandlerOwes ==
    ASSUME TypeOK, Books, Sight, Fresh, connected, NEW r \in Requests,
           Arrive(r) \/ Handler(r) \/ Cancel(r)
    PROVE  Owed(r)'
  <1>0. /\ DOMAIN req = Requests
        /\ {"pc", "owes", "timer", "answered", "after", "whole", "image", "asked"}
              \subseteq DOMAIN req[r]
        /\ req[r].owes \in Nat /\ req[r].timer \in Nat
        /\ Owed(r) /\ drawn \in Nat
    <2>1. req \in [Requests -> Handlers] /\ drawn \in Nat
      BY DEF TypeOK
    <2>2. \A h \in Handlers :
             {"pc", "owes", "timer", "answered", "after", "whole", "image", "asked"} \subseteq DOMAIN h
      BY DEF Handlers
    <2> QED
      BY <2>1, <2>2, Fields DEF Fresh
  <1>1. ASSUME req'[r].pc \in {"queue", "execute", "sleep", "drop", "take", "done", "gone"}
        PROVE  Owed(r)'
    BY <1>1 DEF Owed
  <1>2. ASSUME NEW pc \in {"done", "gone"}, Ends(r, pc) PROVE Owed(r)'
    <2>1. req'[r].pc = pc
      BY <1>0, <1>2 DEF Ends, NewRequest
    <2> QED
      BY <1>1, <2>1
  <1>3. CASE Arrive(r)
    <2>1. req'[r].pc \in {"queue", "take", "done"}
      <3> PICK b \in Bodies[r] :
                \/ req' = [req EXCEPT ![r] = [@ EXCEPT !.pc = "take", !.body = b]]
                \/ LET ops == Plan(b, Pacing) IN
                   req' = [req EXCEPT ![r] = [@ EXCEPT !.pc = "queue", !.body = b, !.ops = ops,
                              !.input = \E i \in DOMAIN ops : IsInput(ops[i])]]
                \/ Ends(r, "done")
        BY <1>3 DEF Arrive
      <3> DEFINE ops == Plan(b, Pacing)
                 input == \E i \in DOMAIN ops : IsInput(ops[i])
      <3>1. \/ req' = [req EXCEPT ![r] = [@ EXCEPT !.pc = "take", !.body = b]]
            \/ req' = [req EXCEPT ![r] = [@ EXCEPT !.pc = "queue", !.body = b, !.ops = ops,
                            !.input = input]]
            \/ Ends(r, "done")
        OBVIOUS
      <3> HIDE DEF ops, input
      <3>2. Ends(r, "done") => req'[r].pc = "done"
        BY <1>0 DEF Ends, NewRequest
      <3> QED
        BY <1>0, <3>1, <3>2
    <2> QED
      BY <1>1, <2>1
  <1>4. CASE TakeHands(r) \/ WakeUp(r) \/ Stamp(r) \/ FallAsleep(r)
    <2>1. req'[r].pc \in {"execute", "sleep", "drop"}
      BY <1>0, <1>4 DEF TakeHands, WakeUp, Stamp, FallAsleep, Goto
    <2> QED
      BY <1>1, <2>1
  <1>5. CASE Send(r)
    <2>1. req'[r].pc = "execute"
      <3>1. \/ req' = [req EXCEPT ![r] = [@ EXCEPT !.ops = Tail(req[r].ops)]]
            \/ req' = [req EXCEPT ![r] = [@ EXCEPT !.ops = <<>>, !.failed = TRUE]]
        BY <1>5 DEF Send
      <3> QED
        BY <1>0, <1>5, <3>1 DEF Send, Executing, At
    <2> QED
      BY <1>1, <2>1
  <1>6. CASE DropHands(r)
    <2>1. req'[r].pc = "take" \/ Ends(r, "done")
      BY <1>0, <1>6 DEF DropHands, Goto
    <2> QED
      BY <1>1, <1>2, <2>1
  <1>7. CASE TakeLastInput(r)
    <2>1. /\ req'[r].pc = "settle" /\ req'[r].owes = lastInput.upto
          /\ UNCHANGED <<drawn, undrawn>>
          /\ req'[r].after = (lastInput # None)
          /\ req'[r].timer = IF lastInput # None THEN InputSettle - lastInput.age ELSE 0
      BY <1>0, <1>7 DEF TakeLastInput, desktopVars
    <2>2. ~req'[r].after => req'[r].owes = 0
      <3>1. lastInput = None => lastInput.upto = 0
        BY DEF None
      <3> QED
        BY <2>1, <3>1
    <2>3. Aged(req[r].owes, InputSettle - req[r].timer)'
      <3>1. CASE lastInput = None
        <4>1. \A i \in DOMAIN undrawn : ~(drawn + i <= 0)
          BY Shapes
        <4> QED
          BY <2>1, <3>1, <4>1 DEF None, Aged
      <3>2. CASE lastInput # None
        <4>1. InputSettle - req'[r].timer = lastInput.age
          BY <2>1, <3>2, Shapes, Delays
        <4>2. Aged(lastInput.upto, lastInput.age)
          BY DEF Fresh
        <4> QED
          BY <2>1, <4>1, <4>2 DEF Aged
      <3> QED
        BY <3>1, <3>2
    <2> QED
      BY <2>1, <2>2, <2>3 DEF Owed
  <1>8. CASE CheckPainted(r)
    <2>1. /\ req[r].pc = "settle" /\ req[r].timer = 0 /\ req'[r].pc = "ask"
          /\ req'[r].owes = req[r].owes /\ req'[r].after = req[r].after /\ drawn' = drawn
      BY <1>0, <1>8 DEF CheckPainted, At, desktopVars
    <2>2. drawn >= req[r].owes
      <3>1. Aged(req[r].owes, InputSettle - 0)
        BY <1>0, <2>1 DEF Owed
      <3>2. ASSUME NEW i \in DOMAIN undrawn, drawn + i <= req[r].owes PROVE FALSE
        <4>1. undrawn[i] >= InputSettle - 0
          BY <3>1, <3>2 DEF Aged
        <4>2. undrawn[i] <= Redraw /\ undrawn[i] \in Nat
          BY Rows DEF Books
        <4> QED
          BY <4>1, <4>2, Delays, Delayed
      <3>3. CASE Len(undrawn) = 0
        <4>1. drawn + Len(undrawn) = Len(wire) /\ req[r].owes <= Len(wire)
          BY DEF Books
        <4> QED
          BY <1>0, <3>3, <4>1
      <3>4. CASE Len(undrawn) # 0
        <4>1. 1 \in DOMAIN undrawn
          BY <3>4, Shapes
        <4>2. ~(drawn + 1 <= req[r].owes)
          BY <3>2, <4>1
        <4> QED
          BY <1>0, <4>2
      <3> QED
        BY <3>3, <3>4
    <2> QED
      BY <1>0, <2>1, <2>2 DEF Owed
  <1>9. CASE Ask(r)
    <2>1. /\ req[r].pc = "ask" /\ req'[r].pc = "wait" /\ req'[r].owes = req[r].owes
          /\ req'[r].after = req[r].after /\ UNCHANGED <<drawn, unsent, screen>>
          /\ req'[r].timer = Wait(r) /\ req'[r].answered = req[r].answered
      BY <1>0, <1>9 DEF Ask, At, desktopVars, sessionVars
    <2>2. drawn >= req[r].owes /\ (~req[r].after => req[r].owes = 0)
      BY <1>0, <2>1 DEF Owed
    <2>3. ~req[r].answered
      BY <2>1 DEF Sight, Seen
    <2>4. Promised(r)'
      <3>1. CASE screen.black \/ screen.shows = drawn
        BY <2>1, <2>2, <3>1 DEF Promised
      <3>2. CASE req[r].owes = 0
        <4>1. screen.shows \in Nat
          BY DEF TypeOK
        <4> QED
          BY <2>1, <3>2, <4>1 DEF Promised
      <3>3. CASE unsent # -1 /\ req[r].owes # 0
        <4>1. req[r].after
          BY <2>2, <3>3
        <4>2. Wait(r) > UpdatePeriod /\ Wait(r) \in Nat
          BY <4>1, Delays, Delayed DEF Wait, AtMost
        <4>3. unsent >= 0 /\ unsent + Wait(r) > UpdatePeriod
          BY <3>3, <4>2, Shapes, Delays
        <4> QED
          BY <2>1, <2>3, <4>3 DEF Promised
      <3> QED
        BY <3>1, <3>2, <3>3 DEF Fresh
    <2> QED
      BY <2>1, <2>2, <2>4 DEF Owed
  <1>10. CASE RefreshResolves(r)
    <2>1. /\ req[r].pc = "wait" /\ req[r].answered /\ req'[r].pc = "frame"
          /\ req'[r].owes = req[r].owes /\ UNCHANGED <<drawn, screen>>
      BY <1>0, <1>10 DEF RefreshResolves, At, Goto, desktopVars, sessionVars
    <2>2. drawn >= req[r].owes /\ (screen.black \/ screen.shows >= req[r].owes)
      BY <1>0, <2>1 DEF Owed, Promised
    <2> QED
      BY <2>1, <2>2 DEF Owed
  <1>11. CASE RefreshTimesOut(r)
    <2>1. \/ Ends(r, "done")
          \/ /\ req[r].pc = "wait" /\ req[r].timer = 0 /\ req'[r].pc = "frame"
             /\ req'[r].owes = req[r].owes /\ UNCHANGED <<drawn, screen>>
      BY <1>0, <1>11 DEF RefreshTimesOut, At, Goto, desktopVars, sessionVars
    <2>2. CASE Ends(r, "done")
      BY <1>2, <2>2
    <2>3. CASE ~Ends(r, "done")
      <3>1. ~(unsent + req[r].timer > UpdatePeriod)
        BY <2>1, <2>3, Shapes, Delays
      <3>2. drawn >= req[r].owes /\ (screen.black \/ screen.shows >= req[r].owes)
        BY <1>0, <2>1, <2>3, <3>1 DEF Owed, Promised
      <3> QED
        BY <2>1, <2>3, <3>2 DEF Owed
    <2> QED
      BY <2>2, <2>3
  <1>12. CASE RefreshCloses(r)
    BY <1>2, <1>12 DEF RefreshCloses
  <1>13. CASE TakeFrame(r)
    <2>1. /\ req[r].pc = "frame" /\ req'[r].pc = "image" /\ req'[r].owes = req[r].owes
          /\ req'[r].image = screen
      BY <1>0, <1>13 DEF TakeFrame, At, NewRequest
    <2>2. screen.black \/ screen.shows >= req[r].owes
      BY <1>0, <2>1 DEF Owed
    <2> QED
      BY <2>1, <2>2 DEF Owed
  <1>14. CASE Cancel(r)
    BY <1>2, <1>14 DEF Cancel
  <1> QED
    BY <1>3, <1>4, <1>5, <1>6, <1>7, <1>8, <1>9, <1>10, <1>11, <1>12, <1>13, <1>14 DEF Handler

LEMMA FreshStays == TypeOK /\ Books /\ Sight /\ Fresh /\ [Next]_vars => Fresh'
  <1> SUFFICES ASSUME TypeOK, Books, Sight, Fresh, [Next]_vars, connected'
               PROVE  /\ Aged(lastInput.upto, lastInput.age)'
                      /\ (screen.black \/ unsent # -1 \/ screen.shows = drawn)'
                      /\ \A r \in Requests : Owed(r)'
    BY DEF Fresh
  <1>0. /\ connected /\ Aged(lastInput.upto, lastInput.age)
        /\ screen.black \/ unsent # -1 \/ screen.shows = drawn
        /\ \A r \in Requests : Owed(r)
    BY StaysDead DEF Fresh
  <1>1. Quiet => (screen.black \/ unsent # -1 \/ screen.shows = drawn)'
    BY <1>0, QuietSteps
  <1>2. ASSUME Timeless, lastInput' = lastInput PROVE Aged(lastInput.upto, lastInput.age)'
    <2>1. PICK n : n = lastInput.upto
      OBVIOUS
    <2>2. PICK age : age = lastInput.age
      OBVIOUS
    <2>3. n \in Nat /\ n <= Len(wire) /\ age \in Int
      BY <2>1, <2>2, Shapes DEF Books
    <2>4. Aged(n, age)'
      BY <1>0, <1>2, <2>1, <2>2, <2>3, AgesKeep
    <2> QED
      BY <1>2, <2>1, <2>2, <2>4 DEF Aged
  <1>3. ASSUME Quiet, NEW s \in Requests, req'[s] = req[s] PROVE Owed(s)'
    BY <1>0, <1>3, QuietOwes
  <1>4. ASSUME NEW r \in Requests, Arrive(r) \/ Handler(r) \/ Cancel(r)
        PROVE  /\ Aged(lastInput.upto, lastInput.age)'
               /\ \A s \in Requests : Owed(s)'
               /\ Quiet
    <2>1. Quiet
      BY <1>4 DEF Quiet
    <2>2. ASSUME lastInput' = lastInput PROVE Aged(lastInput.upto, lastInput.age)'
      BY <1>2, <2>1, <2>2 DEF Timeless
    <2>3. ASSUME lastInput' # lastInput PROVE Aged(lastInput.upto, lastInput.age)'
      <3>1. (lastInput' = [age |-> 0, upto |-> Len(wire)] /\ UNCHANGED undrawn) \/ lastInput' = None
        BY <1>4, <2>3
           DEF Arrive, Handler, Cancel, TakeHands, Send, FallAsleep, WakeUp, Stamp, DropHands,
               TakeLastInput, CheckPainted, Ask, RefreshResolves, RefreshTimesOut, RefreshCloses,
               TakeFrame, desktopVars
      <3>2. CASE lastInput' = None
        <4>1. [Next]_vars
          BY <1>4 DEF Next
        <4>2. \A i \in DOMAIN undrawn' : ~(drawn' + i <= 0)
          BY <4>1, Undrawn
        <4> QED
          BY <3>2, <4>2 DEF None, Aged
      <3>3. CASE lastInput' = [age |-> 0, upto |-> Len(wire)] /\ UNCHANGED undrawn
        <4>1. \A i \in DOMAIN undrawn : undrawn[i] >= 0
          BY Shapes
        <4> QED
          BY <3>3, <4>1 DEF Aged
      <3> QED
        BY <3>1, <3>2, <3>3
    <2>4. ASSUME NEW s \in Requests PROVE Owed(s)'
      <3>1. CASE s = r
        BY <1>0, <1>4, <3>1, HandlerOwes
      <3>2. CASE s # r
        <4>1. req'[s] = req[s]
          <5>1. PICK g \in Handlers : req' = [req EXCEPT ![r] = g]
            BY <1>4, HandlerSteps
          <5>2. DOMAIN req = Requests
            BY Shapes
          <5> QED
            BY <3>2, <5>1, <5>2
        <4> QED
          BY <1>3, <2>1, <4>1
      <3> QED
        BY <3>1, <3>2
    <2> QED
      BY <2>1, <2>2, <2>3, <2>4
  <1>5. CASE DesktopDraws \/ SessionDies \/ UNCHANGED vars
    <2>1. Quiet /\ req' = req /\ lastInput' = lastInput
      BY <1>5 DEF Quiet, DesktopDraws, SessionDies, vars
    <2> QED
      BY <1>1, <1>2, <1>3, <2>1 DEF Timeless
  <1>6. CASE UpdateArrives
    <2>1. /\ screen'.black = FALSE /\ screen'.shows = drawn /\ unsent' = -1
          /\ UNCHANGED <<drawn, undrawn, lastInput>>
          /\ \A r \in Requests :
                /\ req'[r].pc = req[r].pc /\ req'[r].owes = req[r].owes
                /\ req'[r].timer = req[r].timer /\ req'[r].after = req[r].after
                /\ req'[r].image = req[r].image
      <3>1. \A r \in Requests : {"pc", "owes", "timer", "after", "image", "answered"} \subseteq DOMAIN req[r]
        <4>1. req \in [Requests -> Handlers]
          BY DEF TypeOK
        <4>2. \A h \in Handlers : {"pc", "owes", "timer", "after", "image", "answered"} \subseteq DOMAIN h
          BY DEF Handlers
        <4> QED
          BY <4>1, <4>2
      <3> QED
        BY <1>6, <3>1 DEF UpdateArrives
    <2>2. ASSUME NEW r \in Requests PROVE Owed(r)'
      <3>1. Owed(r) /\ drawn \in Nat /\ req[r].owes \in Nat
        BY <1>0, Shapes
      <3> QED
        BY <2>1, <3>1 DEF Owed, Promised, Aged
    <2> QED
      BY <1>2, <1>6, <2>1, <2>2 DEF Timeless
  <1>7. CASE ScreenResizes \/ ResizesBehindRect \/ UpdateEnds
    <2>1. screen'.black /\ UNCHANGED <<drawn, undrawn, lastInput>>
          /\ \A r \in Requests :
                /\ req'[r].pc = req[r].pc /\ req'[r].owes = req[r].owes
                /\ req'[r].timer = req[r].timer /\ req'[r].after = req[r].after
                /\ req'[r].image = req[r].image
      <3>1. \A r \in Requests : {"pc", "owes", "timer", "after", "image", "answered"} \subseteq DOMAIN req[r]
        <4>1. req \in [Requests -> Handlers]
          BY DEF TypeOK
        <4>2. \A h \in Handlers : {"pc", "owes", "timer", "after", "image", "answered"} \subseteq DOMAIN h
          BY DEF Handlers
        <4> QED
          BY <4>1, <4>2
      <3>2. CASE ScreenResizes \/ ResizesBehindRect
        <4>1. /\ screen' = [black |-> TRUE, shows |-> 0]
              /\ UNCHANGED <<drawn, undrawn, lastInput, req>>
          BY <3>2 DEF ScreenResizes, ResizesBehindRect, desktopVars
        <4> QED
          BY <4>1
      <3>3. CASE UpdateEnds
        <4>1. screen'.black /\ UNCHANGED <<drawn, undrawn, lastInput>>
          BY <3>3 DEF UpdateEnds, desktopVars, Sight
        <4>2. PICK found : req' = [r \in Requests |-> IF At(r, "wait") /\ r \in found
                                     THEN [req[r] EXCEPT !.answered = TRUE] ELSE req[r]]
          BY <3>3 DEF UpdateEnds
        <4> QED
          BY <3>1, <4>1, <4>2
      <3> QED
        BY <1>7, <3>2, <3>3
    <2>2. ASSUME NEW r \in Requests PROVE Owed(r)'
      BY <1>0, <2>1 DEF Owed, Promised, Aged
    <2> QED
      BY <1>2, <1>7, <2>1, <2>2 DEF Timeless
  <1>8. CASE Tick
    <2>0. \A r \in Requests : {"pc", "owes", "timer", "after", "image", "answered"} \subseteq DOMAIN req[r]
      <3>1. req \in [Requests -> Handlers]
        BY DEF TypeOK
      <3>2. \A h \in Handlers : {"pc", "owes", "timer", "after", "image", "answered"} \subseteq DOMAIN h
        BY DEF Handlers
      <3> QED
        BY <3>1, <3>2
    <2>1. /\ UNCHANGED <<drawn, screen>> /\ unsent < UpdatePeriod
          /\ unsent' = IF unsent = -1 THEN -1 ELSE AtMost(unsent + 1, UpdatePeriod)
          /\ \A r \in Requests :
                /\ req'[r].pc = req[r].pc /\ req'[r].owes = req[r].owes
                /\ req'[r].after = req[r].after /\ req'[r].image = req[r].image
                /\ req'[r].answered = req[r].answered
                /\ req'[r].timer = IF req[r].timer > 0 THEN req[r].timer - 1 ELSE 0
      BY <1>0, <1>8, <2>0 DEF Tick, sessionVars
    <2>2. unsent' = IF unsent = -1 THEN -1 ELSE unsent + 1
      BY <2>1, Shapes, Delays DEF AtMost
    <2>3. (screen.black \/ unsent # -1 \/ screen.shows = drawn)'
      BY <1>0, <2>1, <2>2, Shapes
    <2>4. Aged(lastInput.upto, lastInput.age)'
      <3>1. CASE lastInput = None
        <4>1. lastInput' = None
          BY <1>8, <3>1 DEF Tick
        <4>3. \A i \in DOMAIN undrawn' : ~(drawn' + i <= 0)
          BY Undrawn
        <4> QED
          BY <4>1, <4>3 DEF None, Aged
      <3>2. CASE lastInput # None
        <4>1. PICK n : n = lastInput.upto
          OBVIOUS
        <4>2. PICK age : age = lastInput.age
          OBVIOUS
        <4>3. n \in Nat /\ age \in Int
          BY <4>1, <4>2, Shapes
        <4>4. Aged(n, age + 1)'
          BY <1>0, <1>8, <4>1, <4>2, <4>3, AgesGrow
        <4>5. lastInput'.upto = n /\ lastInput'.age <= age + 1 /\ lastInput'.age \in Int
          <5>1. lastInput \in [age : -1 .. InputSettle, upto : Nat]
            BY DEF TypeOK
          <5>2. lastInput' = [lastInput EXCEPT !.age = AtMost(@ + 1, InputSettle)]
            BY <1>8, <3>2 DEF Tick
          <5> QED
            BY <4>1, <4>2, <5>1, <5>2, Delays DEF AtMost
        <4>7. \A i \in DOMAIN undrawn' : undrawn'[i] \in Nat
          BY Undrawn
        <4> QED
          BY <4>3, <4>4, <4>5, <4>7 DEF Aged
      <3> QED
        BY <3>1, <3>2
    <2>5. ASSUME NEW r \in Requests PROVE Owed(r)'
      <3>0. Owed(r) /\ req[r].timer \in Nat /\ req[r].owes \in Nat /\ drawn \in Nat
        BY <1>0, Shapes
      <3>1. req[r].pc = "settle" => Aged(req[r].owes, InputSettle - req[r].timer)'
        <4> SUFFICES ASSUME req[r].pc = "settle"
                     PROVE  Aged(req[r].owes, InputSettle - req[r].timer)'
          OBVIOUS
        <4>1. PICK n : n = req[r].owes
          OBVIOUS
        <4>2. PICK age : age = InputSettle - req[r].timer
          OBVIOUS
        <4>3. n \in Nat /\ age \in Int /\ Aged(n, age)
          BY <3>0, <4>1, <4>2, Delays DEF Owed
        <4>4. Aged(n, age + 1)'
          BY <1>0, <1>8, <4>3, AgesGrow
        <4>5. InputSettle - req'[r].timer <= age + 1 /\ InputSettle - req'[r].timer \in Int
          BY <2>1, <3>0, <4>2, Delays
        <4>7. \A i \in DOMAIN undrawn' : undrawn'[i] \in Nat
          BY Undrawn
        <4>8. req'[r].owes = n
          BY <2>1, <4>1
        <4> QED
          BY <4>3, <4>4, <4>5, <4>7, <4>8 DEF Aged
      <3>2. req[r].pc = "wait" => Promised(r)'
        <4> SUFFICES ASSUME req[r].pc = "wait" PROVE Promised(r)'
          OBVIOUS
        <4>1. CASE screen.black \/ screen.shows >= req[r].owes
          BY <2>1, <4>1 DEF Promised
        <4>2. CASE ~req[r].answered /\ unsent >= 0 /\ unsent + req[r].timer > UpdatePeriod
          <5>0. unsent \in Int /\ req[r].timer \in Nat /\ UpdatePeriod \in Nat
            BY Clocks, Delays
          <5>1. req[r].timer > 0
            BY <2>1, <3>0, <4>2, Shapes, Delays
          <5>2. unsent' = unsent + 1 /\ req'[r].timer = req[r].timer - 1
            BY <2>1, <2>2, <4>2, <5>0, <5>1
          <5>3. unsent' >= 0 /\ unsent' + req'[r].timer > UpdatePeriod
            BY <4>2, <5>0, <5>2
          <5> QED
            BY <2>1, <4>2, <5>3 DEF Promised
        <4> QED
          BY <3>0, <4>1, <4>2 DEF Owed, Promised
      <3> QED
        BY <2>1, <3>0, <3>1, <3>2 DEF Owed
    <2> QED
      BY <2>3, <2>4, <2>5
  <1> QED
    BY <1>1, <1>4, <1>5, <1>6, <1>7, <1>8 DEF Next

\* A screenshot shows the input it let settle, for any delays the waits were
\* chosen for: the desktop draws within the settling time, and sends within the
\* wait what it drew.
THEOREM ImagesShowInput == Spec => []ScreenshotShowsInput
  <1>1. Fresh => ScreenshotShowsInput
    BY DEF Fresh, Owed, ScreenshotShowsInput, At
  <1> QED
    BY <1>1, Starts, TypesStay, SightStart, SightStays, BooksStart, BooksStay, FreshStart,
       FreshStays, PTL DEF Spec

-----------------------------------------------------------------------------
(* The input that is remembered *)

Covered(i) == \E n \in Taken : n >= i

Inputless(ops) == \A i \in DOMAIN ops : ~IsInput(ops[i])

Acting == {"queue", "execute", "sleep", "drop"}
Served == {"drop", "take", "settle", "ask", "wait", "frame", "image", "done"}

\* A plan without input has none; who has served its action sent what is covered;
\* and before it takes a frame a handler owes nothing.
Remembers(r) ==
    /\ req[r].pc \in Acting /\ ~req[r].input =>
         /\ Inputless(req[r].ops)
         /\ \A i \in DOMAIN wire : wire[i].by # r
    /\ req[r].pc \in Served => \A i \in DOMAIN wire : wire[i].by = r => Covered(i)
    /\ req[r].pc \in Acting \cup {"new", "take"} => req[r].owes = 0

Memory == \A r \in Requests : Remembers(r)

LEMMA MemoryStart == Init => Memory
  BY DEF Init, Memory, Remembers, NewRequest, Acting, Served

\* The course of a handler.
LEMMA Course ==
    ASSUME TypeOK, NEW r \in Requests, Arrive(r) \/ Handler(r) \/ Cancel(r)
    PROVE  /\ ~TakeLastInput(r) => req'[r].owes = req[r].owes
           /\ \/ /\ req[r].pc = "new" /\ req'[r].pc \in {"take", "done"}
              \/ /\ req[r].pc = "new" /\ req'[r].pc = "queue"
                 /\ ~req'[r].input => Inputless(req'[r].ops)
              \/ /\ req[r].pc \in Acting /\ req'[r].pc \in {"execute", "sleep", "drop"}
                 /\ req'[r].input = req[r].input
                 /\ Inputless(req[r].ops) => Inputless(req'[r].ops)
                 /\ req'[r].pc = "drop" => Stamp(r)
              \/ /\ req[r].pc \in Served
                 /\ req'[r].pc \in {"take", "settle", "ask", "wait", "frame", "image", "done"}
                 /\ req'[r].pc = "take" => req[r].pc = "drop"
              \/ req'[r].pc = "gone"
  <1> DEFINE h == req[r]
             g == req'[r]
             Owes == ~TakeLastInput(r) => req'[r].owes = req[r].owes
  <1>0. /\ DOMAIN req = Requests /\ h \in Handlers
        /\ {"pc", "owes", "timer", "after", "whole", "asked", "image", "ops", "input", "body",
            "failed"} \subseteq DOMAIN h
    <2>1. req \in [Requests -> Handlers]
      BY DEF TypeOK
    <2>2. \A f \in Handlers :
             {"pc", "owes", "timer", "after", "whole", "asked", "image", "ops", "input", "body",
              "failed"} \subseteq DOMAIN f
      BY DEF Handlers
    <2> QED
      BY <2>1, <2>2
  <1>1. ASSUME NEW pc, Goto(r, pc)
        PROVE  g.pc = pc /\ g.owes = h.owes /\ g.ops = h.ops /\ g.input = h.input
    BY <1>0, <1>1 DEF Goto
  <1>2. ASSUME NEW pc, Ends(r, pc) PROVE g.pc = pc /\ g.owes = h.owes
    BY <1>0, <1>2 DEF Ends, NewRequest
  <1>3. h.ops \in Seq(RfbOp)
    BY <1>0, Fields
  <1>4. h.ops # <<>> /\ Inputless(h.ops) => Inputless(Tail(h.ops))
    BY <1>3 DEF Inputless
  <1>5. Inputless(<<>>)
    BY DEF Inputless
  <1>6. CASE Arrive(r)
    <2> PICK b \in Bodies[r] :
              \/ req' = [req EXCEPT ![r] = [@ EXCEPT !.pc = "take", !.body = b]]
              \/ LET ops == Plan(b, Pacing) IN
                 req' = [req EXCEPT ![r] = [@ EXCEPT !.pc = "queue", !.body = b, !.ops = ops,
                            !.input = \E i \in DOMAIN ops : IsInput(ops[i])]]
              \/ Ends(r, "done")
      BY <1>6 DEF Arrive
    <2> DEFINE ops == Plan(b, Pacing)
               input == \E i \in DOMAIN ops : IsInput(ops[i])
    <2>1. \/ req' = [req EXCEPT ![r] = [@ EXCEPT !.pc = "take", !.body = b]]
          \/ req' = [req EXCEPT ![r] = [@ EXCEPT !.pc = "queue", !.body = b, !.ops = ops,
                          !.input = input]]
          \/ Ends(r, "done")
      OBVIOUS
    <2>2. ~input => Inputless(ops)
      BY DEF Inputless
    <2> HIDE DEF ops, input
    <2>3. h.pc = "new"
      BY <1>6 DEF Arrive, At
    <2>4. CASE req' = [req EXCEPT ![r] = [@ EXCEPT !.pc = "take", !.body = b]]
      BY <1>0, <2>3, <2>4
    <2>5. CASE req' = [req EXCEPT ![r] = [@ EXCEPT !.pc = "queue", !.body = b, !.ops = ops,
                          !.input = input]]
      <3>1. g.pc = "queue" /\ g.ops = ops /\ g.input = input /\ g.owes = h.owes
        BY <1>0, <2>5
      <3> QED
        BY <2>2, <2>3, <3>1
    <2>6. CASE Ends(r, "done")
      BY <1>2, <2>3, <2>6
    <2> QED
      BY <2>1, <2>4, <2>5, <2>6
  <1>7. CASE TakeHands(r) \/ WakeUp(r)
    BY <1>1, <1>7 DEF TakeHands, WakeUp, At, Acting
  <1>8. CASE Stamp(r)
    BY <1>1, <1>8 DEF Stamp, At, Acting
  <1>9. CASE Send(r)
    <2>1. /\ h.pc = "execute" /\ h.ops # <<>>
          /\ \/ req' = [req EXCEPT ![r] = [@ EXCEPT !.ops = Tail(req[r].ops)]]
             \/ req' = [req EXCEPT ![r] = [@ EXCEPT !.ops = <<>>, !.failed = TRUE]]
      BY <1>9 DEF Send, Executing, At
    <2>2. /\ g.pc = "execute" /\ g.input = h.input /\ g.owes = h.owes
          /\ g.ops \in {Tail(h.ops), <<>>}
      <3>1. CASE req' = [req EXCEPT ![r] = [@ EXCEPT !.ops = Tail(req[r].ops)]]
        BY <1>0, <2>1, <3>1
      <3>2. CASE req' = [req EXCEPT ![r] = [@ EXCEPT !.ops = <<>>, !.failed = TRUE]]
        BY <1>0, <2>1, <3>2
      <3> QED
        BY <2>1, <3>1, <3>2
    <2> QED
      BY <1>4, <1>5, <2>1, <2>2 DEF Acting
  <1>10. CASE FallAsleep(r)
    <2>1. h.pc = "execute" /\ h.ops # <<>>
      BY <1>10 DEF FallAsleep, Executing, At
    <2>2. g.pc = "sleep" /\ g.input = h.input /\ g.owes = h.owes /\ g.ops = Tail(h.ops)
      BY <1>0, <1>10 DEF FallAsleep
    <2> QED
      BY <1>4, <2>1, <2>2 DEF Acting
  <1>11. CASE DropHands(r)
    BY <1>1, <1>2, <1>11 DEF DropHands, At, Served
  <1>12. CASE TakeLastInput(r)
    <2>1. h.pc = "take" /\ g.pc = "settle"
      BY <1>0, <1>12 DEF TakeLastInput, At
    <2> QED
      BY <1>12, <2>1 DEF Served
  <1>13. CASE CheckPainted(r)
    <2>1. h.pc = "settle" /\ g.pc = "ask" /\ g.owes = h.owes
      BY <1>0, <1>13 DEF CheckPainted, At
    <2> QED
      BY <2>1 DEF Served
  <1>14. CASE Ask(r)
    <2>1. h.pc = "ask" /\ g.pc \in {"wait", "done"} /\ g.owes = h.owes
      BY <1>0, <1>2, <1>14 DEF Ask, At
    <2> QED
      BY <2>1 DEF Served
  <1>15. CASE RefreshResolves(r) \/ RefreshTimesOut(r) \/ RefreshCloses(r)
    <2>1. h.pc = "wait" /\ g.pc \in {"frame", "done"} /\ g.owes = h.owes
      BY <1>1, <1>2, <1>15 DEF RefreshResolves, RefreshTimesOut, RefreshCloses, At
    <2> QED
      BY <2>1 DEF Served
  <1>16. CASE TakeFrame(r)
    <2>1. h.pc = "frame" /\ g.pc = "image" /\ g.owes = h.owes
      BY <1>0, <1>16 DEF TakeFrame, At, NewRequest
    <2> QED
      BY <2>1 DEF Served
  <1>17. CASE Cancel(r)
    BY <1>2, <1>17 DEF Cancel
  <1> QED
    BY <1>6, <1>7, <1>8, <1>9, <1>10, <1>11, <1>12, <1>13, <1>14, <1>15, <1>16, <1>17 DEF Handler

\* What was covered stays covered.
LEMMA CoverStays ==
    ASSUME TypeOK, Books, Memory, [Next]_vars, NEW i \in Nat \ {0}, Covered(i)
    PROVE  Covered(i)'
  <1>0. /\ req \in [Requests -> Handlers] /\ lastInput.upto \in Nat /\ Len(wire) \in Nat
        /\ lastInput.upto <= Len(wire) /\ \A r \in Requests : req[r].owes \in Nat
    BY Shapes DEF TypeOK, Books
  <1>1. CASE \E r \in Requests : Stamp(r)
    <2> PICK r \in Requests : Stamp(r)
      BY <1>1
    <2>1. \A s \in Requests : req'[s].owes = req[s].owes
      <3>1. \A h \in Handlers : "owes" \in DOMAIN h
        BY DEF Handlers
      <3> QED
        BY <1>0, <3>1 DEF Stamp, Goto
    <2>2. lastInput'.upto >= lastInput.upto
      BY <1>0 DEF Stamp
    <2>3. lastInput'.upto \in Nat
      BY <1>0 DEF Stamp
    <2>4. PICK n \in Taken : n >= i
      BY DEF Covered
    <2>5. CASE n = lastInput.upto
      <3>1. lastInput'.upto >= i
        BY <1>0, <2>2, <2>3, <2>4, <2>5
      <3> QED
        BY <3>1 DEF Covered, Taken
    <2>6. CASE n # lastInput.upto
      <3>1. \E s \in Requests : req'[s].owes = n
        BY <2>1, <2>4, <2>6 DEF Taken
      <3> QED
        BY <2>4, <3>1 DEF Covered, Taken
    <2> QED
      BY <2>5, <2>6
  <1>2. CASE \E r \in Requests : TakeLastInput(r)
    <2> PICK r \in Requests : TakeLastInput(r)
      BY <1>2
    <2>1. req[r].owes = 0 /\ req'[r].owes = lastInput.upto
          /\ \A s \in Requests \ {r} : req'[s].owes = req[s].owes
      <3>1. \A h \in Handlers : "owes" \in DOMAIN h
        BY DEF Handlers
      <3>2. req[r].pc = "take"
        BY DEF TakeLastInput, At
      <3> QED
        BY <1>0, <3>1, <3>2 DEF TakeLastInput, Memory, Remembers
    <2>2. PICK n \in Taken : n >= i
      BY DEF Covered
    <2>3. \E s \in Requests : req'[s].owes = n
      BY <2>1, <2>2 DEF Taken
    <2> QED
      BY <2>2, <2>3 DEF Covered, Taken
  <1>3. CASE ~(\E r \in Requests : Stamp(r) \/ TakeLastInput(r))
    <2>1. \A s \in Requests : req'[s].owes = req[s].owes
      <3>1. \A h \in Handlers : {"owes", "timer", "answered"} \subseteq DOMAIN h
        BY DEF Handlers
      <3>2. ASSUME NEW r \in Requests, Arrive(r) \/ Handler(r) \/ Cancel(r)
            PROVE  \A s \in Requests : req'[s].owes = req[s].owes
        <4>1. req'[r].owes = req[r].owes
          BY <1>3, <3>2, Course
        <4>2. \A s \in Requests \ {r} : req'[s] = req[s]
          BY <1>0, <3>2, HandlerSteps
        <4> QED
          BY <4>1, <4>2
      <3> QED
        BY <1>0, <3>1, <3>2
           DEF Next, DesktopDraws, UpdateArrives, ScreenResizes, ResizesBehindRect,
       UpdateEnds, SessionDies, Tick, vars
    <2>2. lastInput'.upto = lastInput.upto
      <3>1. CASE \E r \in Requests : Arrive(r) \/ Handler(r) \/ Cancel(r)
        BY <1>3, <3>1
           DEF Arrive, Handler, Cancel, TakeHands, Send, FallAsleep, WakeUp, DropHands,
               CheckPainted, Ask, RefreshResolves, RefreshTimesOut, RefreshCloses, TakeFrame
      <3>2. CASE Tick
        <4>1. lastInput' = lastInput \/ lastInput' = [lastInput EXCEPT !.age = AtMost(@ + 1, InputSettle)]
          BY <3>2 DEF Tick
        <4>2. lastInput \in [age : -1 .. InputSettle, upto : Nat]
          BY DEF TypeOK
        <4> QED
          BY <4>1, <4>2
      <3> QED
        BY <3>1, <3>2 DEF Next, DesktopDraws, UpdateArrives, ScreenResizes, ResizesBehindRect,
       UpdateEnds, SessionDies, vars
    <2> QED
      BY <2>1, <2>2 DEF Covered, Taken
  <1> QED
    BY <1>1, <1>2, <1>3

LEMMA MemoryStays == TypeOK /\ Books /\ Hands /\ Memory /\ [Next]_vars => Memory'
  <1> SUFFICES ASSUME TypeOK, Books, Hands, Memory, [Next]_vars, NEW s \in Requests
               PROVE  Remembers(s)'
    BY DEF Memory
  <1>0. Remembers(s) /\ wire \in Seq([by : Requests, op : RfbOp])
        /\ req \in [Requests -> Handlers]
    BY DEF Memory, TypeOK
  <1>1. \A i \in DOMAIN wire : Covered(i) => Covered(i)'
    BY <1>0, CoverStays
  <1>2. ASSUME req'[s].pc = req[s].pc, req'[s].input = req[s].input, req'[s].ops = req[s].ops,
               req'[s].owes = req[s].owes, UNCHANGED wire
        PROVE  Remembers(s)'
    BY <1>0, <1>1, <1>2 DEF Remembers
  <1>3. ASSUME NEW r \in Requests, Arrive(r) \/ Handler(r) \/ Cancel(r), r # s
        PROVE  Remembers(s)'
    <2>1. req'[s] = req[s]
      BY <1>0, <1>3, HandlerSteps
    <2>2. CASE ~Send(r)
      <3>1. UNCHANGED wire
        BY <1>3, <2>2
           DEF Arrive, Handler, Cancel, TakeHands, FallAsleep, WakeUp, Stamp, DropHands,
               TakeLastInput, CheckPainted, Ask, RefreshResolves, RefreshTimesOut, RefreshCloses,
               TakeFrame
      <3> QED
        BY <1>2, <2>1, <3>1
    <2>3. CASE Send(r)
      <3>1. /\ wire' \in Seq([by : Requests, op : RfbOp])
            /\ \A i \in DOMAIN wire' : wire'[i].by = s => i \in DOMAIN wire /\ wire[i].by = s
        <4>1. wire' \in Seq([by : Requests, op : RfbOp])
          BY TypesStay DEF TypeOK
        <4>2. CASE ~connected
          BY <2>3, <4>1, <4>2, Sending
        <4>3. CASE connected
          <5> PICK n : n = Len(wire) + 1
            OBVIOUS
          <5>1. /\ Len(wire') = n /\ wire'[n] = [by |-> r, op |-> Head(req[r].ops)]
                /\ \A i \in 1 .. n - 1 : wire'[i] = wire[i]
            BY <2>3, <4>3, Sending
          <5>2. wire'[n].by = r
            BY <5>1
          <5>3. DOMAIN wire' = 1 .. n /\ DOMAIN wire = 1 .. n - 1 /\ n \in Nat \ {0}
            BY <1>0, <4>1, <5>1
          <5>4. 1 .. n = 1 .. n - 1 \cup {n}
            BY <5>3
          <5> QED
            BY <1>3, <4>1, <5>1, <5>2, <5>3, <5>4
        <4> QED
          BY <4>2, <4>3
      <3> QED
        BY <1>0, <1>1, <2>1, <3>1 DEF Remembers
    <2> QED
      BY <2>2, <2>3
  <1>4. ASSUME Arrive(s) \/ Handler(s) \/ Cancel(s) PROVE Remembers(s)'
    <2>1. CASE Send(s)
      <3>1. req[s].pc = "execute" /\ req'[s].pc = "execute"
        <4>1. \/ req' = [req EXCEPT ![s] = [@ EXCEPT !.ops = Tail(req[s].ops)]]
              \/ req' = [req EXCEPT ![s] = [@ EXCEPT !.ops = <<>>, !.failed = TRUE]]
          BY <2>1 DEF Send
        <4>2. "pc" \in DOMAIN req[s]
          BY <1>0 DEF Handlers
        <4> QED
          BY <1>0, <2>1, <4>1, <4>2 DEF Send, Executing, At
      <3>2. req[s].input /\ req'[s].input = req[s].input /\ req'[s].owes = req[s].owes
        <4>1. req[s].ops \in Seq(RfbOp) /\ req[s].ops # <<>> /\ IsInput(Head(req[s].ops))
          BY <1>0, <2>1, Fields DEF Send, Executing
        <4>2. ~Inputless(req[s].ops)
          BY <4>1 DEF Inputless
        <4>3. req[s].input
          BY <1>0, <3>1, <4>2 DEF Remembers, Acting
        <4>4. ~TakeLastInput(s)
          BY <3>1 DEF TakeLastInput, At
        <4> QED
          BY <1>4, <3>1, <4>3, <4>4, Course DEF Acting, Served
      <3> QED
        BY <1>0, <3>1, <3>2 DEF Remembers, Acting, Served
    <2>2. CASE ~Send(s)
      <3>0. UNCHANGED wire
        BY <1>4, <2>2
           DEF Arrive, Handler, Cancel, TakeHands, FallAsleep, WakeUp, Stamp, DropHands,
               TakeLastInput, CheckPainted, Ask, RefreshResolves, RefreshTimesOut, RefreshCloses,
               TakeFrame
      <3>1. Hands /\ (req[s].pc = "new" => \A i \in DOMAIN wire : wire[i].by # s)
        BY DEF Hands, Unbraided
      <3>2. CASE TakeLastInput(s)
        <4>1. req[s].pc = "take" /\ req'[s].pc = "settle"
          <5>1. "pc" \in DOMAIN req[s]
            BY <1>0 DEF Handlers
          <5> QED
            BY <1>0, <3>2, <5>1 DEF TakeLastInput, At
        <4> QED
          BY <1>0, <1>1, <3>0, <4>1 DEF Remembers, Acting, Served
      <3>3. CASE req'[s].pc = "drop" /\ req[s].pc \in Acting /\ ~TakeLastInput(s)
        <4>1. /\ Stamp(s) /\ req'[s].owes = req[s].owes /\ req'[s].input = req[s].input
              /\ Inputless(req[s].ops) => Inputless(req'[s].ops)
          BY <1>4, <3>3, Course DEF Acting, Served
        <4>2. CASE req[s].input
          <5>1. lastInput'.upto = Len(wire)
            BY <4>1, <4>2 DEF Stamp
          <5>2. \A i \in DOMAIN wire : Covered(i)'
            BY <1>0, <5>1 DEF Covered, Taken
          <5> QED
            BY <1>0, <3>0, <3>3, <4>1, <4>2, <5>2 DEF Remembers, Acting, Served
        <4>3. CASE ~req[s].input
          BY <1>0, <3>0, <3>3, <4>1, <4>3 DEF Remembers, Acting, Served
        <4> QED
          BY <4>2, <4>3
      <3>4. CASE ~(req'[s].pc = "drop" /\ req[s].pc \in Acting) /\ ~TakeLastInput(s)
        <4>1. req'[s].owes = req[s].owes
          BY <1>4, <3>4, Course
        <4>2. CASE req[s].pc = "new" /\ req'[s].pc \in {"take", "done"}
          BY <1>0, <3>0, <3>1, <4>1, <4>2 DEF Remembers, Acting, Served
        <4>3. CASE req[s].pc = "new" /\ req'[s].pc = "queue"
                   /\ (~req'[s].input => Inputless(req'[s].ops))
          BY <1>0, <3>0, <3>1, <4>1, <4>3 DEF Remembers, Acting, Served
        <4>4. CASE /\ req[s].pc \in Acting /\ req'[s].pc \in {"execute", "sleep"}
                   /\ req'[s].input = req[s].input
                   /\ Inputless(req[s].ops) => Inputless(req'[s].ops)
          BY <1>0, <3>0, <4>1, <4>4 DEF Remembers, Acting, Served
        <4>5. CASE /\ req[s].pc \in Served
                   /\ req'[s].pc \in {"take", "settle", "ask", "wait", "frame", "image", "done"}
                   /\ req'[s].pc = "take" => req[s].pc = "drop"
          BY <1>0, <1>1, <3>0, <4>1, <4>5 DEF Remembers, Acting, Served
        <4>6. CASE req'[s].pc = "gone"
          BY <4>6 DEF Remembers, Acting, Served
        <4> QED
          BY <1>4, <3>4, <4>2, <4>3, <4>4, <4>5, <4>6, Course
      <3> QED
        BY <3>2, <3>3, <3>4
    <2> QED
      BY <2>1, <2>2
  <1>5. CASE DesktopDraws \/ UpdateArrives \/ ScreenResizes \/ ResizesBehindRect \/ UpdateEnds
       \/ SessionDies \/ Tick \/ UNCHANGED vars
    <2>1. \A h \in Handlers : {"pc", "input", "ops", "owes", "timer", "answered"} \subseteq DOMAIN h
      BY DEF Handlers
    <2>2. /\ UNCHANGED wire
          /\ req'[s].pc = req[s].pc /\ req'[s].input = req[s].input
          /\ req'[s].ops = req[s].ops /\ req'[s].owes = req[s].owes
      BY <1>0, <1>5, <2>1
         DEF DesktopDraws, UpdateArrives, ScreenResizes, ResizesBehindRect,
       UpdateEnds, SessionDies, Tick, vars
    <2> QED
      BY <1>2, <2>2
  <1> QED
    BY <1>3, <1>4, <1>5 DEF Next

\* No input of an action that ran to its end, or failed in the middle, is
\* forgotten: the record or a screenshot has it.
THEOREM Remembered == Spec => []InputRemembered
  <1>1. TypeOK /\ Memory => InputRemembered
    <2> SUFFICES ASSUME TypeOK, Memory, NEW i \in DOMAIN wire, req[wire[i].by].pc \in {"drop", "done"}
                 PROVE  \E n \in Taken : n >= i
      BY DEF InputRemembered
    <2>1. wire[i].by \in Requests
      <3>1. wire \in Seq([by : Requests, op : RfbOp])
        BY DEF TypeOK
      <3>2. wire[i] \in [by : Requests, op : RfbOp]
        BY <3>1, Elements
      <3> QED
        BY <3>2
    <2> QED
      BY <2>1 DEF Memory, Remembers, Served, Covered
  <1> QED
    BY <1>1, Starts, TypesStay, BooksStart, BooksStay, HandsStart, HandsStay, MemoryStart,
       MemoryStays, PTL DEF Spec

-----------------------------------------------------------------------------
(* What is held down, and where it is pressed *)

\* In a sequence of operations: j is the pointer event before i.
Before(s, j, i) ==
    j \in 1 .. i - 1 /\ s[j].op = "pointer" /\ \A k \in j + 1 .. i - 1 : s[k].op # "pointer"

Presses(op) == op.op = "pointer" /\ op.buttons # 0

\* A plan presses only where it has moved the pointer first, and lets go of
\* whatever it holds down.
InPlace(s, i) ==
    \A j \in DOMAIN s : Before(s, j, i) /\ s[j].buttons = 0 => s[j].at = s[i].at
Prepared(s) ==
    \A i \in DOMAIN s : Presses(s[i]) =>
        (\E j \in 1 .. i - 1 : s[j].op = "pointer") /\ InPlace(s, i)
Released(s) ==
    \A i \in DOMAIN s : HoldsDown(s[i]) => \E j \in DOMAIN s : j > i /\ LetsGo(s[j], s[i])

\* Of what is left of a plan: its first pointer event may rely on the last one
\* that is on the wire.
Ultimate(w, j) == w[j].op.op = "pointer" /\ \A k \in j + 1 .. Len(w) : w[k].op.op # "pointer"
Ready(s, w) ==
    \A i \in DOMAIN s : Presses(s[i]) =>
        /\ InPlace(s, i)
        /\ \/ \E j \in 1 .. i - 1 : s[j].op = "pointer"
           \/ /\ \E j \in DOMAIN w : w[j].op.op = "pointer"
              /\ \A j \in DOMAIN w :
                   Ultimate(w, j) /\ w[j].op.buttons = 0 => w[j].op.at = s[i].at

\* Who holds the hands executes; what it has yet to send lets go of all that is
\* held down, and presses nothing out of place.
Poised(r) ==
    /\ req[r].pc = "queue" => Prepared(req[r].ops)
    /\ req[r].pc \in {"execute", "sleep"} => Ready(req[r].ops, wire)
    /\ req[r].pc \in {"queue", "execute", "sleep"} => Released(req[r].ops)
    /\ req[r].pc = "drop" => req[r].ops = <<>>
    /\ holder = r => req[r].pc \in {"execute", "sleep", "drop"}

LetGoOf(i) ==
    \/ \E j \in DOMAIN wire : j > i /\ LetsGo(wire[j].op, wire[i].op)
    \/ /\ holder \in Requests
       /\ \E k \in DOMAIN req[holder].ops : LetsGo(req[holder].ops[k], wire[i].op)

Undone ==
    connected /\ (\A r \in Requests : req[r].pc # "gone") =>
        \A i \in DOMAIN wire : HoldsDown(wire[i].op) => LetGoOf(i)

Grip == PressesInPlace /\ Undone /\ \A r \in Requests : Poised(r)

LEMMA Pointed ==
    ASSUME NEW at, NEW buttons
    PROVE  /\ Pointer(at, buttons).op = "pointer" /\ Pointer(at, buttons).at = at
           /\ Pointer(at, buttons).buttons = buttons
  BY DEF Pointer

LEMMA ClicksSound ==
    ASSUME NEW at \in Coordinate, NEW buttons \in Nat, NEW count \in Nat
    PROVE  Prepared(ClicksAt(at, buttons, count)) /\ Released(ClicksAt(at, buttons, count))
  <1> DEFINE n == 1 + 2 * count
             s == [j \in 1 .. n |-> Pointer(at, IF j % 2 = 0 THEN buttons ELSE 0)]
  <1>1. ClicksAt(at, buttons, count) = s /\ n \in Nat /\ n % 2 = 1
    BY DEF ClicksAt
  <1>2. \A j \in 1 .. n : /\ s[j].op = "pointer" /\ s[j].at = at
                          /\ s[j].buttons = IF j % 2 = 0 THEN buttons ELSE 0
    BY Pointed
  <1>3. DOMAIN s = 1 .. n
    OBVIOUS
  <1> HIDE DEF s
  <1>4. ASSUME NEW i \in 1 .. n, s[i].buttons # 0
        PROVE  1 \in 1 .. i - 1 /\ i + 1 \in 1 .. n /\ s[i + 1].buttons = 0
    <2>1. i % 2 = 0
      BY <1>2, <1>4
    <2>2. i # 1 /\ i # n /\ (i + 1) % 2 = 1
      BY <1>1, <2>1
    <2>3. i + 1 \in 1 .. n
      BY <1>1, <2>2
    <2> QED
      BY <1>2, <2>2, <2>3
  <1>5. Prepared(s)
    <2> SUFFICES ASSUME NEW i \in 1 .. n, Presses(s[i])
                 PROVE  (\E j \in 1 .. i - 1 : s[j].op = "pointer") /\ InPlace(s, i)
      BY <1>3 DEF Prepared
    <2>1. 1 \in 1 .. i - 1 /\ s[1].op = "pointer"
      <3>1. 1 \in 1 .. i - 1
        BY <1>4 DEF Presses
      <3>2. 1 \in 1 .. n
        BY <1>1
      <3> QED
        BY <1>2, <3>1, <3>2
    <2>2. InPlace(s, i)
      BY <1>2, <1>3 DEF InPlace
    <2> QED
      BY <2>1, <2>2
  <1>6. Released(s)
    <2> SUFFICES ASSUME NEW i \in 1 .. n, HoldsDown(s[i])
                 PROVE  \E j \in 1 .. n : j > i /\ LetsGo(s[j], s[i])
      BY <1>3 DEF Released
    <2>1. s[i].op = "pointer" /\ s[i].buttons # 0
      BY <1>2 DEF HoldsDown
    <2>2. i + 1 \in 1 .. n /\ s[i + 1].buttons = 0
      BY <1>4, <2>1
    <2>3. LetsGo(s[i + 1], s[i])
      BY <1>2, <2>1, <2>2 DEF LetsGo
    <2>4. i + 1 > i
      OBVIOUS
    <2> QED
      BY <2>2, <2>3, <2>4
  <1> QED
    BY <1>1, <1>5, <1>6

\* A plan without a press, and one that holds nothing.
LEMMA IdleSound ==
    ASSUME NEW s, \A i \in DOMAIN s : ~HoldsDown(s[i])
    PROVE  Prepared(s) /\ Released(s)
  BY DEF Prepared, Released, HoldsDown, Presses

LEMMA Joined ==
    ASSUME NEW S, NEW s \in Seq(S), NEW t \in Seq(S)
    PROVE  /\ s \o t \in Seq(S) /\ Len(s \o t) = Len(s) + Len(t)
           /\ \A i \in 1 .. Len(s) : (s \o t)[i] = s[i]
           /\ \A i \in Len(s) + 1 .. Len(s) + Len(t) :
                (s \o t)[i] = t[i - Len(s)] /\ i - Len(s) \in 1 .. Len(t)
  <1>1. Len(s) \in Nat /\ Len(t) \in Nat
    OBVIOUS
  <1>2. /\ s \o t \in Seq(S) /\ Len(s \o t) = Len(s) + Len(t)
        /\ \A i \in 1 .. Len(s) + Len(t) :
             (s \o t)[i] = IF i <= Len(s) THEN s[i] ELSE t[i - Len(s)]
    BY ConcatProperties
  <1> QED
    BY <1>1, <1>2

\* The middle of a drag: the button is held, or nothing is sent.
Held == {op \in RfbOp : op.op = "sleep" \/ (op.op = "pointer" /\ op.buttons # 0)}
Begun(s, start) ==
    /\ s \in Seq(RfbOp) /\ Len(s) >= 2
    /\ s[1] = Pointer(start, 0) /\ s[2] = Pointer(start, Left)
    /\ \A i \in 3 .. Len(s) : s[i] \in Held

LEMMA GoesOn ==
    ASSUME NEW s, NEW start, Begun(s, start), NEW t \in Seq(Held)
    PROVE  Begun(s \o t, start)
  <1>1. Held \subseteq RfbOp
    BY DEF Held
  <1>2. s \in Seq(RfbOp) /\ t \in Seq(RfbOp) /\ Len(s) \in Nat /\ Len(s) >= 2 /\ Len(t) \in Nat
    <2>1. t \in Seq(RfbOp)
      BY <1>1
    <2> QED
      BY <2>1 DEF Begun
  <1> DEFINE u == s \o t
  <1>3. /\ u \in Seq(RfbOp) /\ Len(u) = Len(s) + Len(t)
        /\ \A i \in 1 .. Len(s) : u[i] = s[i]
        /\ \A i \in Len(s) + 1 .. Len(s) + Len(t) :
             u[i] = t[i - Len(s)] /\ i - Len(s) \in 1 .. Len(t)
    BY <1>2, Joined
  <1> HIDE DEF u
  <1>4. u[1] = s[1] /\ u[2] = s[2]
    BY <1>2, <1>3
  <1>5. ASSUME NEW i \in 3 .. Len(u) PROVE u[i] \in Held
    <2>1. CASE i <= Len(s)
      <3>1. i \in 3 .. Len(s) /\ i \in 1 .. Len(s)
        BY <1>2, <2>1
      <3> QED
        BY <1>3, <3>1 DEF Begun
    <2>2. CASE ~(i <= Len(s))
      <3>1. i \in Len(s) + 1 .. Len(s) + Len(t)
        BY <1>2, <1>3, <2>2
      <3>2. u[i] = t[i - Len(s)] /\ i - Len(s) \in 1 .. Len(t)
        BY <1>3, <3>1
      <3> QED
        BY <3>2, Elements
    <2> QED
      BY <2>1, <2>2
  <1>6. Len(u) >= 2
    BY <1>2, <1>3
  <1> QED
    BY <1>3, <1>4, <1>5, <1>6 DEF Begun, u

LEMMA SleepsHold == ASSUME NEW ms \in Nat PROVE Sleep(ms) \in Held /\ Pause(ms) \in Seq(Held)
  <1>1. Sleep(ms) \in Held
    BY SleepsAreOps DEF Held, Sleep
  <1> QED
    BY <1>1 DEF Pause

LEMMA WalksHold ==
    ASSUME NEW start \in Coordinate, NEW end \in Coordinate, NEW pacing \in DragPacing
    PROVE  Walk(start, end, pacing) \in Seq(Held)
  <1> DEFINE n == Steps(pacing)
             held(i) == Pointer(PointAlong(start, end, i, n), Left)
  <1>1. n \in Nat \ {0} /\ pacing.step_ms \in Nat
    BY DEF Steps, DragPacing
  <1>2. ASSUME NEW i \in Nat PROVE held(i) \in Held
    <2>1. PointAlong(start, end, i, n) \in Coordinate
      BY <1>1, PointsAlong
    <2>2. held(i) \in RfbOp
      BY <2>1, PointersAreOps DEF Left
    <2> QED
      BY <2>2, Pointed DEF Left, Held
  <1>3. Sleep(pacing.step_ms) \in Held
    BY <1>1, SleepsHold
  <1>4. \A j \in 1 .. 2 * n - 1 : (j + 1) \div 2 \in Nat
    BY <1>1
  <1> HIDE DEF n, held
  <1>5. [i \in 1 .. n |-> held(i)] \in Seq(Held)
    BY <1>1, <1>2
  <1>6. [j \in 1 .. 2 * n - 1 |->
            IF j % 2 = 1 THEN held((j + 1) \div 2) ELSE Sleep(pacing.step_ms)] \in Seq(Held)
    <2>1. 2 * n - 1 \in Nat
      BY <1>1
    <2>2. \A j \in 1 .. 2 * n - 1 :
             (IF j % 2 = 1 THEN held((j + 1) \div 2) ELSE Sleep(pacing.step_ms)) \in Held
      BY <1>2, <1>3, <1>4
    <2> QED
      BY <2>1, <2>2
  <1> QED
    BY <1>5, <1>6 DEF Walk, n, held

LEMMA DragsSound ==
    ASSUME NEW start \in Coordinate, NEW end \in Coordinate, NEW pacing \in DragPacing
    PROVE  Prepared(Drag(start, end, pacing)) /\ Released(Drag(start, end, pacing))
  <1> DEFINE first == <<Pointer(start, 0), Pointer(start, Left)>>
             pause == Pause(pacing.dwell_ms)
             walk == Walk(start, end, pacing)
             s == first \o pause \o walk \o pause
             last == <<Pointer(end, 0)>>
             u == s \o last
  <1>1. Drag(start, end, pacing) = u
    BY DEF Drag
  <1>2. pause \in Seq(Held) /\ walk \in Seq(Held)
    BY SleepsHold, WalksHold DEF DragPacing
  <1>3. Begun(first, start)
    <2>1. Pointer(start, 0) \in RfbOp /\ Pointer(start, Left) \in RfbOp
      BY PointersAreOps DEF Left
    <2> QED
      BY <2>1 DEF Begun
  <1> HIDE DEF first, pause, walk
  <1>4. Begun(s, start)
    BY <1>2, <1>3, GoesOn
  <1> HIDE DEF s
  <1>5. last \in Seq(RfbOp) /\ Len(last) = 1 /\ last[1] = Pointer(end, 0)
    BY PointersAreOps
  <1> HIDE DEF last
  <1> DEFINE n == Len(s) + 1
  <1>6. /\ n \in Nat /\ n >= 3 /\ u \in Seq(RfbOp) /\ Len(u) = n /\ u[n] = Pointer(end, 0)
        /\ u[1] = Pointer(start, 0) /\ u[2] = Pointer(start, Left)
        /\ \A i \in 3 .. n - 1 : u[i] \in Held
    <2>1. s \in Seq(RfbOp) /\ Len(s) \in Nat /\ Len(s) >= 2
      BY <1>4 DEF Begun
    <2>2. /\ u \in Seq(RfbOp) /\ Len(u) = Len(s) + Len(last)
          /\ \A i \in 1 .. Len(s) : u[i] = s[i]
          /\ \A i \in Len(s) + 1 .. Len(s) + Len(last) : u[i] = last[i - Len(s)]
      <3>1. s \in Seq(RfbOp) /\ last \in Seq(RfbOp)
        BY <1>5, <2>1
      <3> QED
        BY <3>1, Joined
    <2>3. n \in Len(s) + 1 .. Len(s) + Len(last) /\ n - Len(s) = 1
      BY <1>5, <2>1
    <2>4. u[n] = Pointer(end, 0)
      BY <1>5, <2>2, <2>3
    <2>5. 1 \in 1 .. Len(s) /\ 2 \in 1 .. Len(s) /\ \A i \in 3 .. n - 1 : i \in 1 .. Len(s) /\ i \in 3 .. Len(s)
      BY <2>1
    <2>6. u[1] = s[1] /\ u[2] = s[2] /\ \A i \in 3 .. n - 1 : u[i] = s[i]
      BY <2>2, <2>5
    <2>7. n \in Nat /\ n >= 3 /\ Len(u) = n
      BY <1>5, <2>1, <2>2
    <2> QED
      BY <1>4, <2>2, <2>4, <2>5, <2>6, <2>7 DEF Begun
  <1> HIDE DEF u, n
  <1>7. DOMAIN u = 1 .. n
    BY <1>6
  <1>8. /\ u[1].op = "pointer" /\ u[1].at = start /\ u[1].buttons = 0
        /\ u[2].op = "pointer" /\ u[2].at = start /\ u[2].buttons # 0
        /\ u[n].op = "pointer" /\ u[n].buttons = 0
        /\ \A i \in 3 .. n - 1 : u[i].op = "sleep" \/ (u[i].op = "pointer" /\ u[i].buttons # 0)
    BY <1>6, Pointed DEF Left, Held
  <1>9. ASSUME NEW i \in 1 .. n, HoldsDown(u[i])
        PROVE  i \in 2 .. n - 1 /\ u[i].op = "pointer"
    <2>1. i # 1 /\ i # n
      BY <1>8, <1>9 DEF HoldsDown
    <2>2. i \in 2 .. n - 1
      BY <1>6, <2>1
    <2>3. i = 2 \/ i \in 3 .. n - 1
      BY <1>6, <2>2
    <2> QED
      BY <1>8, <1>9, <2>2, <2>3 DEF HoldsDown
  <1>10. Prepared(u)
    <2> SUFFICES ASSUME NEW i \in 1 .. n, Presses(u[i])
                 PROVE  (\E j \in 1 .. i - 1 : u[j].op = "pointer") /\ InPlace(u, i)
      BY <1>7 DEF Prepared
    <2>1. i \in 2 .. n - 1
      BY <1>9 DEF Presses, HoldsDown
    <2>2. 1 \in 1 .. i - 1
      BY <1>6, <2>1
    <2>3. ASSUME NEW j \in 1 .. n, Before(u, j, i), u[j].buttons = 0 PROVE u[j].at = u[i].at
      <3>1. j \in 1 .. i - 1 /\ u[j].op = "pointer" /\ \A k \in j + 1 .. i - 1 : u[k].op # "pointer"
        BY <2>3 DEF Before
      <3>2. j = 1
        <4>0. \A a, b, c \in Nat : a \in 1 .. b - 1 /\ b \in 2 .. c - 1
                                    => a = 1 \/ a = 2 \/ a \in 3 .. c - 1
          OBVIOUS
        <4>1. j = 1 \/ j = 2 \/ j \in 3 .. n - 1
          <5>1. j \in Nat /\ i \in Nat /\ n \in Nat
            BY <1>6
          <5> QED
            BY <2>1, <3>1, <4>0, <5>1
        <4> QED
          BY <1>8, <2>3, <3>1, <4>1
      <3>3. i = 2
        <4>1. i # 2 => 2 \in j + 1 .. i - 1
          BY <1>6, <2>1, <3>2
        <4> QED
          BY <1>8, <3>1, <4>1
      <3> QED
        BY <1>8, <3>2, <3>3
    <2> QED
      BY <1>7, <1>8, <2>2, <2>3 DEF InPlace
  <1>11. Released(u)
    <2> SUFFICES ASSUME NEW i \in 1 .. n, HoldsDown(u[i])
                 PROVE  \E j \in 1 .. n : j > i /\ LetsGo(u[j], u[i])
      BY <1>7 DEF Released
    <2>1. n \in 1 .. n /\ n > i /\ u[i].op = "pointer"
      BY <1>6, <1>9
    <2> QED
      BY <1>8, <2>1 DEF LetsGo
  <1> QED
    BY <1>1, <1>10, <1>11

LEMMA Keyed ==
    ASSUME NEW sym
    PROVE  /\ \A down \in BOOLEAN : ~Presses(Key(sym, down))
           /\ ~HoldsDown(Key(sym, FALSE)) /\ LetsGo(Key(sym, FALSE), Key(sym, TRUE))
  <1>1. \A down \in BOOLEAN : Key(sym, down).op = "key"
    BY DEF Key
  <1>2. ~HoldsDown(Key(sym, FALSE))
    BY DEF Key, HoldsDown
  <1>3. LetsGo(Key(sym, FALSE), Key(sym, TRUE))
    BY DEF Key, LetsGo
  <1> QED
    BY <1>1, <1>2, <1>3 DEF Presses

\* Keys alone press no button.
LEMMA KeysPrepared ==
    ASSUME NEW s, \A i \in DOMAIN s : ~Presses(s[i])
    PROVE  Prepared(s)
  BY DEF Prepared

LEMMA TypingSound ==
    ASSUME NEW text \in Seq(Characters)
    PROVE  Prepared(Typed(text)) /\ Released(Typed(text))
  <1> DEFINE n == 2 * Len(text)
             sym(j) == KeysymForTyped(text[(j + 1) \div 2])
             s == [j \in 1 .. n |-> Key(sym(j), j % 2 = 1)]
  <1>1. Typed(text) = s /\ n \in Nat /\ n % 2 = 0
    BY DEF Typed
  <1>2. DOMAIN s = 1 .. n /\ \A j \in 1 .. n : s[j] = Key(sym(j), j % 2 = 1)
    OBVIOUS
  <1> HIDE DEF s
  <1>3. Prepared(s)
    <2>1. ASSUME NEW j \in 1 .. n PROVE ~Presses(s[j])
      <3>1. s[j].op = "key"
        BY <1>2 DEF Key
      <3> QED
        BY <3>1 DEF Presses
    <2> QED
      BY <1>2, <2>1, KeysPrepared
  <1>4. ASSUME NEW i \in 1 .. n, HoldsDown(s[i])
        PROVE  \E j \in 1 .. n : j > i /\ LetsGo(s[j], s[i])
    <2>1. i % 2 = 1
      <3>1. (i % 2 = 1) = FALSE => s[i] = Key(sym(i), FALSE)
        BY <1>2
      <3> HIDE DEF sym
      <3>2. (i % 2 = 1) = FALSE => ~HoldsDown(s[i])
        BY <3>1, Keyed
      <3> QED
        BY <1>4, <3>2
    <2>2. i + 1 \in 1 .. n /\ (i + 1) % 2 = 0 /\ ((i + 1) + 1) \div 2 = (i + 1) \div 2
      BY <1>1, <2>1
    <2>3. sym(i + 1) = sym(i)
      BY <2>2
    <2>4. s[i + 1] = Key(sym(i), FALSE) /\ s[i] = Key(sym(i), TRUE)
      <3>1. ((i + 1) % 2 = 1) = FALSE /\ (i % 2 = 1) = TRUE
        BY <2>1, <2>2
      <3>2. s[i + 1] = Key(sym(i + 1), (i + 1) % 2 = 1) /\ s[i] = Key(sym(i), i % 2 = 1)
        BY <1>2, <2>2
      <3> HIDE DEF sym
      <3> QED
        BY <2>3, <3>1, <3>2
    <2>5. LetsGo(s[i + 1], s[i])
      BY <2>4, Keyed
    <2>6. i + 1 > i
      OBVIOUS
    <2> QED
      BY <2>2, <2>5, <2>6
  <1>5. Released(s)
    BY <1>2, <1>4 DEF Released
  <1> QED
    BY <1>1, <1>3, <1>5

LEMMA ChordsSound ==
    ASSUME NEW syms \in Seq(Keysyms)
    PROVE  Prepared(Chord(syms)) /\ Released(Chord(syms))
  <1> DEFINE n == Len(syms)
             s == [j \in 1 .. 2 * n |->
                     IF j <= n THEN Key(syms[j], TRUE) ELSE Key(syms[2 * n + 1 - j], FALSE)]
  <1>1. Chord(syms) = s /\ n \in Nat
    BY DEF Chord
  <1>2. DOMAIN s = 1 .. 2 * n
        /\ \A j \in 1 .. 2 * n : s[j] = IF j <= n THEN Key(syms[j], TRUE)
                                        ELSE Key(syms[2 * n + 1 - j], FALSE)
    OBVIOUS
  <1> HIDE DEF s, n
  <1>3. Prepared(s)
    <2>1. \A j \in 1 .. 2 * n : ~Presses(s[j])
      BY <1>2, Keyed
    <2> QED
      BY <1>2, <2>1, KeysPrepared
  <1>4. ASSUME NEW i \in 1 .. 2 * n, HoldsDown(s[i])
        PROVE  \E j \in 1 .. 2 * n : j > i /\ LetsGo(s[j], s[i])
    <2>1. i <= n
      <3>1. ~(i <= n) => s[i] = Key(syms[2 * n + 1 - i], FALSE)
        BY <1>2
      <3> QED
        BY <1>4, <3>1, Keyed
    <2> DEFINE j == 2 * n + 1 - i
    <2>2. j \in 1 .. 2 * n /\ j > i /\ ~(j <= n) /\ 2 * n + 1 - j = i
      BY <1>1, <2>1
    <2> HIDE DEF j
    <2>3. s[j] = Key(syms[i], FALSE) /\ s[i] = Key(syms[i], TRUE)
      BY <1>2, <2>1, <2>2
    <2>4. LetsGo(s[j], s[i])
      BY <2>3, Keyed
    <2> QED
      BY <2>2, <2>4
  <1>5. Released(s)
    BY <1>2, <1>4 DEF Released
  <1> QED
    BY <1>1, <1>3, <1>5

LEMMA PlansSound ==
    ASSUME NEW a \in Action, NEW pacing \in DragPacing
    PROVE  Prepared(Plan(a, pacing)) /\ Released(Plan(a, pacing))
  <1>0. Prepared(<<>>) /\ Released(<<>>)
    BY DEF Prepared, Released
  <1>1. CASE a \in [action : Clicks \cup {"mouse_move"}, coordinate : Coordinate]
    <2>1. CASE a.action \in Clicks
      <3>1. ClickButton[a.action] \in Nat /\ ClickCount[a.action] \in Nat
        BY <2>1 DEF ClickButton, ClickCount, Clicks, Left, Middle, Right
      <3>2. Plan(a, pacing) = ClicksAt(a.coordinate, ClickButton[a.action], ClickCount[a.action])
        BY <2>1 DEF Plan, Clicks, ClickButton
      <3> QED
        BY <1>1, <3>1, <3>2, ClicksSound
    <2>2. CASE a.action = "mouse_move"
      <3>1. Plan(a, pacing) = <<Pointer(a.coordinate, 0)>>
        BY <2>2 DEF Plan, Clicks, ClickButton
      <3> DEFINE s == <<Pointer(a.coordinate, 0)>>
      <3>2. DOMAIN s = {1} /\ s[1] = Pointer(a.coordinate, 0)
        OBVIOUS
      <3> HIDE DEF s
      <3>3. \A i \in DOMAIN s : ~HoldsDown(s[i])
        BY <3>2, Pointed DEF HoldsDown
      <3> QED
        BY <3>1, <3>3, IdleSound DEF s
    <2> QED
      BY <1>1, <2>1, <2>2
  <1>2. CASE a \in [action : {"left_click_drag"}, start_coordinate : Coordinate, coordinate : Coordinate]
    <2>1. Plan(a, pacing) = Drag(a.start_coordinate, a.coordinate, pacing)
      BY <1>2 DEF Plan, Clicks, ClickButton
    <2> QED
      BY <1>2, <2>1, DragsSound
  <1>3. CASE a \in [action : {"scroll"}, coordinate : Coordinate, scroll_direction : {"up", "down"},
                    scroll_amount : Nat]
    <2> DEFINE wheel == IF a.scroll_direction = "up" THEN WheelUp ELSE WheelDown
    <2>1. Plan(a, pacing) = IF a.scroll_amount = 0 THEN <<>>
                            ELSE ClicksAt(a.coordinate, wheel, a.scroll_amount)
      BY <1>3 DEF Plan, Clicks, ClickButton
    <2>2. wheel \in Nat
      BY DEF WheelUp, WheelDown
    <2>3. Prepared(ClicksAt(a.coordinate, wheel, a.scroll_amount))
          /\ Released(ClicksAt(a.coordinate, wheel, a.scroll_amount))
      BY <1>3, <2>2, ClicksSound
    <2> QED
      BY <1>0, <2>1, <2>3
  <1>4. CASE a \in [action : {"type", "key"}, text : Seq(Characters)]
    <2>1. a.action = "type" => Plan(a, pacing) = Typed(a.text)
      BY DEF Plan, Clicks, ClickButton
    <2>2. a.action = "key" => Plan(a, pacing) = Chord(ParseChord(a.text))
      BY DEF Plan, Clicks, ClickButton
    <2>3. ParseChord(a.text) \in Seq(Keysyms)
      BY <1>4, ChordsAreKeys
    <2> QED
      BY <1>4, <2>1, <2>2, <2>3, TypingSound, ChordsSound
  <1>5. CASE a \in [action : {"wait"}, duration : Int]
    <2> DEFINE sleep == Sleep(IF a.duration > 0 THEN a.duration ELSE 0)
               s == <<sleep>>
    <2>1. Plan(a, pacing) = s
      BY <1>5 DEF Plan, Clicks, ClickButton
    <2>2. DOMAIN s = {1} /\ s[1] = sleep
      OBVIOUS
    <2> HIDE DEF s
    <2>3. \A i \in DOMAIN s : ~HoldsDown(s[i])
      BY <2>2 DEF HoldsDown, Sleep
    <2> QED
      BY <2>1, <2>3, IdleSound
  <1>6. CASE a \in [action : {"screenshot", "cursor_position"}]
    BY <1>0, <1>6 DEF Plan, Clicks, ClickButton
  <1> QED
    BY <1>1, <1>2, <1>3, <1>4, <1>5, <1>6 DEF Action

\* What becomes of a plan, and of the hands, in a handler's step.
LEMMA PlanCourse ==
    ASSUME TypeOK, NEW r \in Requests, Arrive(r) \/ Handler(r) \/ Cancel(r)
    PROVE  LET h == req[r]
               g == req'[r]
           IN
           \/ /\ h.pc = "new" /\ g.pc = "queue" /\ UNCHANGED holder
              /\ \E a \in Action : g.ops = Plan(a, Pacing)
           \/ h.pc = "queue" /\ g.pc = "execute" /\ g.ops = h.ops
              /\ holder = Nobody /\ holder' = r
           \/ Send(r) /\ h.pc = "execute" /\ g.pc = "execute" /\ UNCHANGED holder
              /\ h.ops # <<>> /\ g.ops = IF connected THEN Tail(h.ops) ELSE <<>>
           \/ /\ h.pc = "execute" /\ g.pc = "sleep" /\ UNCHANGED holder
              /\ h.ops # <<>> /\ Head(h.ops).op = "sleep" /\ g.ops = Tail(h.ops)
           \/ h.pc = "sleep" /\ g.pc = "execute" /\ g.ops = h.ops /\ UNCHANGED holder
           \/ h.pc = "execute" /\ g.pc = "drop" /\ g.ops = <<>> /\ h.ops = <<>> /\ UNCHANGED holder
           \/ h.pc = "drop" /\ g.pc \in {"take", "done"} /\ holder' = Nobody
           \/ /\ h.pc \in {"new", "take", "settle", "ask", "wait", "frame"} /\ UNCHANGED holder
              /\ g.pc \in {"take", "settle", "ask", "wait", "frame", "image", "done"}
           \/ g.pc = "gone" /\ holder' \in {holder, Nobody} /\ holder' # r
  <1> DEFINE h == req[r]
             g == req'[r]
  <1>0. /\ DOMAIN req = Requests /\ h \in Handlers
        /\ {"pc", "owes", "timer", "after", "whole", "asked", "image", "ops", "input", "body",
            "failed"} \subseteq DOMAIN h
    <2>1. req \in [Requests -> Handlers]
      BY DEF TypeOK
    <2>2. \A f \in Handlers :
             {"pc", "owes", "timer", "after", "whole", "asked", "image", "ops", "input", "body",
              "failed"} \subseteq DOMAIN f
      BY DEF Handlers
    <2> QED
      BY <2>1, <2>2
  <1>1. ASSUME NEW pc, Goto(r, pc) PROVE g.pc = pc /\ g.ops = h.ops
    BY <1>0, <1>1 DEF Goto
  <1>2. ASSUME NEW pc, Ends(r, pc) PROVE g.pc = pc
    BY <1>0, <1>2 DEF Ends, NewRequest
  <1>3. CASE Arrive(r)
    <2>1. h.pc = "new" /\ UNCHANGED holder
      BY <1>3 DEF Arrive, At
    <2> PICK b \in Bodies[r] :
              \/ req' = [req EXCEPT ![r] = [@ EXCEPT !.pc = "take", !.body = b]]
              \/ /\ b # GetScreenshot
                 /\ LET ops == Plan(b, Pacing) IN
                    req' = [req EXCEPT ![r] = [@ EXCEPT !.pc = "queue", !.body = b, !.ops = ops,
                               !.input = \E i \in DOMAIN ops : IsInput(ops[i])]]
              \/ Ends(r, "done")
      BY <1>3 DEF Arrive
    <2>2. CASE req' = [req EXCEPT ![r] = [@ EXCEPT !.pc = "take", !.body = b]]
      BY <1>0, <2>1, <2>2
    <2>3. CASE /\ b # GetScreenshot
               /\ LET ops == Plan(b, Pacing) IN
                  req' = [req EXCEPT ![r] = [@ EXCEPT !.pc = "queue", !.body = b, !.ops = ops,
                             !.input = \E i \in DOMAIN ops : IsInput(ops[i])]]
      <3> DEFINE ops == Plan(b, Pacing)
                 input == \E i \in DOMAIN ops : IsInput(ops[i])
      <3>1. req' = [req EXCEPT ![r] = [@ EXCEPT !.pc = "queue", !.body = b, !.ops = ops,
                                                !.input = input]]
        BY <2>3
      <3>2. b \in Action
        BY <2>3
      <3> HIDE DEF input
      <3>3. g.pc = "queue" /\ g.ops = ops
        BY <1>0, <3>1
      <3> QED
        BY <2>1, <3>2, <3>3
    <2>4. CASE Ends(r, "done")
      BY <1>2, <2>1, <2>4
    <2> QED
      BY <2>2, <2>3, <2>4
  <1>4. CASE TakeHands(r)
    BY <1>1, <1>4 DEF TakeHands, At
  <1>5. CASE Send(r)
    <2>1. /\ h.pc = "execute" /\ h.ops # <<>> /\ UNCHANGED holder
          /\ \/ connected /\ req' = [req EXCEPT ![r] = [@ EXCEPT !.ops = Tail(req[r].ops)]]
             \/ ~connected /\ req' = [req EXCEPT ![r] = [@ EXCEPT !.ops = <<>>, !.failed = TRUE]]
      BY <1>5 DEF Send, Executing, At
    <2>2. CASE connected
      BY <1>0, <1>5, <2>1, <2>2
    <2>3. CASE ~connected
      <3>1. req' = [req EXCEPT ![r] = [@ EXCEPT !.ops = <<>>, !.failed = TRUE]]
        BY <2>1, <2>3
      <3>2. g.ops = <<>> /\ g.pc = h.pc
        BY <1>0, <3>1
      <3> QED
        BY <1>5, <2>1, <2>3, <3>2
    <2> QED
      BY <2>2, <2>3
  <1>6. CASE FallAsleep(r)
    <2>1. h.pc = "execute" /\ h.ops # <<>> /\ Head(h.ops).op = "sleep" /\ UNCHANGED holder
      BY <1>6 DEF FallAsleep, Executing, At, handsVars
    <2>2. g.pc = "sleep" /\ g.ops = Tail(h.ops)
      BY <1>0, <1>6 DEF FallAsleep
    <2> QED
      BY <2>1, <2>2
  <1>7. CASE WakeUp(r)
    BY <1>1, <1>7 DEF WakeUp, At, handsVars
  <1>8. CASE Stamp(r)
    BY <1>1, <1>8 DEF Stamp, At, handsVars
  <1>9. CASE DropHands(r)
    BY <1>1, <1>2, <1>9 DEF DropHands, At
  <1>10. CASE TakeLastInput(r) \/ CheckPainted(r) \/ Ask(r)
    <2>1. h.pc \in {"take", "settle", "ask"} /\ UNCHANGED holder
      BY <1>10 DEF TakeLastInput, CheckPainted, Ask, At, handsVars
    <2>2. g.pc \in {"settle", "ask", "wait", "done"}
      BY <1>0, <1>2, <1>10 DEF TakeLastInput, CheckPainted, Ask
    <2> QED
      BY <2>1, <2>2
  <1>11. CASE RefreshResolves(r) \/ RefreshTimesOut(r) \/ RefreshCloses(r)
    BY <1>1, <1>2, <1>11 DEF RefreshResolves, RefreshTimesOut, RefreshCloses, At, handsVars
  <1>12. CASE TakeFrame(r)
    BY <1>0, <1>12 DEF TakeFrame, At, NewRequest, handsVars
  <1>13. CASE Cancel(r)
    <2>1. g.pc = "gone"
      BY <1>2, <1>13 DEF Cancel
    <2>2. holder' \in {holder, Nobody} /\ holder' # r
      BY <1>13 DEF Cancel
    <2> QED
      BY <2>1, <2>2
  <1> QED
    BY <1>3, <1>4, <1>5, <1>6, <1>7, <1>8, <1>9, <1>10, <1>11, <1>12, <1>13 DEF Handler

LEMMA SendIs ==
    ASSUME TypeOK, NEW r \in Requests, Send(r)
    PROVE  /\ req[r].pc = "execute" /\ req'[r].pc = "execute" /\ UNCHANGED holder
           /\ req[r].ops # <<>> /\ req'[r].ops = IF connected THEN Tail(req[r].ops) ELSE <<>>
  <1>0. DOMAIN req = Requests /\ {"pc", "ops", "failed"} \subseteq DOMAIN req[r]
    <2>1. req \in [Requests -> Handlers]
      BY DEF TypeOK
    <2>2. \A f \in Handlers : {"pc", "ops", "failed"} \subseteq DOMAIN f
      BY DEF Handlers
    <2> QED
      BY <2>1, <2>2
  <1>1. /\ req[r].pc = "execute" /\ req[r].ops # <<>> /\ UNCHANGED holder
        /\ \/ connected /\ req' = [req EXCEPT ![r] = [@ EXCEPT !.ops = Tail(req[r].ops)]]
           \/ ~connected /\ req' = [req EXCEPT ![r] = [@ EXCEPT !.ops = <<>>, !.failed = TRUE]]
    BY DEF Send, Executing, At
  <1>2. CASE connected
    BY <1>0, <1>1, <1>2
  <1>3. CASE ~connected
    <2>1. req' = [req EXCEPT ![r] = [@ EXCEPT !.ops = <<>>, !.failed = TRUE]]
      BY <1>1, <1>3
    <2>2. req'[r].ops = <<>> /\ req'[r].pc = req[r].pc
      BY <1>0, <2>1
    <2> QED
      BY <1>1, <1>3, <2>2
  <1> QED
    BY <1>2, <1>3

\* What is sent is the first of what was left.
LEMMA Sent ==
    ASSUME TypeOK, NEW r \in Requests, Send(r), connected, NEW m, m = Len(wire)
    PROVE  /\ m \in Nat /\ DOMAIN wire = 1 .. m /\ Len(wire) = m
           /\ DOMAIN wire' = 1 .. m + 1 /\ Len(wire') = m + 1
           /\ wire'[m + 1].op = req[r].ops[1] /\ \A j \in 1 .. m : wire'[j] = wire[j]
  <1>1. wire \in Seq([by : Requests, op : RfbOp]) /\ req[r] \in Handlers
    BY DEF TypeOK
  <1>2. req[r].ops \in Seq(RfbOp) /\ req[r].ops # <<>>
    BY <1>1, Fields, SendIs
  <1>3. Head(req[r].ops) = req[r].ops[1] /\ Head(req[r].ops) \in RfbOp
    BY <1>2
  <1> DEFINE e == [by |-> r, op |-> Head(req[r].ops)]
  <1>4. wire' = Append(wire, e) /\ e \in [by : Requests, op : RfbOp]
    BY <1>3 DEF Send
  <1>5. e.op = req[r].ops[1]
    BY <1>3
  <1> HIDE DEF e
  <1>6. /\ Len(wire') = m + 1 /\ DOMAIN wire' = 1 .. m + 1 /\ wire'[m + 1] = e
        /\ \A j \in 1 .. m : wire'[j] = wire[j]
    BY <1>1, <1>4
  <1> QED
    BY <1>1, <1>5, <1>6

LEMMA Rest ==
    ASSUME NEW s \in Seq(RfbOp), s # <<>>
    PROVE  /\ DOMAIN s = 1 .. Len(s) /\ Len(s) \in Nat \ {0} /\ s[1] = Head(s)
           /\ DOMAIN Tail(s) = 1 .. Len(s) - 1
           /\ \A i \in 1 .. Len(s) - 1 : Tail(s)[i] = s[i + 1]
  <1>1. DOMAIN s = 1 .. Len(s) /\ Len(s) \in Nat \ {0} /\ s[1] = Head(s)
    OBVIOUS
  <1>2. /\ Tail(s) \in Seq(RfbOp) /\ Len(Tail(s)) = Len(s) - 1
        /\ \A i \in 1 .. Len(Tail(s)) : Tail(s)[i] = s[i + 1]
    BY HeadTailProperties
  <1> QED
    BY <1>1, <1>2

\* Once its first operation is gone, a plan still lets go of what it will hold,
\* and its presses keep their place.
LEMMA RestReleased ==
    ASSUME NEW s \in Seq(RfbOp), s # <<>>, Released(s)
    PROVE  Released(Tail(s))
  <1> DEFINE t == Tail(s)
             n == Len(s)
  <1>1. /\ DOMAIN s = 1 .. n /\ n \in Nat \ {0} /\ DOMAIN t = 1 .. n - 1
        /\ \A i \in 1 .. n - 1 : t[i] = s[i + 1]
    BY Rest
  <1> HIDE DEF t, n
  <1> SUFFICES ASSUME NEW i \in 1 .. n - 1, HoldsDown(t[i])
               PROVE  \E j \in 1 .. n - 1 : j > i /\ LetsGo(t[j], t[i])
    BY <1>1 DEF Released, t
  <1>2. i + 1 \in 1 .. n /\ t[i] = s[i + 1]
    BY <1>1
  <1>3. PICK j \in 1 .. n : j > i + 1 /\ LetsGo(s[j], s[i + 1])
    BY <1>1, <1>2 DEF Released
  <1>4. j - 1 \in 1 .. n - 1 /\ j - 1 > i /\ (j - 1) + 1 = j
    BY <1>1, <1>3
  <1>5. t[j - 1] = s[j]
    BY <1>1, <1>4
  <1> QED
    BY <1>2, <1>3, <1>4, <1>5

LEMMA RestInPlace ==
    ASSUME NEW s \in Seq(RfbOp), s # <<>>, NEW i \in 1 .. Len(s) - 1, InPlace(s, i + 1)
    PROVE  InPlace(Tail(s), i)
  <1> DEFINE t == Tail(s)
             n == Len(s)
  <1>1. /\ DOMAIN s = 1 .. n /\ n \in Nat \ {0} /\ DOMAIN t = 1 .. n - 1
        /\ \A k \in 1 .. n - 1 : t[k] = s[k + 1]
    BY Rest
  <1>2. i \in 1 .. n - 1
    OBVIOUS
  <1> HIDE DEF t, n
  <1> SUFFICES ASSUME NEW j \in 1 .. n - 1, Before(t, j, i), t[j].buttons = 0
               PROVE  t[j].at = t[i].at
    BY <1>1 DEF InPlace, t
  <1>3. j \in 1 .. i - 1 /\ t[j].op = "pointer" /\ \A k \in j + 1 .. i - 1 : t[k].op # "pointer"
    BY DEF Before
  <1>4. t[j] = s[j + 1] /\ t[i] = s[i + 1] /\ j + 1 \in 1 .. n /\ j + 1 \in 1 .. (i + 1) - 1
    BY <1>1, <1>2, <1>3
  <1>5. ASSUME NEW k \in (j + 1) + 1 .. (i + 1) - 1 PROVE s[k].op # "pointer"
    <2>1. k - 1 \in j + 1 .. i - 1 /\ k - 1 \in 1 .. n - 1 /\ (k - 1) + 1 = k
      BY <1>1, <1>2, <1>3
    <2>2. t[k - 1] = s[k]
      BY <1>1, <2>1
    <2> QED
      BY <1>3, <2>1, <2>2
  <1>6. Before(s, j + 1, i + 1)
    BY <1>3, <1>4, <1>5 DEF Before
  <1> QED
    BY <1>1, <1>4, <1>6 DEF InPlace

LEMMA ReadySleeps ==
    ASSUME NEW s \in Seq(RfbOp), s # <<>>, NEW w, Ready(s, w), s[1].op # "pointer"
    PROVE  Ready(Tail(s), w)
  <1> DEFINE t == Tail(s)
             n == Len(s)
  <1>1. /\ DOMAIN s = 1 .. n /\ n \in Nat \ {0} /\ DOMAIN t = 1 .. n - 1
        /\ \A k \in 1 .. n - 1 : t[k] = s[k + 1]
    BY Rest
  <1>2. ASSUME NEW i \in 1 .. n - 1, Presses(t[i])
        PROVE  /\ InPlace(t, i)
               /\ \/ \E j \in 1 .. i - 1 : t[j].op = "pointer"
                  \/ /\ \E j \in DOMAIN w : w[j].op.op = "pointer"
                     /\ \A j \in DOMAIN w :
                          Ultimate(w, j) /\ w[j].op.buttons = 0 => w[j].op.at = t[i].at
    <2>1. i + 1 \in 1 .. n /\ t[i] = s[i + 1]
      BY <1>1
    <2>2. /\ InPlace(s, i + 1)
          /\ \/ \E j \in 1 .. i : s[j].op = "pointer"
             \/ /\ \E j \in DOMAIN w : w[j].op.op = "pointer"
                /\ \A j \in DOMAIN w :
                     Ultimate(w, j) /\ w[j].op.buttons = 0 => w[j].op.at = s[i + 1].at
      <3>1. (i + 1) - 1 = i
        OBVIOUS
      <3> QED
        BY <1>1, <1>2, <2>1, <3>1 DEF Ready
    <2>3. InPlace(t, i)
      BY <2>2, RestInPlace
    <2>4. ASSUME NEW j \in 1 .. i, s[j].op = "pointer" PROVE \E k \in 1 .. i - 1 : t[k].op = "pointer"
      <3>1. j - 1 \in 1 .. i - 1 /\ j - 1 \in 1 .. n - 1 /\ (j - 1) + 1 = j
        BY <1>1, <2>4
      <3> QED
        BY <1>1, <2>4, <3>1
    <2> HIDE DEF t, n
    <2> QED
      BY <2>1, <2>2, <2>3, <2>4
  <1> HIDE DEF t, n
  <1>3. Ready(t, w)
    BY <1>1, <1>2 DEF Ready
  <1> QED
    BY <1>3 DEF t

\* The wire v is w and one operation more.
Grows(w, v, op) ==
    \E m \in Nat :
        /\ DOMAIN w = 1 .. m /\ Len(w) = m /\ DOMAIN v = 1 .. m + 1 /\ Len(v) = m + 1
        /\ v[m + 1].op = op /\ \A j \in 1 .. m : v[j] = w[j]

LEMMA ReadySends ==
    ASSUME NEW s \in Seq(RfbOp), s # <<>>, NEW w, NEW v, Ready(s, w), Grows(w, v, s[1])
    PROVE  Ready(Tail(s), v)
  <1> PICK m \in Nat :
        /\ DOMAIN w = 1 .. m /\ Len(w) = m /\ DOMAIN v = 1 .. m + 1 /\ Len(v) = m + 1
        /\ v[m + 1].op = s[1] /\ \A j \in 1 .. m : v[j] = w[j]
    BY DEF Grows
  <1> DEFINE t == Tail(s)
             n == Len(s)
  <1>1. /\ DOMAIN s = 1 .. n /\ n \in Nat \ {0} /\ DOMAIN t = 1 .. n - 1
        /\ \A k \in 1 .. n - 1 : t[k] = s[k + 1]
    BY Rest
  <1>2. ASSUME NEW i \in 1 .. n - 1, Presses(t[i])
        PROVE  /\ InPlace(t, i)
               /\ \/ \E j \in 1 .. i - 1 : t[j].op = "pointer"
                  \/ /\ \E j \in DOMAIN v : v[j].op.op = "pointer"
                     /\ \A j \in DOMAIN v :
                          Ultimate(v, j) /\ v[j].op.buttons = 0 => v[j].op.at = t[i].at
    <2>1. i + 1 \in 1 .. n /\ t[i] = s[i + 1]
      BY <1>1
    <2>2. /\ InPlace(s, i + 1)
          /\ \/ \E j \in 1 .. i : s[j].op = "pointer"
             \/ /\ \E j \in DOMAIN w : w[j].op.op = "pointer"
                /\ \A j \in DOMAIN w :
                     Ultimate(w, j) /\ w[j].op.buttons = 0 => w[j].op.at = s[i + 1].at
      <3>1. (i + 1) - 1 = i
        OBVIOUS
      <3> QED
        BY <1>1, <1>2, <2>1, <3>1 DEF Ready
    <2>3. InPlace(t, i)
      BY <2>2, RestInPlace
    <2>4. CASE \E j \in 2 .. i : s[j].op = "pointer"
      <3> PICK j \in 2 .. i : s[j].op = "pointer"
        BY <2>4
      <3>1. j - 1 \in 1 .. i - 1 /\ j - 1 \in 1 .. n - 1 /\ (j - 1) + 1 = j
        BY <1>1
      <3>2. t[j - 1] = s[j]
        BY <1>1, <3>1
      <3>3. \E k \in 1 .. i - 1 : t[k].op = "pointer"
        BY <2>4, <3>1, <3>2
      <3> HIDE DEF t
      <3> QED
        BY <2>3, <3>3
    <2>5. CASE (\A j \in 2 .. i : s[j].op # "pointer") /\ s[1].op = "pointer"
      <3>1. m + 1 \in DOMAIN v /\ v[m + 1].op.op = "pointer"
        BY <2>5
      <3>2. ASSUME NEW j \in DOMAIN v, Ultimate(v, j), v[j].op.buttons = 0
            PROVE  v[j].op.at = t[i].at
        <4>1. j = m + 1
          <5>1. j # m + 1 => m + 1 \in j + 1 .. Len(v)
            OBVIOUS
          <5> QED
            BY <3>1, <3>2, <5>1 DEF Ultimate
        <4>2. Before(s, 1, i + 1)
          <5>1. 1 \in 1 .. (i + 1) - 1 /\ \A k \in 1 + 1 .. (i + 1) - 1 : k \in 2 .. i
            OBVIOUS
          <5> QED
            BY <2>5, <5>1 DEF Before
        <4>3. 1 \in DOMAIN s
          BY <1>1
        <4> QED
          BY <2>1, <2>2, <3>2, <4>1, <4>2, <4>3 DEF InPlace
      <3> QED
        BY <2>3, <3>1, <3>2
    <2>6. CASE \A j \in 1 .. i : s[j].op # "pointer"
      <3>1. s[1].op # "pointer"
        <4>1. 1 \in 1 .. i
          OBVIOUS
        <4> QED
          BY <2>6, <4>1
      <3>2. PICK j \in 1 .. m : w[j].op.op = "pointer"
        BY <2>2, <2>6
      <3>3. j \in DOMAIN v /\ v[j].op.op = "pointer"
        BY <3>2
      <3>4. ASSUME NEW k \in DOMAIN v, Ultimate(v, k), v[k].op.buttons = 0
            PROVE  v[k].op.at = t[i].at
        <4>1. k # m + 1
          BY <3>1, <3>4 DEF Ultimate
        <4>2. k \in 1 .. m
          BY <4>1
        <4>3. \A l \in k + 1 .. m : l \in k + 1 .. m + 1 /\ l \in 1 .. m
          BY <4>2
        <4>4. Ultimate(w, k)
          BY <3>4, <4>2, <4>3 DEF Ultimate
        <4> QED
          BY <2>1, <2>2, <2>6, <3>4, <4>2, <4>4
      <3> QED
        BY <2>3, <3>3, <3>4
    <2>7. 1 .. i = {1} \cup 2 .. i
      OBVIOUS
    <2> QED
      BY <2>4, <2>5, <2>6, <2>7
  <1> HIDE DEF t, n
  <1>3. Ready(t, v)
    BY <1>1, <1>2 DEF Ready
  <1> QED
    BY <1>3 DEF t

LEMMA GripStart == Init => Grip
  BY DEF Init, Grip, PressesInPlace, Undone, Poised, NewRequest

\* The wire, the hands and the plans of a step in which nobody sends.
LEMMA GripKeeps ==
    ASSUME TypeOK, Grip, UNCHANGED <<wire, holder>>, connected' => connected,
           \A r \in Requests : req'[r].pc = req[r].pc /\ req'[r].ops = req[r].ops
    PROVE  Grip'
  <1>1. PressesInPlace'
    BY DEF Grip, PressesInPlace, IsPointer
  <1>2. \A r \in Requests : Poised(r)'
    BY DEF Grip, Poised
  <1>3. \A i \in DOMAIN wire : LetGoOf(i) => LetGoOf(i)'
    BY DEF LetGoOf
  <1>4. Undone'
    BY <1>3 DEF Grip, Undone
  <1> QED
    BY <1>1, <1>2, <1>4 DEF Grip

\* A handler that does not send, and what it leaves of the others.
LEMMA OthersPoised ==
    ASSUME TypeOK, Grip, Hands, NEW r \in Requests, Arrive(r) \/ Handler(r) \/ Cancel(r),
           NEW s \in Requests \ {r}
    PROVE  Poised(s)' /\ req'[s] = req[s]
  <1>1. req'[s] = req[s]
    <2>1. req \in [Requests -> Handlers]
      BY DEF TypeOK
    <2> QED
      BY <2>1, HandlerSteps
  <1>2. holder' = s => holder = s
    <2>1. holder' \in {holder, r, Nobody}
      BY PlanCourse
    <2> QED
      BY <2>1
  <1>3. CASE UNCHANGED wire
    BY <1>1, <1>2, <1>3 DEF Grip, Poised
  <1>4. CASE ~ UNCHANGED wire
    <2>1. Send(r)
      BY <1>4 DEF Arrive, Handler, Cancel, TakeHands, FallAsleep, WakeUp, Stamp, DropHands,
               TakeLastInput, CheckPainted, Ask, RefreshResolves, RefreshTimesOut, RefreshCloses,
               TakeFrame
    <2>2. req[r].pc = "execute"
      BY <2>1 DEF Send, Executing, At
    <2>3. req[s].pc \notin {"execute", "sleep"}
      BY <2>2 DEF Hands, Unbraided
    <2> QED
      BY <1>1, <1>2, <2>3 DEF Grip, Poised
  <1> QED
    BY <1>1, <1>3, <1>4

LEMMA OwnPoise ==
    ASSUME TypeOK, Grip, Hands, NEW r \in Requests, Arrive(r) \/ Handler(r) \/ Cancel(r)
    PROVE  Poised(r)'
  <1> DEFINE h == req[r]
             g == req'[r]
  <1>0. h.ops \in Seq(RfbOp)
    <2>1. h \in Handlers
      BY DEF TypeOK
    <2> QED
      BY <2>1, Fields
  <1>1. CASE ~Send(r)
    <2>1. UNCHANGED wire
      BY <1>1 DEF Arrive, Handler, Cancel, TakeHands, FallAsleep, WakeUp, Stamp, DropHands,
               TakeLastInput, CheckPainted, Ask, RefreshResolves, RefreshTimesOut, RefreshCloses,
               TakeFrame
    <2>2. CASE /\ h.pc = "new" /\ g.pc = "queue" /\ UNCHANGED holder
               /\ \E a \in Action : g.ops = Plan(a, Pacing)
      BY <2>2, PlansSound DEF Grip, Poised
    <2>3. CASE h.pc = "queue" /\ g.pc = "execute" /\ g.ops = h.ops
      <3>1. Ready(h.ops, wire) /\ Released(h.ops)
        BY <2>3 DEF Grip, Poised, Prepared, Ready
      <3> QED
        BY <2>1, <2>3, <3>1 DEF Poised
    <2>4. CASE /\ h.pc = "execute" /\ g.pc = "sleep" /\ UNCHANGED holder
               /\ h.ops # <<>> /\ Head(h.ops).op = "sleep" /\ g.ops = Tail(h.ops)
      <3>1. Ready(h.ops, wire) /\ Released(h.ops) /\ h.ops[1].op # "pointer"
        BY <1>0, <2>4, Rest DEF Grip, Poised
      <3>2. Ready(g.ops, wire) /\ Released(g.ops)
        BY <1>0, <2>4, <3>1, RestReleased, ReadySleeps
      <3> QED
        BY <2>1, <2>4, <3>2 DEF Poised
    <2>5. CASE h.pc = "sleep" /\ g.pc = "execute" /\ g.ops = h.ops /\ UNCHANGED holder
      BY <2>1, <2>5 DEF Grip, Poised
    <2>6. CASE h.pc = "execute" /\ g.pc = "drop" /\ g.ops = <<>> /\ h.ops = <<>> /\ UNCHANGED holder
      BY <2>6 DEF Poised
    <2>7. CASE \/ h.pc = "drop" /\ g.pc \in {"take", "done"} /\ holder' = Nobody
               \/ /\ h.pc \in {"new", "take", "settle", "ask", "wait", "frame"} /\ UNCHANGED holder
                  /\ g.pc \in {"take", "settle", "ask", "wait", "frame", "image", "done"}
               \/ g.pc = "gone" /\ holder' # r
      BY <2>7 DEF Grip, Poised
    <2> QED
      BY <1>1, <2>2, <2>3, <2>4, <2>5, <2>6, <2>7, PlanCourse
  <1>2. CASE Send(r)
    <2>1. /\ h.pc = "execute" /\ g.pc = "execute" /\ h.ops # <<>>
          /\ g.ops = IF connected THEN Tail(h.ops) ELSE <<>>
      BY <1>2, SendIs
    <2>2. Ready(h.ops, wire) /\ Released(h.ops)
      BY <2>1 DEF Grip, Poised
    <2>3. CASE ~connected
      <3>1. Ready(<<>>, wire') /\ Released(<<>>)
        BY DEF Ready, Released
      <3> QED
        BY <2>1, <2>3, <3>1 DEF Poised
    <2>4. CASE connected
      <3>1. PICK m : m = Len(wire)
        OBVIOUS
      <3>2. /\ m \in Nat /\ DOMAIN wire = 1 .. m /\ Len(wire) = m
            /\ DOMAIN wire' = 1 .. m + 1 /\ Len(wire') = m + 1
            /\ wire'[m + 1].op = h.ops[1] /\ \A j \in 1 .. m : wire'[j] = wire[j]
        BY <1>2, <2>4, <3>1, Sent
      <3>3. Ready(Tail(h.ops), wire')
        <4>1. Grows(wire, wire', h.ops[1])
          BY <3>2 DEF Grows
        <4> QED
          BY <1>0, <2>1, <2>2, <4>1, ReadySends
      <3>4. Released(Tail(h.ops))
        BY <1>0, <2>1, <2>2, RestReleased
      <3> QED
        BY <2>1, <2>4, <3>3, <3>4 DEF Poised
    <2> QED
      BY <2>3, <2>4
  <1> QED
    BY <1>1, <1>2

\* Presses keep their place as the wire grows.
LEMMA PlaceStays ==
    ASSUME TypeOK, Grip, NEW r \in Requests, Send(r)
    PROVE  PressesInPlace'
  <1>1. PressesInPlace
    BY DEF Grip
  <1>2. CASE ~connected
    BY <1>1, <1>2 DEF Send, PressesInPlace, IsPointer
  <1>3. CASE connected
    <2>1. PICK m : m = Len(wire)
      OBVIOUS
    <2> DEFINE s == req[r].ops
               v == wire'
               w == wire
    <2>2. /\ m \in Nat /\ DOMAIN w = 1 .. m /\ Len(w) = m
          /\ DOMAIN v = 1 .. m + 1 /\ Len(v) = m + 1
          /\ v[m + 1].op = s[1] /\ \A j \in 1 .. m : v[j] = w[j]
      BY <1>3, <2>1, Sent
    <2>3. Ready(s, w) /\ 1 \in DOMAIN s
      <3>1. s \in Seq(RfbOp)
        <4>1. req[r] \in Handlers
          BY DEF TypeOK
        <4> QED
          BY <4>1, Fields
      <3>2. s # <<>> /\ req[r].pc = "execute"
        BY SendIs
      <3> QED
        BY <3>1, <3>2 DEF Grip, Poised
    <2>4. \A i \in 1 .. m :
             w[i].op.op = "pointer" /\ w[i].op.buttons # 0 =>
               /\ \E j \in 1 .. i - 1 : w[j].op.op = "pointer"
               /\ \A j \in 1 .. i - 1 :
                    w[j].op.op = "pointer" /\ w[j].op.buttons = 0
                        /\ (\A k \in j + 1 .. i - 1 : ~(w[k].op.op = "pointer"))
                        => w[j].op.at = w[i].op.at
      BY <1>1, <2>2 DEF PressesInPlace, IsPointer
    <2> HIDE DEF s, v, w
    <2>5. ASSUME NEW i \in 1 .. m, v[i].op.op = "pointer", v[i].op.buttons # 0
          PROVE  /\ \E j \in 1 .. i - 1 : v[j].op.op = "pointer"
                 /\ \A j \in 1 .. i - 1 :
                      v[j].op.op = "pointer" /\ v[j].op.buttons = 0
                          /\ (\A k \in j + 1 .. i - 1 : ~(v[k].op.op = "pointer"))
                          => v[j].op.at = v[i].op.at
      <3>1. \A j \in 1 .. i - 1 : j \in 1 .. m /\ v[j] = w[j]
        BY <2>2
      <3>2. v[i] = w[i]
        BY <2>2
      <3>3. \A j \in 1 .. i - 1 : \A k \in j + 1 .. i - 1 : k \in 1 .. i - 1
        OBVIOUS
      <3> QED
        BY <2>4, <2>5, <3>1, <3>2, <3>3
    <2>6. ASSUME v[m + 1].op.op = "pointer", v[m + 1].op.buttons # 0
          PROVE  /\ \E j \in 1 .. m : v[j].op.op = "pointer"
                 /\ \A j \in 1 .. m :
                      v[j].op.op = "pointer" /\ v[j].op.buttons = 0
                          /\ (\A k \in j + 1 .. m : ~(v[k].op.op = "pointer"))
                          => v[j].op.at = v[m + 1].op.at
      <3>1. Presses(s[1])
        BY <2>2, <2>6 DEF Presses
      <3>2. ~ \E j \in 1 .. 1 - 1 : s[j].op = "pointer"
        OBVIOUS
      <3>3. /\ \E j \in DOMAIN w : w[j].op.op = "pointer"
            /\ \A j \in DOMAIN w :
                 Ultimate(w, j) /\ w[j].op.buttons = 0 => w[j].op.at = s[1].at
        BY <2>3, <3>1, <3>2 DEF Ready
      <3>4. \A j \in 1 .. m : \A k \in j + 1 .. m : k \in 1 .. m
        BY <2>2
      <3>5. ASSUME NEW j \in 1 .. m, v[j].op.op = "pointer", v[j].op.buttons = 0,
                   \A k \in j + 1 .. m : ~(v[k].op.op = "pointer")
            PROVE  v[j].op.at = v[m + 1].op.at
        <4>1. v[j] = w[j] /\ \A k \in j + 1 .. m : v[k] = w[k]
          BY <2>2, <3>4
        <4>2. Ultimate(w, j)
          BY <2>2, <3>5, <4>1 DEF Ultimate
        <4> QED
          BY <2>2, <3>3, <3>5, <4>1, <4>2
      <3>6. \E j \in 1 .. m : v[j].op.op = "pointer"
        BY <2>2, <3>3
      <3> QED
        BY <3>5, <3>6
    <2>7. ASSUME NEW i \in 1 .. m + 1, v[i].op.op = "pointer", v[i].op.buttons # 0
          PROVE  /\ \E j \in 1 .. i - 1 : v[j].op.op = "pointer"
                 /\ \A j \in 1 .. i - 1 :
                      v[j].op.op = "pointer" /\ v[j].op.buttons = 0
                          /\ (\A k \in j + 1 .. i - 1 : ~(v[k].op.op = "pointer"))
                          => v[j].op.at = v[i].op.at
      <3>1. i \in 1 .. m \/ (i = m + 1 /\ i - 1 = m)
        BY <2>2
      <3> QED
        BY <2>5, <2>6, <2>7, <3>1
    <2> QED
      BY <2>2, <2>7 DEF PressesInPlace, IsPointer, v
  <1> QED
    BY <1>2, <1>3

\* What is held is let go of, by what is on the wire or what is left of the plan.
LEMMA SendUndoes ==
    ASSUME TypeOK, Grip, Hands, NEW r \in Requests, Send(r)
    PROVE  Undone'
  <1>1. CASE ~connected
    BY <1>1 DEF Undone, Send, sessionVars
  <1>2. CASE connected
    <2>1. PICK m : m = Len(wire)
      OBVIOUS
    <2> DEFINE s == req[r].ops
               t == req'[r].ops
               v == wire'
               w == wire
               n == Len(s)
    <2>2. /\ m \in Nat /\ DOMAIN w = 1 .. m /\ DOMAIN v = 1 .. m + 1
          /\ v[m + 1].op = s[1] /\ \A j \in 1 .. m : v[j] = w[j]
      BY <1>2, <2>1, Sent
    <2>3. /\ holder = r /\ holder' = r /\ s \in Seq(RfbOp) /\ s # <<>> /\ t = Tail(s)
          /\ Released(s)
      <3>1. req[r] \in Handlers
        BY DEF TypeOK
      <3>2. req[r].pc = "execute"
        BY SendIs
      <3>3. holder = r /\ Released(s)
        BY <3>2 DEF Hands, Unbraided, Grip, Poised
      <3> QED
        BY <1>2, <3>1, <3>3, Fields, SendIs
    <2>4. /\ DOMAIN s = 1 .. n /\ n \in Nat \ {0} /\ DOMAIN t = 1 .. n - 1
          /\ \A k \in 1 .. n - 1 : t[k] = s[k + 1]
      BY <2>3, Rest
    <2> SUFFICES ASSUME connected', \A q \in Requests : req'[q].pc # "gone",
                        NEW i \in DOMAIN wire', HoldsDown(wire'[i].op)
                 PROVE  LetGoOf(i)'
      BY DEF Undone
    <2>5. \A q \in Requests : req[q].pc # "gone"
      <3>1. req \in [Requests -> Handlers]
        BY DEF TypeOK
      <3>2. req[r].pc = "execute"
        BY SendIs
      <3>3. \A q \in Requests \ {r} : req'[q] = req[q]
        BY <3>1, HandlerSteps DEF Handler
      <3> QED
        BY <3>2, <3>3
    <2>6. \A k \in 1 .. m : HoldsDown(w[k].op) =>
             \/ \E j \in 1 .. m : j > k /\ LetsGo(w[j].op, w[k].op)
             \/ \E j \in 1 .. n : LetsGo(s[j], w[k].op)
      BY <1>2, <2>2, <2>3, <2>4, <2>5 DEF Grip, Undone, LetGoOf
    <2>7. (\E j \in 1 .. m + 1 : j > i /\ LetsGo(v[j].op, v[i].op))
             \/ (\E k \in 1 .. n - 1 : LetsGo(t[k], v[i].op))
          => LetGoOf(i)'
      BY <2>2, <2>3, <2>4 DEF LetGoOf
    <2>8. i \in 1 .. m + 1 /\ HoldsDown(v[i].op)
      BY <2>2
    <2> HIDE DEF s, t, v, w, n
    <2>9. ASSUME NEW j \in 2 .. n, LetsGo(s[j], v[i].op)
          PROVE  \E k \in 1 .. n - 1 : LetsGo(t[k], v[i].op)
      <3>1. j - 1 \in 1 .. n - 1 /\ (j - 1) + 1 = j
        BY <2>4
      <3>2. t[j - 1] = s[j]
        BY <2>4, <3>1
      <3> QED
        BY <2>9, <3>1, <3>2
    <2>10. CASE i = m + 1
      <3>1. PICK j \in 1 .. n : j > 1 /\ LetsGo(s[j], s[1])
        <4>1. 1 \in 1 .. n
          BY <2>4
        <4> QED
          BY <2>2, <2>3, <2>4, <2>8, <2>10, <4>1 DEF Released
      <3>2. j \in 2 .. n
        BY <3>1
      <3> QED
        BY <2>2, <2>7, <2>9, <2>10, <3>1, <3>2
    <2>11. CASE i \in 1 .. m
      <3>1. v[i] = w[i]
        BY <2>2, <2>11
      <3>2. CASE \E j \in 1 .. m : j > i /\ LetsGo(w[j].op, w[i].op)
        <4> PICK j \in 1 .. m : j > i /\ LetsGo(w[j].op, w[i].op)
          BY <3>2
        <4>1. v[j] = w[j] /\ j \in 1 .. m + 1
          BY <2>2
        <4> QED
          BY <2>7, <3>1, <4>1
      <3>3. CASE \E j \in 1 .. n : LetsGo(s[j], w[i].op)
        <4> PICK j \in 1 .. n : LetsGo(s[j], w[i].op)
          BY <3>3
        <4>1. CASE j = 1
          <5>1. m + 1 \in 1 .. m + 1 /\ m + 1 > i
            BY <2>2, <2>11
          <5> QED
            BY <2>2, <2>7, <3>1, <4>1, <5>1
        <4>2. CASE j # 1
          <5>1. j \in 2 .. n
            BY <4>2
          <5> QED
            BY <2>7, <2>9, <3>1, <5>1
        <4> QED
          BY <4>1, <4>2
      <3> QED
        BY <2>6, <2>8, <2>11, <3>1, <3>2, <3>3
    <2>12. i = m + 1 \/ i \in 1 .. m
      BY <2>2, <2>8
    <2> QED
      BY <2>10, <2>11, <2>12
  <1> QED
    BY <1>1, <1>2

LEMMA IdleUndoes ==
    ASSUME TypeOK, Grip, Hands, NEW r \in Requests, Arrive(r) \/ Handler(r) \/ Cancel(r), ~Send(r)
    PROVE  Undone'
  <1> DEFINE h == req[r]
             g == req'[r]
  <1>1. UNCHANGED <<wire, connected>>
    BY DEF Arrive, Handler, Cancel, TakeHands, FallAsleep, WakeUp, Stamp, DropHands,
           TakeLastInput, CheckPainted, Ask, RefreshResolves, RefreshTimesOut, RefreshCloses,
           TakeFrame, sessionVars
  <1>2. \A s \in Requests \ {r} : req'[s] = req[s]
    BY OthersPoised
  <1>3. ASSUME g.pc # "gone", h.pc # "gone",
               \A i \in DOMAIN wire : LetGoOf(i) /\ HoldsDown(wire[i].op) => LetGoOf(i)'
        PROVE  Undone'
    BY <1>1, <1>2, <1>3 DEF Grip, Undone
  <1>4. CASE UNCHANGED holder /\ holder # r
    <2>1. \A i \in DOMAIN wire : LetGoOf(i) => LetGoOf(i)'
      BY <1>1, <1>2, <1>4 DEF LetGoOf
    <2>2. CASE g.pc = "gone"
      BY <2>2 DEF Undone
    <2>3. CASE h.pc = "gone"
      BY <2>3, PlanCourse DEF Undone
    <2> QED
      BY <1>3, <2>1, <2>2, <2>3
  <1>5. CASE h.pc = "queue" /\ g.pc = "execute" /\ holder = Nobody
    <2>1. \A i \in DOMAIN wire : LetGoOf(i) => LetGoOf(i)'
      BY <1>1, <1>5 DEF LetGoOf
    <2> QED
      BY <1>3, <1>5, <2>1
  <1>6. CASE /\ h.pc = "execute" /\ g.pc = "sleep" /\ UNCHANGED holder /\ holder = r
             /\ h.ops # <<>> /\ Head(h.ops).op = "sleep" /\ g.ops = Tail(h.ops)
    <2> DEFINE n == Len(h.ops)
    <2>1. h.ops \in Seq(RfbOp)
      <3>1. h \in Handlers
        BY DEF TypeOK
      <3> QED
        BY <3>1, Fields
    <2>2. /\ DOMAIN h.ops = 1 .. n /\ n \in Nat \ {0} /\ DOMAIN g.ops = 1 .. n - 1
          /\ h.ops[1].op = "sleep" /\ \A k \in 1 .. n - 1 : g.ops[k] = h.ops[k + 1]
      BY <1>6, <2>1, Rest
    <2> HIDE DEF n
    <2>3. ASSUME NEW i \in DOMAIN wire, HoldsDown(wire[i].op), NEW k \in 1 .. n,
                 LetsGo(h.ops[k], wire[i].op)
          PROVE  \E j \in 1 .. n - 1 : LetsGo(g.ops[j], wire[i].op)
      <3>1. k # 1
        BY <2>2, <2>3 DEF LetsGo, HoldsDown, Key
      <3>2. k - 1 \in 1 .. n - 1 /\ (k - 1) + 1 = k
        BY <2>2, <3>1
      <3>3. g.ops[k - 1] = h.ops[k]
        BY <2>2, <3>2
      <3> QED
        BY <2>3, <3>2, <3>3
    <2>4. \A i \in DOMAIN wire : LetGoOf(i) /\ HoldsDown(wire[i].op) => LetGoOf(i)'
      BY <1>1, <1>6, <2>2, <2>3 DEF LetGoOf
    <2> QED
      BY <1>3, <1>6, <2>4
  <1>7. CASE h.pc = "sleep" /\ g.pc = "execute" /\ g.ops = h.ops /\ UNCHANGED holder
    <2>1. \A s \in Requests : req'[s].ops = req[s].ops
      BY <1>2, <1>7
    <2>2. \A i \in DOMAIN wire : LetGoOf(i) => LetGoOf(i)'
      BY <1>1, <1>7, <2>1 DEF LetGoOf
    <2> QED
      BY <1>3, <1>7, <2>2
  <1>8. CASE holder = r /\ h.pc \in {"execute", "drop"} /\ h.ops = <<>> /\ g.pc # "gone"
    <2>1. \A i \in DOMAIN wire : LetGoOf(i) => LetGoOf(i)'
      BY <1>1, <1>8 DEF LetGoOf
    <2> QED
      BY <1>3, <1>8, <2>1
  <1>9. CASE g.pc = "gone"
    BY <1>9 DEF Undone
  <1>10. /\ h.pc = "drop" => holder = r /\ h.ops = <<>>
         /\ holder = r => h.pc \in {"execute", "sleep", "drop"}
    BY DEF Grip, Poised, Hands, Unbraided
  <1> QED
    BY <1>4, <1>5, <1>6, <1>7, <1>8, <1>9, <1>10, PlanCourse

LEMMA GripStays == TypeOK /\ Grip /\ Hands /\ [Next]_vars => Grip'
  <1> SUFFICES ASSUME TypeOK, Grip, Hands, [Next]_vars PROVE Grip'
    OBVIOUS
  <1>1. ASSUME NEW r \in Requests, Arrive(r) \/ Handler(r) \/ Cancel(r) PROVE Grip'
    <2>1. \A s \in Requests : Poised(s)'
      BY <1>1, OthersPoised, OwnPoise
    <2>2. Undone'
      BY <1>1, SendUndoes, IdleUndoes
    <2>3. PressesInPlace'
      <3>1. CASE Send(r)
        BY <3>1, PlaceStays
      <3>2. CASE ~Send(r)
        <4>1. UNCHANGED wire
          BY <1>1, <3>2 DEF Arrive, Handler, Cancel, TakeHands, FallAsleep, WakeUp, Stamp,
             DropHands, TakeLastInput, CheckPainted, Ask, RefreshResolves, RefreshTimesOut,
             RefreshCloses, TakeFrame
        <4> QED
          BY <4>1 DEF Grip, PressesInPlace, IsPointer
      <3> QED
        BY <3>1, <3>2
    <2> QED
      BY <2>1, <2>2, <2>3 DEF Grip
  <1>2. CASE DesktopDraws \/ UpdateArrives \/ ScreenResizes \/ ResizesBehindRect \/ UpdateEnds
       \/ SessionDies \/ Tick \/ UNCHANGED vars
    <2>1. UNCHANGED <<wire, holder>> /\ (connected' => connected)
      BY <1>2, StaysDead DEF DesktopDraws, UpdateArrives, ScreenResizes, ResizesBehindRect,
       UpdateEnds, SessionDies, Tick,
         handsVars, vars
    <2>2. \A r \in Requests : req'[r].pc = req[r].pc /\ req'[r].ops = req[r].ops
      <3>1. req \in [Requests -> Handlers] /\ \A h \in Handlers : {"pc", "ops", "timer", "answered"} \subseteq DOMAIN h
        BY DEF TypeOK, Handlers
      <3> QED
        BY <1>2, <3>1 DEF DesktopDraws, UpdateArrives, ScreenResizes, ResizesBehindRect,
       UpdateEnds, SessionDies, Tick, vars
    <2> QED
      BY <2>1, <2>2, GripKeeps
  <1> QED
    BY <1>1, <1>2 DEF Next

\* ComputerServer's PressesInPlace, for any actions and pacing and however many
\* handlers queue, sleep or are dropped: no button goes down where the pointer is
\* not.
THEOREM PressesHavePlace == Spec => []PressesInPlace
  <1>1. Grip => PressesInPlace
    BY DEF Grip
  <1> QED
    BY <1>1, Starts, TypesStay, HandsStart, HandsStay, GripStart, GripStays, PTL DEF Spec

\* ComputerServer's NothingHeld: with the hands free, and nothing cut short, every
\* button and key that went down has come up again.
THEOREM NothingIsLeftHeld == Spec => []NothingHeld
  <1>1. Grip => NothingHeld
    <2> SUFFICES ASSUME Grip, holder = Nobody, connected, \A r \in Requests : ~At(r, "gone"),
                        NEW i \in DOMAIN wire, HoldsDown(wire[i].op)
                 PROVE  \E j \in DOMAIN wire : j > i /\ LetsGo(wire[j].op, wire[i].op)
      BY DEF NothingHeld
    <2>1. holder \notin Requests
      BY ServerAssumption
    <2>2. \A r \in Requests : req[r].pc # "gone"
      BY DEF At
    <2>3. LetGoOf(i)
      BY <2>1, <2>2 DEF Grip, Undone
    <2> QED
      BY <2>3 DEF LetGoOf
  <1> QED
    BY <1>1, Starts, TypesStay, HandsStart, HandsStay, GripStart, GripStays, PTL DEF Spec
=============================================================================
