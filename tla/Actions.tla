------------------------------ MODULE Actions ------------------------------
(***************************************************************************)
(* The pure half of bolide-server: the plan of RFB operations that         *)
(* performs a computer-use action (actions.rs).  A place is a pair of      *)
(* coordinates, a keysym the name of its key, a duration a number of       *)
(* milliseconds.                                                           *)
(***************************************************************************)
EXTENDS Integers, Sequences, FiniteSets

CONSTANTS
    KnownKeys,  \* the names keysym_for knows
    Characters  \* what a text is made of: characters, or a chord's segments

-----------------------------------------------------------------------------
(* RfbOp *)

Pointer(at, buttons) == [op |-> "pointer", at |-> at, buttons |-> buttons]
Key(sym, down) == [op |-> "key", sym |-> sym, down |-> down]
Sleep(ms) == [op |-> "sleep", ms |-> ms]

\* What a plan is made of.
Keysyms == KnownKeys \cup Characters \cup {"Return", "Tab", "plus"}
RfbOp ==
    [op : {"pointer"}, at : Int \X Int, buttons : Nat]
        \cup [op : {"key"}, sym : Keysyms, down : BOOLEAN]
        \cup [op : {"sleep"}, ms : Nat]

\* A wait of zero plans no Sleep at all.
Pause(ms) == IF ms > 0 THEN <<Sleep(ms)>> ELSE <<>>

IsInput(op) == op.op \in {"pointer", "key"}

Left == 1
Middle == 2
Right == 4
WheelUp == 8
WheelDown == 16

-----------------------------------------------------------------------------
(* The building blocks of a plan *)

\* Mutant: a click trusts the pointer to be there already.
ClicksWithoutMove(at, buttons, count) ==
    [j \in 1 .. 2 * count |-> Pointer(at, IF j % 2 = 1 THEN buttons ELSE 0)]

\* clicks_at: move, then count times press and release.
ClicksAt(at, buttons, count) ==
    [j \in 1 .. 1 + 2 * count |-> Pointer(at, IF j % 2 = 0 THEN buttons ELSE 0)]

\* Integer division as the machine does it, towards zero.
Quotient(a, b) == IF a >= 0 THEN a \div b ELSE -((-a) \div b)

Sign(a) == IF a > 0 THEN 1 ELSE IF a < 0 THEN -1 ELSE 0

\* Mutant: the half is added whichever way the drag goes.
AlongHalfUp(a, b, i, n) ==
    a + Quotient(2 * ((b - a) * i) + n, 2 * n)

\* The i-th of n points on the way from a to b, rounded to the nearest pixel.
Along(a, b, i, n) ==
    LET offset == (b - a) * i
    IN  a + Quotient(2 * offset + Sign(offset) * n, 2 * n)

PointAlong(start, end, i, n) ==
    <<Along(start[1], end[1], i, n), Along(start[2], end[2], i, n)>>

Steps(pacing) == IF pacing.steps = 0 THEN 1 ELSE pacing.steps

\* The held moves of a drag, a pause between two of them.
Walk(start, end, pacing) ==
    LET n == Steps(pacing)
        held(i) == Pointer(PointAlong(start, end, i, n), Left)
    IN  IF pacing.step_ms = 0 THEN [i \in 1 .. n |-> held(i)]
        ELSE [j \in 1 .. 2 * n - 1 |->
                IF j % 2 = 1 THEN held((j + 1) \div 2) ELSE Sleep(pacing.step_ms)]

\* Mutant: the last held move is taken for the release.
DragWithoutRelease(start, end, pacing) ==
    <<Pointer(start, 0), Pointer(start, Left)>> \o Pause(pacing.dwell_ms)
        \o Walk(start, end, pacing) \o Pause(pacing.dwell_ms)

\* drag: press at the start, dwell, walk, dwell, release at the end.
Drag(start, end, pacing) ==
    <<Pointer(start, 0), Pointer(start, Left)>> \o Pause(pacing.dwell_ms)
        \o Walk(start, end, pacing) \o Pause(pacing.dwell_ms) \o <<Pointer(end, 0)>>

\* keysym_for_typed: the control characters of a text are named keys.
KeysymForTyped(c) ==
    CASE c \in {"\n", "\r"} -> "Return"
      [] c = "\t" -> "Tab"
      [] OTHER -> c

\* type: down and up, character by character.
Typed(text) ==
    [j \in 1 .. 2 * Len(text) |->
        Key(KeysymForTyped(text[(j + 1) \div 2]), j % 2 = 1)]

\* parse_chord, of a text as its segments between plus signs.  Of two empty ones
\* in a row the first stands for the plus key; one that has no second is an error.
EmptyBefore(text, i) ==
    Cardinality({j \in 1 .. i - 1 : \A k \in j .. i - 1 : text[k] = ""})
StartsKey(text, i) == text[i] # "" \/ EmptyBefore(text, i) % 2 = 0
KeyAt(text, i) == IF i \in DOMAIN text /\ text[i] # "" THEN text[i] ELSE "plus"

ParsesChord(text) ==
    \A i \in 1 .. Len(text) :
        StartsKey(text, i) =>
            IF text[i] = "" THEN i < Len(text) /\ text[i + 1] = "" ELSE text[i] \in KnownKeys

ParseChord(text) ==
    LET starts == {i \in 1 .. Len(text) : StartsKey(text, i)}
        nth(k) == CHOOSE i \in starts : Cardinality(starts \cap 1 .. i) = k
    IN  [k \in 1 .. Cardinality(starts) |-> KeyAt(text, nth(k))]

\* key: pressed in order and released in reverse.
Chord(syms) ==
    LET n == Len(syms)
    IN  [j \in 1 .. 2 * n |->
           IF j <= n THEN Key(syms[j], TRUE) ELSE Key(syms[2 * n + 1 - j], FALSE)]

-----------------------------------------------------------------------------
(* plan *)

ClickButton == [left_click |-> Left, right_click |-> Right, middle_click |-> Middle,
                double_click |-> Left, triple_click |-> Left]
ClickCount == [left_click |-> 1, right_click |-> 1, middle_click |-> 1,
               double_click |-> 2, triple_click |-> 3]
Clicks == DOMAIN ClickButton

\* ComputerAction.  A text to type is its characters, a chord its segments.
Coordinate == Int \X Int
Action ==
    [action : Clicks \cup {"mouse_move"}, coordinate : Coordinate]
        \cup [action : {"left_click_drag"}, start_coordinate : Coordinate, coordinate : Coordinate]
        \cup [action : {"scroll"}, coordinate : Coordinate, scroll_direction : {"up", "down"},
              scroll_amount : Nat]
        \cup [action : {"type", "key"}, text : Seq(Characters)]
        \cup [action : {"wait"}, duration : Int]
        \cup [action : {"screenshot", "cursor_position"}]

DragPacing == [steps : Nat, step_ms : Nat, dwell_ms : Nat]

\* PlanContext::check.  Nothing is clamped.
OnScreen(at, size) == at[1] \in 0 .. size[1] - 1 /\ at[2] \in 0 .. size[2] - 1

\* plan() finds no fault with the action.
Plannable(a, size) ==
    CASE a.action \in Clicks \cup {"mouse_move", "scroll"} -> OnScreen(a.coordinate, size)
      [] a.action = "left_click_drag" ->
            OnScreen(a.start_coordinate, size) /\ OnScreen(a.coordinate, size)
      [] a.action = "key" -> ParsesChord(a.text)
      [] OTHER -> TRUE

\* The operations it answers with.  A scroll of nothing does not even move.
Plan(a, pacing) ==
    CASE a.action \in Clicks ->
            ClicksAt(a.coordinate, ClickButton[a.action], ClickCount[a.action])
      [] a.action = "left_click_drag" -> Drag(a.start_coordinate, a.coordinate, pacing)
      [] a.action = "mouse_move" -> <<Pointer(a.coordinate, 0)>>
      [] a.action = "scroll" ->
            IF a.scroll_amount = 0 THEN <<>>
            ELSE ClicksAt(a.coordinate,
                          IF a.scroll_direction = "up" THEN WheelUp ELSE WheelDown,
                          a.scroll_amount)
      [] a.action = "type" -> Typed(a.text)
      [] a.action = "key" -> Chord(ParseChord(a.text))
      [] a.action = "wait" -> <<Sleep(IF a.duration > 0 THEN a.duration ELSE 0)>>
      [] OTHER -> <<>>  \* screenshot and cursor_position: answered from state

=============================================================================
