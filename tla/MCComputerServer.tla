-------------------------- MODULE MCComputerServer --------------------------
(***************************************************************************)
(* ComputerServer for TLC: two concurrent requests, a drag with pauses,    *)
(* ctrl and the plus key, and delays of one to four ticks.                 *)
(***************************************************************************)
EXTENDS ComputerServer, TLC

DragBody == [action |-> "left_click_drag", start_coordinate |-> <<0, 0>>,
             coordinate |-> <<1, 0>>]
TypeBody == [action |-> "type", text |-> <<"a">>]
ClickBody == [action |-> "left_click", coordinate |-> <<1, 0>>]
BeyondBody == [action |-> "left_click", coordinate |-> <<2, 0>>]
KeyBody == [action |-> "key", text |-> <<"ctrl", "", "">>]
ScreenshotBody == [action |-> "screenshot"]

\* An input races an input, or a screenshot of either kind.
CONSTANTS r1, r2
MCRequests == {r1, r2}
MCBodies == (r1 :> {DragBody, TypeBody, ClickBody, BeyondBody})
              @@ (r2 :> {KeyBody, GetScreenshot, ScreenshotBody})
MCKeys == {"a", "ctrl"}
MCCharacters == {"a", "ctrl", ""}
MCPacing == [steps |-> 1, step_ms |-> 0, dwell_ms |-> 1]

\* The size is read when an action arrives, which is refused if it is off the screen
\* (BeyondBody) as it would be on a smaller one; a resize blackens the screen, be it
\* to the size it had.
MCSizes == {<<2, 1>>}
MCInitialSize == <<2, 1>>
MCMishaps == {"cancel", "resize", "death"}
=============================================================================
