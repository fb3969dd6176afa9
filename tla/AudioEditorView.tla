--------------------------- MODULE AudioEditorView ---------------------------
(***************************************************************************)
(* The timeline of the cut screen: MultiTrackAudioEditorView over its base *)
(* class, with the one audio fragment setWaveform() adds and the piece     *)
(* that is cut out of it (CutPieceFragment). Everything runs on the main   *)
(* thread, one callback at a time; what makes it hard is the order of the  *)
(* callbacks: fingers, frames, the fling, the messages that scroll at the  *)
(* edge, and the buttons beside the view.                                  *)
(*                                                                         *)
(* Times are integers from mScaleInfo.startValue on. The scale is kept as  *)
(* whole milliseconds per pixel, the reciprocal of unitMsPixel, so that    *)
(* pixel2Time(p) is p * msPerPixel; positions, which would be fractions,   *)
(* are compared as multiples of 1 / msPerPixel.                            *)
(***************************************************************************)
EXTENDS Integers, Sequences

CONSTANTS
  Width,       \* of the view and the screen, in pixels
  CursorX,     \* cursorPosition: where the cursor is drawn
  Nominal,     \* of each mode, the milliseconds per pixel setMode() gives it
  RoundsDown,  \* modes for which Width / (Width / span) is below span in floats
  FirstMode,   \* the mode the fragment begins with
  RangeEnd,    \* mScaleInfo.endValue
  Duration,    \* of the audio
  Stroke,      \* strokeWidth_cut
  Handle,      \* width of the area in which a finger takes a cut line
  Edge,        \* the strip at the right edge in which the timeline scrolls
  Back,        \* a finger that goes back by more than this stops scrolling
  Space,       \* MOVE_INTERVAL_SPACE
  PlayStep,    \* what the play button adds to the cursor
  MaxDrag,     \* bound: pixels a finger on the ruler moves between two events
  MaxCursor,   \* bound on the cursor, beyond which only messages and buttons move it
  MaxTime,     \* bound on the selection
  MaxOffset,   \* bound on the drag of the audio, and on the selection before 0
  MaxMoves     \* bound on MSG_MOVE messages under way

Modes == DOMAIN Nominal
Last == Len(Nominal)
Scales == Nominal[1]..Nominal[Last]

ASSUME ViewAssumption ==
  /\ {Width, CursorX, RangeEnd, Duration, Stroke, Handle, Edge, Back, Space, PlayStep,
      MaxDrag, MaxCursor, MaxTime, MaxOffset, MaxMoves} \subseteq Nat
  /\ Nominal \in Seq(Nat \ {0}) /\ Last > 0
  /\ \A i, j \in Modes : i < j => Nominal[i] < Nominal[j]
  /\ RoundsDown \subseteq Modes
  /\ FirstMode \in Modes

VARIABLES
  cursorValue,      \* time under the cursor
  msPerPixel,       \* 1 / unitMsPixel
  mMode,            \* mode of the ruler
  radio,            \* button of rgScale that is checked
  mTickSpacing,     \* of the ticks: what one stands for and the scale it was computed at
  status,           \* STATUS_...
  scrollHappened,
  scroller,         \* the fling: whether it runs, where it is and where it ends
  touch,            \* what the finger that is down has hit
  gesture,          \* what the gesture detector takes it for
  onLongPress,
  cursorOffsetTime, \* how far the audio has been dragged along the ruler
  startTime,        \* startTimestampTimeInSelf
  endTime,          \* endTimestampTimeInSelf
  isMovingStart, isMovingEnd,
  lastTouchX,       \* lastTouchXProcess; 0 without a finger on a cut line
  moves,            \* MSG_MOVE messages in the queue
  rect,             \* where the audio was drawn last
  dirty             \* invalidate() was called: a frame is due

scaleVars == <<msPerPixel, mMode, radio, mTickSpacing>>
fingerVars == <<touch, gesture, onLongPress>>
cutVars == <<startTime, endTime, isMovingStart, isMovingEnd, lastTouchX, moves>>
vars == <<cursorValue, scaleVars, status, scrollHappened, scroller, fingerVars,
          cursorOffsetTime, cutVars, rect, dirty>>

InBounds(t) == -MaxOffset <= t /\ t <= MaxTime

-----------------------------------------------------------------------------
(* Positions *)

\* n / d cut off towards zero, as toInt() does.
Trunc(n, d) == IF n >= 0 THEN n \div d ELSE -((-n) \div d)

\* Where time t of the audio is on the screen, times the scale.
Position(t) == CursorX * msPerPixel + cursorOffsetTime + t - cursorValue

\* The rectangle drawWave() fills and keeps, for hit tests and drag limits.
DrawnRect(cursor, offset, scale) ==
  LET x == CursorX * scale + offset - cursor
  IN [left |-> Trunc(x, scale), right |-> Trunc(x + (Duration \div scale) * scale, scale)]

\* A finger at x is on a cut line: in the area right of the line.
isTarget(x) ==
  \E t \in {startTime, endTime} :
    LET left == Trunc(Position(t), msPerPixel) IN left <= x /\ x < left + Handle

InRange(t) == IF t < 0 THEN 0 ELSE IF t > RangeEnd THEN RangeEnd ELSE t

-----------------------------------------------------------------------------
(* Scale and mode *)

\* Fault: the screen has to show more than the span of a mode.
StrictModeOf(scale) ==
  LET passed == {m \in Modes : Nominal[m] < scale}
  IN IF passed = {} THEN 1 ELSE CHOOSE m \in passed : \A k \in passed : k <= m

\* updateMode(): the coarsest mode whose span the screen shows, in floats.
ModeOf(scale) ==
  LET reached == {m \in Modes : Nominal[m] < scale \/ (Nominal[m] = scale /\ m \notin RoundsDown)}
  IN IF reached = {} THEN 1 ELSE CHOOSE m \in reached : \A k \in reached : k <= m

\* unitValue * unitMsPixel, against what it is at the nominal scale of a mode:
\* there a tick is the same part of the screen in every mode.
Spacing(mode, scale) ==
  IF scale = Nominal[mode] THEN [of |-> 1, per |-> 1] ELSE [of |-> Nominal[mode], per |-> scale]

\* Fault: the mode changes and the scale does not follow.
keepScale(m) == radio' = m /\ mMode' = m /\ UNCHANGED msPerPixel

\* A button of rgScale is checked, by the user or by the ruler: its listener
\* calls setMode(), which gives the scale its nominal value and leaves the
\* spacing of the ticks alone. The call back to rgScale finds the button
\* checked and ends there.
setMode(m) ==
  /\ radio' = m
  /\ mMode' = m
  /\ msPerPixel' = Nominal[m]

\* setMode() as a zoom calls it: the scale stays, unless the mode changes and
\* the listener checks another button.
updateMode(scale) ==
  LET m == ModeOf(scale)
  IN IF m = mMode \/ m = radio
     THEN mMode' = m /\ msPerPixel' = scale /\ UNCHANGED radio
     ELSE setMode(m)

\* Fault: a zoom goes as far as the fingers do.
Unlimited(scale) == scale

Zoomed(scale) ==
  IF scale < Nominal[1] THEN Nominal[1] ELSE IF scale > Nominal[Last] THEN Nominal[Last] ELSE scale

\* The scale detector reports a pinch (or a double tap and drag).
onScale(scale) ==
  /\ status' = "ZOOM"
  /\ updateMode(Zoomed(scale))
  /\ mTickSpacing' = Spacing(mMode', msPerPixel')
  /\ dirty' = TRUE
  /\ UNCHANGED <<cursorValue, scrollHappened, gesture>>

\* A scroller at its end; where it stands is not asked any more.
Finished == [on |-> FALSE, x |-> 0, to |-> 0]

-----------------------------------------------------------------------------
(* A finger on the ruler *)

onDown ==
  /\ touch = "none"
  /\ touch' = "ruler" /\ gesture' = "tap"
  /\ status' = "DOWN"
  /\ IF status = "SCROLL_FLING"
       THEN scroller' = Finished /\ UNCHANGED scrollHappened
       ELSE scrollHappened' = FALSE /\ UNCHANGED scroller
  /\ UNCHANGED <<cursorValue, scaleVars, onLongPress, cursorOffsetTime, cutVars, rect, dirty>>

\* A second finger ends the detector's long press, but not onLongPress.
pointerDown ==
  /\ touch = "ruler" /\ gesture # "move"
  /\ gesture' = "move"
  /\ UNCHANGED <<cursorValue, scaleVars, status, scrollHappened, scroller, touch, onLongPress,
                 cursorOffsetTime, cutVars, rect, dirty>>

\* The first scroll of a finger only says that it has begun.
onScroll(dx) ==
  /\ gesture # "press"
  /\ gesture' = "move"
  /\ scrollHappened' = TRUE
  /\ IF ~scrollHappened
       THEN dirty' = (dirty \/ onLongPress) /\ UNCHANGED <<status, cursorValue>>
       ELSE /\ status' = "SCROLL"
            /\ cursorValue' = InRange(cursorValue - dx * msPerPixel)
            /\ dirty' = TRUE
  /\ UNCHANGED scaleVars

\* After a long press the audio follows the finger along the ruler.
LongPressMove(dx) ==
  IF onLongPress
  THEN cursorOffsetTime' = cursorOffsetTime + dx * msPerPixel' /\ cursorOffsetTime' \in -MaxOffset..MaxOffset
  ELSE UNCHANGED cursorOffsetTime

\* The gesture detector says nothing during its long press, and onScroll()
\* returns at once while two fingers are down.
noScroll ==
  /\ gesture \in {"press", "move"}
  /\ dirty' = (dirty \/ onLongPress)
  /\ UNCHANGED <<scaleVars, status, cursorValue, scrollHappened, gesture>>

\* onTouchEvent(ACTION_MOVE): the scale detector, the gesture detector (whose
\* scrolls are ignored while the other zooms), then the long press.
move(dx) ==
  /\ touch = "ruler"
  /\ \/ \E scale \in (Nominal[1] - 1)..(Nominal[Last] + 1) : onScale(scale)
     \/ onScroll(dx)
     \/ noScroll
  /\ LongPressMove(dx)
  /\ UNCHANGED <<scroller, touch, onLongPress, cutVars, rect>>

\* The finger has rested: the track it drags is the only one.
LongPress ==
  /\ touch = "ruler" /\ gesture = "tap"
  /\ gesture' = "press" /\ onLongPress' = TRUE
  /\ UNCHANGED <<cursorValue, scaleVars, status, scrollHappened, scroller, touch,
                 cursorOffsetTime, cutVars, rect, dirty>>

-----------------------------------------------------------------------------
(* A finger on a cut line *)

downOnCut(x) ==
  /\ touch = "none" /\ isTarget(x)
  /\ touch' = "cut"
  /\ isMovingStart' = (x * msPerPixel - Position(startTime) \in -(Stroke * msPerPixel)..(Stroke * msPerPixel))
  /\ isMovingEnd' = (x * msPerPixel - Position(endTime) \in -(Stroke * msPerPixel)..(Stroke * msPerPixel))
  /\ lastTouchX' = x
  /\ UNCHANGED <<cursorValue, scaleVars, status, scrollHappened, scroller, gesture, onLongPress,
                 cursorOffsetTime, startTime, endTime, moves, rect, dirty>>

\* The limits are tested where the line was: the += on startTimestampPosition
\* and endTimestampPosition is lost, their getters compute the value.
dragStart(dx) ==
  /\ startTime' =
       IF Position(startTime) <= rect.left * msPerPixel THEN 0
       ELSE IF Position(startTime) >= Position(endTime) - Stroke * msPerPixel
       THEN endTime - Stroke * msPerPixel
       ELSE startTime + dx * msPerPixel
  /\ UNCHANGED <<endTime, moves>>

\* Each move at the edge sends one more MSG_MOVE while there is audio to come.
dragEnd(x, dx) ==
  LET beyond == Position(endTime) >= rect.right * msPerPixel
      tooClose == Position(endTime) <= Position(startTime) + Stroke * msPerPixel
      left == IF dx < -Back \/ x <= Width - Edge THEN 0 ELSE moves
      atEdge == Position(endTime) + dx * msPerPixel >= (Width - Stroke) * msPerPixel
  IN /\ endTime' = IF beyond THEN Duration
                   ELSE IF tooClose THEN startTime + Stroke * msPerPixel
                   ELSE endTime + dx * msPerPixel
     /\ moves' = IF ~beyond /\ ~tooClose /\ atEdge /\ rect.right > Width THEN left + 1 ELSE left
     /\ UNCHANGED startTime

\* With two fingers down, x may be that of either.
moveCut(x) ==
  /\ touch = "cut"
  /\ LET dx == x - lastTouchX
     IN IF isMovingStart THEN dragStart(dx)
        ELSE IF isMovingEnd THEN dragEnd(x, dx)
        ELSE UNCHANGED <<startTime, endTime, moves>>
  /\ InBounds(startTime') /\ InBounds(endTime') /\ moves' <= MaxMoves
  /\ lastTouchX' = x
  /\ dirty' = TRUE
  /\ UNCHANGED <<cursorValue, scaleVars, status, scrollHappened, scroller, fingerVars,
                 cursorOffsetTime, isMovingStart, isMovingEnd, rect>>

\* MSG_MOVE: the timeline and the end of the selection move on, and so does
\* the message, which is sent again.
handleMessage ==
  /\ moves > 0
  /\ cursorValue' = cursorValue + Space * msPerPixel
  /\ endTime' = endTime + Space * msPerPixel
  /\ cursorValue' <= MaxCursor /\ InBounds(endTime')
  /\ dirty' = TRUE
  /\ UNCHANGED <<scaleVars, status, scrollHappened, scroller, fingerVars, cursorOffsetTime,
                 startTime, isMovingStart, isMovingEnd, lastTouchX, moves, rect>>

-----------------------------------------------------------------------------
(* The finger leaves *)

\* Fault: the messages stay.
forgetMessages ==
  /\ isMovingStart' = FALSE /\ isMovingEnd' = FALSE
  /\ lastTouchX' = 0
  /\ UNCHANGED <<startTime, endTime, moves>>

\* The cut piece drops its line and withdraws its messages.
endDrag ==
  IF touch = "cut"
  THEN /\ isMovingStart' = FALSE /\ isMovingEnd' = FALSE
       /\ lastTouchX' = 0
       /\ moves' = 0
       /\ UNCHANGED <<startTime, endTime>>
  ELSE UNCHANGED cutVars

\* The finger was fast: the scroller takes over, from where the ruler is to
\* somewhere between its ends.
onFling(to) ==
  /\ touch = "ruler" /\ gesture = "move"
  /\ status' = "SCROLL_FLING"
  /\ scroller' = [on |-> TRUE, x |-> Trunc(cursorValue, msPerPixel), to |-> to]
  /\ dirty' = TRUE

\* Fault: a fling is over when the finger is up.
NoStatus == "NONE"

\* What ACTION_UP leaves of a status.
StatusAfterUp == IF status \in {"DOWN", "SCROLL", "ZOOM"} THEN "NONE" ELSE status

up ==
  /\ touch # "none"
  /\ endDrag
  /\ \/ \E to \in 0..(RangeEnd \div msPerPixel) : onFling(to)
     \/ status' = StatusAfterUp /\ UNCHANGED <<scroller, dirty>>
  /\ scrollHappened' = FALSE
  /\ touch' = "none" /\ gesture' = "none" /\ onLongPress' = FALSE
  /\ UNCHANGED <<cursorValue, scaleVars, cursorOffsetTime, rect>>

\* ACTION_CANCEL: status and scrollHappened stay as they are.
cancel ==
  /\ touch # "none"
  /\ endDrag
  /\ touch' = "none" /\ gesture' = "none" /\ onLongPress' = FALSE
  /\ UNCHANGED <<cursorValue, scaleVars, status, scrollHappened, scroller, cursorOffsetTime,
                 rect, dirty>>

-----------------------------------------------------------------------------
(* The screen around the view *)

\* The user checks another button of rgScale.
checkRadio(m) ==
  /\ m # radio
  /\ setMode(m)
  /\ UNCHANGED mTickSpacing
  /\ dirty' = TRUE
  /\ UNCHANGED <<cursorValue, status, scrollHappened, scroller, fingerVars, cursorOffsetTime,
                 cutVars, rect>>

\* Fault: a new cursor waits for the next frame that is due.
cursorValueKept == UNCHANGED dirty

\* A change of the cursor redraws the view, for the fragment there is.
cursorValueChange == dirty' = TRUE

\* The play button.
setCursorTimeValue ==
  /\ cursorValue' = cursorValue + PlayStep /\ cursorValue' <= MaxCursor
  /\ cursorValueChange
  /\ UNCHANGED <<scaleVars, status, scrollHappened, scroller, fingerVars, cursorOffsetTime,
                 cutVars, rect>>

\* computeScroll() while the scroller runs: it gets on, and asks for a frame.
Scrolling ==
  /\ scroller.on
  /\ \E x \in (scroller.x..scroller.to) \cup (scroller.to..scroller.x) :
       /\ x # scroller.x \/ x = scroller.to
       /\ scroller' = IF x = scroller.to THEN Finished ELSE [scroller EXCEPT !.x = x]
       /\ cursorValue' = InRange(x * msPerPixel)
  /\ dirty' = TRUE
  /\ UNCHANGED status

\* Fault: nobody ends the fling.
RestingOnly == ~scroller.on /\ dirty' = FALSE /\ UNCHANGED <<scroller, status, cursorValue>>

\* computeScroll() when it does not.
Resting ==
  /\ ~scroller.on
  /\ status' = IF status = "SCROLL_FLING" THEN "NONE" ELSE status
  /\ dirty' = FALSE
  /\ UNCHANGED <<scroller, cursorValue>>

\* A frame: computeScroll(), then onDraw().
frame ==
  /\ dirty
  /\ Scrolling \/ Resting
  /\ rect' = DrawnRect(cursorValue', cursorOffsetTime, msPerPixel)
  /\ UNCHANGED <<scaleVars, scrollHappened, fingerVars, cursorOffsetTime, cutVars>>

-----------------------------------------------------------------------------
\* The middle third is selected. initView() reads the audio before it returns.
setWaveform == startTime = Duration \div 3 /\ endTime = (Duration \div 3) * 2

\* The fragment has called setMode(), setRange() and setWaveform(), and the
\* view has a size.
Init ==
  /\ cursorValue = 0 /\ cursorOffsetTime = 0
  /\ mMode = FirstMode /\ radio = FirstMode /\ msPerPixel = Nominal[FirstMode]
  /\ mTickSpacing = Spacing(FirstMode, Nominal[FirstMode])
  /\ status = "NONE" /\ scrollHappened = FALSE
  /\ scroller = Finished
  /\ touch = "none" /\ gesture = "none" /\ onLongPress = FALSE
  /\ setWaveform
  /\ isMovingStart = FALSE /\ isMovingEnd = FALSE /\ lastTouchX = 0 /\ moves = 0
  /\ rect = [left |-> 0, right |-> 0]
  /\ dirty = TRUE

Finger ==
  \/ onDown
  \/ pointerDown
  \/ \E dx \in -MaxDrag..MaxDrag : move(dx)
  \/ LongPress
  \/ \E x \in 0..Width : downOnCut(x)
  \/ \E x \in 0..Width : moveCut(x)
  \/ up
  \/ cancel

Others ==
  \/ handleMessage
  \/ \E m \in Modes : checkRadio(m)
  \/ setCursorTimeValue
  \/ frame

Next == Finger \/ Others

\* A frame that was asked for is drawn.
Spec == Init /\ [][Next]_vars /\ WF_vars(frame)

-----------------------------------------------------------------------------
TypeOK ==
  /\ cursorValue \in Int /\ cursorOffsetTime \in Int
  /\ msPerPixel \in Scales
  /\ mMode \in Modes /\ radio \in Modes
  /\ mTickSpacing \in [of : Nat, per : Nat]
  /\ status \in {"NONE", "DOWN", "SCROLL", "SCROLL_FLING", "ZOOM"}
  /\ scrollHappened \in BOOLEAN
  /\ scroller \in [on : BOOLEAN, x : Int, to : Int]
  /\ touch \in {"none", "ruler", "cut"}
  /\ gesture \in {"none", "tap", "move", "press"}
  /\ onLongPress \in BOOLEAN
  /\ startTime \in Int /\ endTime \in Int
  /\ isMovingStart \in BOOLEAN /\ isMovingEnd \in BOOLEAN
  /\ lastTouchX \in 0..Width
  /\ moves \in 0..MaxMoves
  /\ rect \in [left : Int, right : Int]
  /\ dirty \in BOOLEAN

\* What onDraw() steps by from tick to tick is what a tick stands for.
TicksFit == mTickSpacing.of * msPerPixel = Nominal[mMode] * mTickSpacing.per

(***************************************************************************)
(* The button that is checked, the mode and the scale agree, although each *)
(* may set the others: a zoom the mode, the mode the button, and the       *)
(* button the mode and the scale again. So do the ticks, except at the     *)
(* nominal scale of a mode: setMode() never sets mTickSpacing, and after a *)
(* zoom to between two modes a button leaves the spacing of that zoom.     *)
(***************************************************************************)
ModeFitsScale ==
  /\ radio = mMode
  /\ Nominal[mMode] <= msPerPixel
  /\ mMode < Last => msPerPixel <= Nominal[mMode + 1]
  /\ msPerPixel = Nominal[mMode] \/ TicksFit

(***************************************************************************)
(* A pinch never ends in the other direction, whatever mode it snaps to.   *)
(* The exception is a zoom to exactly the span of a mode that the float    *)
(* quotient puts below it (updateMode()).                                  *)
(***************************************************************************)
ZoomKeepsDirection ==
  [][\A scale \in (Nominal[1] - 1)..(Nominal[Last] + 1) :
       /\ touch = "ruler" /\ onScale(scale)
       /\ \A m \in RoundsDown : Zoomed(scale) # Nominal[m]
       => /\ scale >= msPerPixel => msPerPixel' >= msPerPixel
          /\ scale <= msPerPixel => msPerPixel' <= msPerPixel]_vars

(***************************************************************************)
(* A finger on the ruler has stopped the fling (onDown() does so only if   *)
(* the status still says so): the two never move the cursor in turn.       *)
(***************************************************************************)
TouchStopsFling == scroller.on => status = "SCROLL_FLING" /\ touch # "ruler"

(***************************************************************************)
(* Either end of the selection changes only while a finger holds that cut  *)
(* line: messages that scroll at the edge do not outlive the touch that    *)
(* sent them.                                                              *)
(***************************************************************************)
SelectionIsTouched ==
  [][/\ startTime' # startTime => isMovingStart
     /\ endTime' # endTime => isMovingEnd /\ ~isMovingStart]_vars

(***************************************************************************)
(* The rectangle kept from the last frame, which drags and long presses    *)
(* are measured against, is that of the present cursor, offset and scale,  *)
(* or a frame is due.                                                      *)
(***************************************************************************)
DrawnIsCurrent ==
  ~dirty => rect = DrawnRect(cursorValue, cursorOffsetTime, msPerPixel)

(***************************************************************************)
(* A fling ends: its status, which keeps ACTION_UP from resetting it, is   *)
(* reset by a frame or by the next finger.                                 *)
(***************************************************************************)
FlingEnds == status = "SCROLL_FLING" ~> status # "SCROLL_FLING"
=============================================================================
