------------------------ MODULE AudioEditorViewProofs ------------------------
(***************************************************************************)
(* Theorems about AudioEditorView, for any screen, range, audio and scales *)
(* of the modes: the view keeps its types, mode and scale agree, a pinch   *)
(* keeps its direction, a touch has stopped the fling, only a finger       *)
(* changes the selection, and what was drawn is current.                   *)
(***************************************************************************)
EXTENDS AudioEditorView, WellFoundedInduction, TLAPS

(***************************************************************************)
(* Modes and scales.                                                       *)
(***************************************************************************)

\* The sizes are numbers.
LEMMA SizeFacts ==
  /\ Width \in Nat /\ CursorX \in Nat /\ RangeEnd \in Nat /\ Duration \in Nat
  /\ Stroke \in Nat /\ Handle \in Nat /\ Edge \in Nat /\ Back \in Nat /\ Space \in Nat
  /\ PlayStep \in Nat /\ MaxDrag \in Nat /\ MaxCursor \in Nat /\ MaxTime \in Nat
  /\ MaxOffset \in Nat /\ MaxMoves \in Nat
  BY ViewAssumption

\* The modes are 1..Last, and their scales lie between those of the ends.
LEMMA ScaleFacts ==
  /\ Last \in Nat \ {0} /\ Modes = 1..Last
  /\ \A m \in Modes : Nominal[m] \in Nat \ {0} /\ Nominal[m] \in Scales
  /\ Scales \subseteq Nat \ {0}
  <1>1. Last \in Nat \ {0} /\ Modes = 1..Last
    BY ViewAssumption DEF Last, Modes
  <1>2. \A m \in Modes : Nominal[m] \in Nat \ {0}
    BY <1>1, ViewAssumption DEF Modes
  <1>3. ASSUME NEW m \in Modes
        PROVE  Nominal[1] <= Nominal[m] /\ Nominal[m] <= Nominal[Last]
    <2>1. 1 \in Modes /\ Last \in Modes
      BY <1>1
    <2>2. 1 < m => Nominal[1] < Nominal[m]
      BY <2>1, ViewAssumption
    <2>3. m < Last => Nominal[m] < Nominal[Last]
      BY <2>1, ViewAssumption
    <2> QED BY <1>1, <1>2, <2>1, <2>2, <2>3
  <1>4. 1 \in Modes /\ Last \in Modes
    BY <1>1
  <1> QED BY <1>1, <1>2, <1>3, <1>4 DEF Scales

\* A set of modes that is not empty has a greatest one.
LEMMA GreatestMode ==
  ASSUME NEW S, S \subseteq Modes, S # {}
  PROVE  \E m \in S : \A k \in S : k <= m
  <1> DEFINE R == {p \in Nat \X Nat : p[1] < p[2]}
             T == {Last - m : m \in S}
  <1>1. OpToRel(<, Nat) = R
    BY Zenon DEF OpToRel
  <1>2. IsWellFoundedOn(R, Nat)
    BY <1>1, NatLessThanWellFounded, Zenon
  <1>3. T \subseteq Nat /\ T # {}
    <2>1. \A m \in S : m \in 1..Last /\ Last - m \in Nat
      BY ScaleFacts
    <2>2. PICK m \in S : TRUE
      OBVIOUS
    <2>3. Last - m \in T
      BY <2>2
    <2> QED BY <2>1, <2>3
  <1> HIDE DEF R
  <1>4. \E x \in T : \A y \in T : ~ (<<y, x>> \in R)
    <2> HIDE DEF T
    <2> QED BY <1>2, <1>3, WFMin, Zenon
  <1>5. PICK m \in S : \A y \in T : ~ (<<y, Last - m>> \in R)
    BY <1>4
  <1>6. ASSUME NEW k \in S
        PROVE  k <= m
    <2>1. Last - k \in T /\ Last - k \in Nat /\ Last - m \in Nat
      BY <1>3
    <2>2. ~ (Last - k < Last - m)
      BY <1>5, <2>1 DEF R
    <2> QED BY <2>2, ScaleFacts
  <1> QED BY <1>6

\* What updateMode() finds: a mode whose span is shown, and no coarser one's is.
LEMMA ModeOfFacts ==
  ASSUME NEW scale \in Scales
  PROVE  /\ ModeOf(scale) \in Modes
         /\ Nominal[ModeOf(scale)] <= scale
         /\ \A k \in Modes : ModeOf(scale) < k => scale <= Nominal[k]
         /\ (\A m \in RoundsDown : scale # Nominal[m]) =>
              \A k \in Modes : ModeOf(scale) < k => scale < Nominal[k]
  <1> DEFINE reached == {m \in Modes : Nominal[m] < scale \/ (Nominal[m] = scale /\ m \notin RoundsDown)}
  <1>1. scale \in Nat /\ 1 \in Modes /\ Nominal[1] <= scale
    BY ScaleFacts DEF Scales
  <1>2. CASE reached = {}
    <2>1. ModeOf(scale) = 1
      BY <1>2 DEF ModeOf
    <2>2. \A k \in Modes : k \notin reached
      BY <1>2
    <2>3. \A k \in Modes : scale <= Nominal[k]
      BY <2>2, <1>1, ScaleFacts
    <2>4. (\A m \in RoundsDown : scale # Nominal[m]) => \A k \in Modes : scale < Nominal[k]
      BY <2>2, <1>1, ScaleFacts
    <2> QED BY <1>1, <2>1, <2>3, <2>4
  <1>3. CASE reached # {}
    <2> DEFINE m == ModeOf(scale)
    <2>1. m = CHOOSE n \in reached : \A k \in reached : k <= n
      BY <1>3 DEF ModeOf
    <2>2. \E n \in reached : \A k \in reached : k <= n
      <3>1. reached \subseteq Modes
        OBVIOUS
      <3> HIDE DEF reached
      <3> QED BY <1>3, <3>1, GreatestMode, Zenon
    <2>3. m \in reached /\ \A k \in reached : k <= m
      <3> HIDE DEF reached, m
      <3> QED BY <2>1, <2>2
    <2>4. m \in Modes /\ Nominal[m] <= scale
      <3> HIDE DEF m
      <3> QED BY <2>3, <1>1, ScaleFacts
    <2>5. ASSUME NEW k \in Modes, m < k
          PROVE  k \notin reached
      <3> HIDE DEF reached, m
      <3> QED BY <2>3, <2>4, <2>5, ScaleFacts
    <2>6. \A k \in Modes : m < k => scale <= Nominal[k]
      <3> HIDE DEF m
      <3> QED BY <2>5, <1>1, ScaleFacts
    <2>7. (\A n \in RoundsDown : scale # Nominal[n]) => \A k \in Modes : m < k => scale < Nominal[k]
      <3> HIDE DEF m
      <3> QED BY <2>5, <1>1, ScaleFacts
    <2> QED BY <2>4, <2>6, <2>7
  <1> QED BY <1>2, <1>3

LEMMA ZoomedIsScale ==
  ASSUME NEW scale \in Int
  PROVE  Zoomed(scale) \in Scales
  BY ScaleFacts DEF Zoomed, Scales

LEMMA TruncIsInt ==
  ASSUME NEW n \in Int, NEW d \in Scales
  PROVE  Trunc(n, d) \in Int
  BY ScaleFacts DEF Trunc

\* The drawn rectangle and the positions are whole numbers.
LEMMA DrawnRectIsRect ==
  ASSUME NEW cursor \in Int, NEW offset \in Int, NEW scale \in Scales
  PROVE  DrawnRect(cursor, offset, scale) \in [left : Int, right : Int]
  <1> DEFINE x == CursorX * scale + offset - cursor
             width == (Duration \div scale) * scale
  <1>1. x \in Int /\ width \in Int
    BY SizeFacts, ScaleFacts
  <1>2. Trunc(x, scale) \in Int /\ Trunc(x + width, scale) \in Int
    <2> HIDE DEF x, width
    <2> QED BY <1>1, TruncIsInt
  <1>3. DrawnRect(cursor, offset, scale) = [left |-> Trunc(x, scale), right |-> Trunc(x + width, scale)]
    BY DEF DrawnRect
  <1> QED BY <1>2, <1>3

(***************************************************************************)
(* Types.                                                                  *)
(***************************************************************************)

LEMMA FinishedIsScroller == Finished \in [on : BOOLEAN, x : Int, to : Int]
  BY DEF Finished

LEMMA updateModeTypes ==
  ASSUME TypeOK, NEW scale \in Scales, updateMode(scale)
  PROVE  msPerPixel' \in Scales /\ mMode' \in Modes /\ radio' \in Modes
  <1>1. ModeOf(scale) \in Modes
    BY ModeOfFacts
  <1>2. Nominal[ModeOf(scale)] \in Scales
    BY <1>1, ScaleFacts
  <1> QED BY <1>1, <1>2 DEF updateMode, setMode, TypeOK

LEMMA SpacingTypes ==
  ASSUME NEW m \in Modes, NEW scale \in Scales
  PROVE  Spacing(m, scale) \in [of : Nat, per : Nat]
  BY ScaleFacts DEF Spacing

\* What a finger on the ruler does to the types.
LEMMA rulerTypes ==
  ASSUME TypeOK,
         onDown \/ pointerDown \/ LongPress \/ (\E dx \in -MaxDrag..MaxDrag : move(dx))
  PROVE  TypeOK'
  <1>1. CASE onDown
    <2>1. scroller' \in [on : BOOLEAN, x : Int, to : Int] /\ scrollHappened' \in BOOLEAN
      BY <1>1, FinishedIsScroller DEF TypeOK, onDown
    <2> QED BY <1>1, <2>1 DEF TypeOK, onDown, scaleVars, cutVars
  <1>2. CASE pointerDown
    BY <1>2 DEF TypeOK, pointerDown, scaleVars, cutVars
  <1>3. CASE LongPress
    BY <1>3 DEF TypeOK, LongPress, scaleVars, cutVars
  <1>4. ASSUME NEW dx \in -MaxDrag..MaxDrag, move(dx)
        PROVE  TypeOK'
    <2>1. dx \in Int
      BY SizeFacts
    <2>2. /\ msPerPixel' \in Scales /\ mMode' \in Modes /\ radio' \in Modes
          /\ mTickSpacing' \in [of : Nat, per : Nat]
          /\ cursorValue' \in Int /\ scrollHappened' \in BOOLEAN /\ dirty' \in BOOLEAN
          /\ status' \in {"NONE", "DOWN", "SCROLL", "SCROLL_FLING", "ZOOM"}
          /\ gesture' \in {"none", "tap", "move", "press"}
      <3>1. CASE \E scale \in (Nominal[1] - 1)..(Nominal[Last] + 1) : onScale(scale)
        <4>1. PICK scale \in (Nominal[1] - 1)..(Nominal[Last] + 1) : onScale(scale)
          BY <3>1
        <4>2. Zoomed(scale) \in Scales
          BY ZoomedIsScale, ScaleFacts
        <4>3. msPerPixel' \in Scales /\ mMode' \in Modes /\ radio' \in Modes
          BY <4>1, <4>2, updateModeTypes DEF onScale
        <4>4. mTickSpacing' \in [of : Nat, per : Nat]
          BY <4>1, <4>3, SpacingTypes DEF onScale
        <4> QED BY <4>1, <4>3, <4>4 DEF onScale, TypeOK
      <3>2. CASE onScroll(dx)
        <4>1. dx * msPerPixel \in Int
          BY <2>1, ScaleFacts DEF TypeOK
        <4>2. InRange(cursorValue - dx * msPerPixel) \in Int
          BY <4>1, SizeFacts DEF InRange, TypeOK
        <4> QED BY <3>2, <4>2 DEF onScroll, TypeOK, scaleVars
      <3>3. CASE noScroll
        BY <3>3 DEF noScroll, TypeOK, scaleVars
      <3> QED BY <1>4, <3>1, <3>2, <3>3 DEF move
    <2>3. cursorOffsetTime' \in Int
      <3>1. dx * msPerPixel' \in Int
        BY <2>1, <2>2, ScaleFacts
      <3> QED BY <1>4, <3>1 DEF move, LongPressMove, TypeOK
    <2> QED BY <1>4, <2>2, <2>3 DEF move, TypeOK, cutVars
  <1> QED BY <1>1, <1>2, <1>3, <1>4

\* What a finger on a cut line does to the types.
LEMMA cutTypes ==
  ASSUME TypeOK,
         \E x \in 0..Width : downOnCut(x) \/ moveCut(x)
  PROVE  TypeOK'
  <1>1. PICK x \in 0..Width : downOnCut(x) \/ moveCut(x)
    OBVIOUS
  <1>2. CASE downOnCut(x)
    BY <1>2 DEF TypeOK, downOnCut, scaleVars
  <1>3. CASE moveCut(x)
    <2> DEFINE dx == x - lastTouchX
    <2>1. /\ dx \in Int /\ dx * msPerPixel \in Int /\ Stroke * msPerPixel \in Int
          /\ startTime \in Int /\ endTime \in Int
      BY SizeFacts, ScaleFacts DEF TypeOK
    <2>2. startTime' \in Int /\ endTime' \in Int /\ moves' \in Nat
      <3>1. CASE isMovingStart
        <4>1. dragStart(dx)
          BY <1>3, <3>1 DEF moveCut
        <4> HIDE DEF dx
        <4>2. startTime' \in {0, endTime - Stroke * msPerPixel, startTime + dx * msPerPixel}
          BY <4>1 DEF dragStart
        <4>3. endTime' = endTime /\ moves' = moves
          BY <4>1 DEF dragStart
        <4> QED BY <2>1, <4>2, <4>3 DEF TypeOK
      <3>2. CASE ~isMovingStart /\ isMovingEnd
        <4>1. dragEnd(x, dx)
          BY <1>3, <3>2 DEF moveCut
        <4> HIDE DEF dx
        <4>2. endTime' \in {Duration, startTime + Stroke * msPerPixel, endTime + dx * msPerPixel}
          BY <4>1 DEF dragEnd
        <4>3. startTime' = startTime /\ moves' \in {0, 1, moves, moves + 1}
          BY <4>1 DEF dragEnd
        <4> QED BY <2>1, <4>2, <4>3, SizeFacts DEF TypeOK
      <3>3. CASE ~isMovingStart /\ ~isMovingEnd
        BY <1>3, <3>3, <2>1 DEF moveCut, TypeOK
      <3> QED BY <3>1, <3>2, <3>3
    <2>3. moves' \in 0..MaxMoves
      BY <1>3, <2>2, SizeFacts DEF moveCut
    <2> QED BY <1>3, <2>2, <2>3 DEF moveCut, TypeOK, scaleVars, fingerVars
  <1> QED BY <1>1, <1>2, <1>3

LEMMA endDragTypes ==
  ASSUME TypeOK, endDrag
  PROVE  /\ startTime' \in Int /\ endTime' \in Int
         /\ isMovingStart' \in BOOLEAN /\ isMovingEnd' \in BOOLEAN
         /\ lastTouchX' \in 0..Width /\ moves' \in 0..MaxMoves
  <1>1. CASE touch = "cut"
    <2>1. 0 \in 0..Width /\ 0 \in 0..MaxMoves
      BY SizeFacts
    <2> QED BY <1>1, <2>1 DEF TypeOK, endDrag
  <1>2. CASE touch # "cut"
    BY <1>2 DEF TypeOK, endDrag, cutVars
  <1> QED BY <1>1, <1>2

\* What the end of a touch does to the types.
LEMMA upTypes ==
  ASSUME TypeOK, up \/ cancel
  PROVE  TypeOK'
  <1>1. endDrag
    BY DEF up, cancel
  <1>2. CASE up
    <2>1. /\ status' \in {"NONE", "DOWN", "SCROLL", "SCROLL_FLING", "ZOOM"}
          /\ scroller' \in [on : BOOLEAN, x : Int, to : Int]
          /\ dirty' \in BOOLEAN
      <3>1. ASSUME NEW to \in 0..(RangeEnd \div msPerPixel), onFling(to)
            PROVE  /\ status' = "SCROLL_FLING" /\ dirty' = TRUE
                   /\ scroller' \in [on : BOOLEAN, x : Int, to : Int]
        <4>1. Trunc(cursorValue, msPerPixel) \in Int
          BY TruncIsInt DEF TypeOK
        <4> QED BY <3>1, <4>1 DEF onFling
      <3>2. CASE status' = StatusAfterUp /\ UNCHANGED <<scroller, dirty>>
        BY <3>2 DEF StatusAfterUp, TypeOK
      <3> QED BY <1>2, <3>1, <3>2 DEF up
    <2> QED BY <1>1, <1>2, <2>1, endDragTypes DEF up, TypeOK, scaleVars
  <1>3. CASE cancel
    BY <1>1, <1>3, endDragTypes DEF cancel, TypeOK, scaleVars
  <1> QED BY <1>2, <1>3

\* What everything beside the finger does to the types.
LEMMA otherTypes ==
  ASSUME TypeOK, Others
  PROVE  TypeOK'
  <1>1. CASE handleMessage
    <2>1. Space * msPerPixel \in Int
      BY SizeFacts, ScaleFacts DEF TypeOK
    <2> QED BY <1>1, <2>1 DEF TypeOK, handleMessage, scaleVars, fingerVars
  <1>3. ASSUME NEW m \in Modes, checkRadio(m)
        PROVE  TypeOK'
    BY <1>3, ScaleFacts DEF TypeOK, checkRadio, setMode, fingerVars, cutVars
  <1>4. CASE setCursorTimeValue
    BY <1>4, SizeFacts DEF TypeOK, setCursorTimeValue, cursorValueChange, scaleVars, fingerVars, cutVars
  <1>5. CASE frame
    <2>1. /\ cursorValue' \in Int /\ dirty' \in BOOLEAN
          /\ status' \in {"NONE", "DOWN", "SCROLL", "SCROLL_FLING", "ZOOM"}
          /\ scroller' \in [on : BOOLEAN, x : Int, to : Int]
      <3>1. CASE Scrolling
        <4>1. PICK x \in (scroller.x..scroller.to) \cup (scroller.to..scroller.x) :
                /\ scroller' = IF x = scroller.to THEN Finished ELSE [scroller EXCEPT !.x = x]
                /\ cursorValue' = InRange(x * msPerPixel)
          BY <3>1 DEF Scrolling
        <4>2. x \in Int /\ x * msPerPixel \in Int
          BY ScaleFacts DEF TypeOK
        <4>3. InRange(x * msPerPixel) \in Int
          BY <4>2, SizeFacts DEF InRange
        <4> QED BY <3>1, <4>1, <4>2, <4>3 DEF Scrolling, Finished, TypeOK
      <3>2. CASE Resting
        BY <3>2 DEF Resting, TypeOK
      <3> QED BY <1>5, <3>1, <3>2 DEF frame
    <2>2. rect' \in [left : Int, right : Int]
      BY <1>5, <2>1, DrawnRectIsRect DEF frame, TypeOK
    <2> QED BY <1>5, <2>1, <2>2 DEF frame, TypeOK, scaleVars, fingerVars, cutVars
  <1> QED BY <1>1, <1>3, <1>4, <1>5 DEF Others

\* Every field keeps its type, for all constants: the scale never leaves the
\* modes, and no conversion between time and pixels gives anything but a number.
THEOREM TypeCorrect == Spec => []TypeOK
  <1>1. Init => TypeOK
    <2> SUFFICES ASSUME Init PROVE TypeOK
      OBVIOUS
    <2>1. scroller \in [on : BOOLEAN, x : Int, to : Int]
      BY FinishedIsScroller DEF Init
    <2>2. msPerPixel \in Scales /\ mMode \in Modes /\ radio \in Modes
      BY ScaleFacts, ViewAssumption DEF Init
    <2>3. 0 \in 0..Width /\ 0 \in 0..MaxMoves
      BY SizeFacts
    <2>4. rect \in [left : Int, right : Int]
      BY DEF Init
    <2>5. startTime \in Int /\ endTime \in Int
      BY SizeFacts DEF Init, setWaveform
    <2>6. mTickSpacing \in [of : Nat, per : Nat]
      BY ScaleFacts, SpacingTypes, ViewAssumption DEF Init
    <2> QED BY <2>1, <2>2, <2>3, <2>4, <2>5, <2>6 DEF Init, TypeOK
  <1>2. TypeOK /\ [Next]_vars => TypeOK'
    <2> SUFFICES ASSUME TypeOK, [Next]_vars PROVE TypeOK'
      OBVIOUS
    <2>1. CASE Finger
      BY <2>1, rulerTypes, cutTypes, upTypes DEF Finger
    <2>2. CASE Others
      BY <2>2, otherTypes
    <2>3. CASE UNCHANGED vars
      BY <2>3 DEF TypeOK, vars, scaleVars, fingerVars, cutVars
    <2> QED BY <2>1, <2>2, <2>3 DEF Next
  <1> QED BY <1>1, <1>2, PTL DEF Spec

(***************************************************************************)
(* Scale, mode and button.                                                 *)
(***************************************************************************)

\* A finer mode has a smaller nominal scale.
LEMMA NominalOrder ==
  ASSUME NEW i \in Modes, NEW j \in Modes, i <= j
  PROVE  Nominal[i] <= Nominal[j]
  <1>1. i < j => Nominal[i] < Nominal[j]
    BY ViewAssumption
  <1>2. i \in Nat /\ j \in Nat /\ Nominal[i] \in Nat /\ Nominal[j] \in Nat
    BY ScaleFacts
  <1> QED BY <1>1, <1>2

\* Button, mode and scale; the ticks are the other part of ModeFitsScale.
ScaleFits ==
  /\ radio = mMode
  /\ Nominal[mMode] <= msPerPixel
  /\ mMode < Last => msPerPixel <= Nominal[mMode + 1]

\* A button that is checked brings mode and scale along, to the nominal one.
LEMMA setModeFits ==
  ASSUME NEW m \in Modes, setMode(m)
  PROVE  ScaleFits' /\ msPerPixel' = Nominal[mMode']
  <1>1. m < Last => m + 1 \in Modes
    BY ScaleFacts
  <1>2. m < Last => Nominal[m] <= Nominal[m + 1]
    BY <1>1, NominalOrder, ScaleFacts
  <1> QED BY <1>2, ScaleFacts DEF setMode, ScaleFits

\* So does a zoom: mode and button were the same before it.
LEMMA updateModeFits ==
  ASSUME ModeFitsScale, NEW scale \in Scales, updateMode(scale)
  PROVE  ScaleFits'
  <1> DEFINE m == ModeOf(scale)
  <1>1. /\ m \in Modes /\ Nominal[m] <= scale
        /\ \A k \in Modes : m < k => scale <= Nominal[k]
    BY ModeOfFacts
  <1>2. m < Last => scale <= Nominal[m + 1]
    <2>1. m < Last => m + 1 \in Modes /\ m < m + 1
      BY <1>1, ScaleFacts
    <2> QED BY <1>1, <2>1
  <1>3. CASE m = mMode \/ m = radio
    <2>1. mMode' = m /\ msPerPixel' = scale /\ radio' = radio
      BY <1>3 DEF updateMode
    <2> HIDE DEF m
    <2> QED BY <1>1, <1>2, <1>3, <2>1 DEF ModeFitsScale, ScaleFits
  <1>4. CASE ~(m = mMode \/ m = radio)
    BY <1>1, <1>4, setModeFits DEF updateMode
  <1> QED BY <1>3, <1>4

\* Ticks that were computed from a mode and a scale fit them.
LEMMA SpacingFits ==
  ASSUME NEW m \in Modes, NEW scale \in Scales
  PROVE  Spacing(m, scale).of * scale = Nominal[m] * Spacing(m, scale).per
  <1>1. scale \in Nat /\ Nominal[m] \in Nat
    BY ScaleFacts
  <1> QED BY <1>1 DEF Spacing

\* The zooms that are enumerated are numbers, and so is what they come to.
LEMMA ZoomFacts ==
  ASSUME NEW scale \in (Nominal[1] - 1)..(Nominal[Last] + 1)
  PROVE  scale \in Int /\ Zoomed(scale) \in Scales
  BY ScaleFacts, ZoomedIsScale

\* The checked button, the mode and the scale agree, for any list of modes and
\* for every way the float quotient may round, and so do the ticks whenever
\* the scale is not the nominal one of the mode.
THEOREM ModesAgree == Spec => []ModeFitsScale
  <1>1. Init => ModeFitsScale
    <2> SUFFICES ASSUME Init PROVE ModeFitsScale
      OBVIOUS
    <2>1. FirstMode \in Modes
      BY ViewAssumption
    <2>2. FirstMode < Last => FirstMode + 1 \in Modes
      BY <2>1, ScaleFacts
    <2>3. FirstMode < Last => Nominal[FirstMode] <= Nominal[FirstMode + 1]
      BY <2>1, <2>2, NominalOrder, ScaleFacts
    <2> QED BY <2>1, <2>3, ScaleFacts DEF Init, ModeFitsScale
  <1>2. TypeOK /\ ModeFitsScale /\ [Next]_vars => ModeFitsScale'
    <2> SUFFICES ASSUME TypeOK, ModeFitsScale, [Next]_vars PROVE ModeFitsScale'
      OBVIOUS
    <2>1. CASE UNCHANGED scaleVars
      BY <2>1 DEF ModeFitsScale, TicksFit, scaleVars
    <2>2. ASSUME NEW dx \in -MaxDrag..MaxDrag, move(dx)
          PROVE  ModeFitsScale'
      <3>1. ASSUME NEW scale \in (Nominal[1] - 1)..(Nominal[Last] + 1), onScale(scale)
            PROVE  ModeFitsScale'
        <4>1. Zoomed(scale) \in Scales /\ updateMode(Zoomed(scale))
          BY <3>1, ZoomFacts DEF onScale
        <4>2. ScaleFits'
          BY <4>1, updateModeFits
        <4>3. mMode' \in Modes /\ msPerPixel' \in Scales
          BY <4>1, updateModeTypes
        <4>4. mTickSpacing' = Spacing(mMode', msPerPixel')
          BY <3>1 DEF onScale
        <4>5. TicksFit'
          BY <4>3, <4>4, SpacingFits DEF TicksFit
        <4> QED BY <4>2, <4>5 DEF ModeFitsScale, ScaleFits
      <3>2. CASE UNCHANGED scaleVars
        BY <3>2, <2>1
      <3> QED BY <2>2, <3>1, <3>2 DEF move, onScroll, noScroll
    <2>3. ASSUME NEW m \in Modes, checkRadio(m)
          PROVE  ModeFitsScale'
      BY <2>3, setModeFits DEF checkRadio, ScaleFits, ModeFitsScale
    <2>4. CASE Finger
      BY <2>1, <2>2, <2>4
         DEF Finger, onDown, pointerDown, LongPress, downOnCut, moveCut, up, cancel
    <2>5. CASE Others
      BY <2>1, <2>3, <2>5 DEF Others, handleMessage, setCursorTimeValue, frame
    <2> QED BY <2>1, <2>4, <2>5 DEF Next, vars
  <1> QED BY <1>1, <1>2, TypeCorrect, PTL DEF Spec

\* What a pinch does to the scale, in whatever mode it ends.
LEMMA zoomDirection ==
  ASSUME TypeOK, ModeFitsScale,
         NEW scale \in (Nominal[1] - 1)..(Nominal[Last] + 1), onScale(scale),
         \A m \in RoundsDown : Zoomed(scale) # Nominal[m]
  PROVE  /\ scale >= msPerPixel => msPerPixel' >= msPerPixel
         /\ scale <= msPerPixel => msPerPixel' <= msPerPixel
  <1> DEFINE z == Zoomed(scale)
             m == ModeOf(z)
  <1>1. scale \in Int /\ z \in Scales /\ z \in Nat /\ msPerPixel \in Scales /\ msPerPixel \in Nat
    BY ZoomFacts, ScaleFacts DEF TypeOK
  <1>2. /\ scale >= msPerPixel => z >= msPerPixel
        /\ scale <= msPerPixel => z <= msPerPixel
    BY <1>1, ScaleFacts DEF Zoomed, Scales
  <1> HIDE DEF z
  <1>3. /\ m \in Modes /\ Nominal[m] <= z
        /\ \A k \in Modes : m < k => z < Nominal[k]
    <2>1. \A k \in RoundsDown : z # Nominal[k]
      BY DEF z
    <2> QED BY <1>1, <2>1, ModeOfFacts
  <1>4. updateMode(z)
    BY DEF onScale, z
  <1> HIDE DEF m
  <1>5. CASE m = mMode \/ m = radio
    <2>1. msPerPixel' = z
      BY <1>4, <1>5 DEF updateMode, m
    <2> QED BY <1>2, <2>1
  <1>6. CASE ~(m = mMode \/ m = radio)
    <2>1. msPerPixel' = Nominal[m]
      BY <1>4, <1>6 DEF updateMode, setMode, m
    <2>2. mMode \in Modes /\ m \in Nat /\ mMode \in Nat /\ Nominal[m] \in Nat /\ Nominal[mMode] \in Nat
      BY <1>3, ScaleFacts DEF TypeOK
    <2>3. CASE m < mMode
      <3>1. z < Nominal[mMode] /\ Nominal[mMode] <= msPerPixel
        BY <1>3, <2>2, <2>3 DEF ModeFitsScale
      <3>2. Nominal[m] <= Nominal[mMode]
        BY <1>3, <2>2, <2>3, NominalOrder
      <3> QED BY <1>1, <1>2, <2>1, <2>2, <3>1, <3>2
    <2>4. CASE mMode < m
      <3>1. mMode < Last /\ mMode + 1 \in Modes /\ mMode + 1 <= m /\ Nominal[mMode + 1] \in Nat
        BY <1>3, <2>2, <2>4, ScaleFacts
      <3>2. msPerPixel <= Nominal[mMode + 1] /\ Nominal[mMode + 1] <= Nominal[m]
        BY <1>3, <3>1, NominalOrder DEF ModeFitsScale
      <3> QED BY <1>1, <1>2, <1>3, <2>1, <2>2, <3>1, <3>2
    <2> QED BY <1>6, <2>2, <2>3, <2>4
  <1> QED BY <1>5, <1>6

\* Zooming out never zooms in, nor the other way round, for any scales of the
\* modes: what the snap to the nominal scale of another mode could undo.
THEOREM ZoomsKeepDirection == Spec => ZoomKeepsDirection
  <1>1. TypeOK /\ ModeFitsScale =>
          [\A scale \in (Nominal[1] - 1)..(Nominal[Last] + 1) :
             /\ touch = "ruler" /\ onScale(scale)
             /\ \A m \in RoundsDown : Zoomed(scale) # Nominal[m]
             => /\ scale >= msPerPixel => msPerPixel' >= msPerPixel
                /\ scale <= msPerPixel => msPerPixel' <= msPerPixel]_vars
    BY zoomDirection
  <1> QED BY <1>1, TypeCorrect, ModesAgree, PTL DEF ZoomKeepsDirection

(***************************************************************************)
(* Fingers, fling and messages.                                            *)
(***************************************************************************)

\* The scroller never runs under a finger on the ruler: no status that a
\* touch leaves behind makes onDown() miss a fling.
THEOREM TouchesStopFlings == Spec => []TouchStopsFling
  <1>1. Init => TouchStopsFling
    BY DEF Init, Finished, TouchStopsFling
  <1>2. TouchStopsFling /\ [Next]_vars => TouchStopsFling'
    <2> SUFFICES ASSUME TouchStopsFling, [Next]_vars PROVE TouchStopsFling'
      OBVIOUS
    <2>1. CASE UNCHANGED <<scroller, status>> /\ touch' \in {touch, "cut", "none"}
      BY <2>1 DEF TouchStopsFling
    <2>2. CASE UNCHANGED scroller /\ ~scroller.on
      BY <2>2 DEF TouchStopsFling
    <2>3. CASE onDown
      BY <2>3 DEF onDown, Finished, TouchStopsFling
    <2>4. CASE pointerDown \/ LongPress \/ \E dx \in -MaxDrag..MaxDrag : move(dx)
      BY <2>2, <2>4 DEF pointerDown, LongPress, move, TouchStopsFling
    <2>5. CASE up
      <3>1. CASE \E to \in 0..(RangeEnd \div msPerPixel) : onFling(to)
        BY <2>5, <3>1 DEF up, onFling, TouchStopsFling
      <3>2. CASE status' = StatusAfterUp /\ UNCHANGED <<scroller, dirty>>
        BY <2>5, <3>2 DEF up, StatusAfterUp, TouchStopsFling
      <3> QED BY <2>5, <3>1, <3>2 DEF up
    <2>6. CASE frame
      <3>1. CASE Scrolling
        BY <2>6, <3>1 DEF frame, Scrolling, Finished, fingerVars, TouchStopsFling
      <3>2. CASE Resting
        BY <2>6, <3>2 DEF frame, Resting, TouchStopsFling
      <3> QED BY <2>6, <3>1, <3>2 DEF frame
    <2>7. CASE Finger
      BY <2>1, <2>3, <2>4, <2>5, <2>7 DEF Finger, downOnCut, moveCut, cancel, fingerVars
    <2>8. CASE Others
      BY <2>1, <2>6, <2>8
         DEF Others, handleMessage, checkRadio, setCursorTimeValue, fingerVars
    <2> QED BY <2>1, <2>7, <2>8 DEF Next, vars, fingerVars
  <1> QED BY <1>1, <1>2, PTL DEF Spec

\* A line is held only by a finger on a cut line, and messages are under way
\* only while that line is the end of the selection.
CutHeld ==
  /\ touch # "cut" => ~isMovingStart /\ ~isMovingEnd
  /\ moves > 0 => touch = "cut" /\ isMovingEnd /\ ~isMovingStart

LEMMA endDragHeld ==
  ASSUME CutHeld, endDrag
  PROVE  ~isMovingStart' /\ ~isMovingEnd' /\ ~(moves' > 0) /\ UNCHANGED <<startTime, endTime>>
  BY DEF CutHeld, endDrag, cutVars

LEMMA CutIsHeld == Spec => []CutHeld
  <1>1. Init => CutHeld
    BY DEF Init, CutHeld
  <1>2. CutHeld /\ [Next]_vars => CutHeld'
    <2> SUFFICES ASSUME CutHeld, [Next]_vars PROVE CutHeld'
      OBVIOUS
    <2>1. CASE UNCHANGED <<touch, isMovingStart, isMovingEnd, moves>>
      BY <2>1 DEF CutHeld
    <2>2. CASE onDown
      BY <2>2 DEF onDown, cutVars, CutHeld
    <2>3. ASSUME NEW x \in 0..Width, downOnCut(x)
          PROVE  CutHeld'
      BY <2>3 DEF downOnCut, CutHeld
    <2>4. ASSUME NEW x \in 0..Width, moveCut(x)
          PROVE  CutHeld'
      BY <2>4 DEF moveCut, dragStart, fingerVars, CutHeld
    <2>5. CASE up \/ cancel
      BY <2>5, endDragHeld DEF up, cancel, CutHeld
    <2>6. CASE Finger
      BY <2>1, <2>2, <2>3, <2>4, <2>5, <2>6 DEF Finger, pointerDown, LongPress, move, cutVars
    <2>7. CASE Others
      BY <2>1, <2>7
         DEF Others, handleMessage, checkRadio, setCursorTimeValue, frame, cutVars, fingerVars
    <2> QED BY <2>1, <2>6, <2>7 DEF Next, vars, cutVars, fingerVars
  <1> QED BY <1>1, <1>2, PTL DEF Spec

\* No message, frame, zoom or button moves an end of the selection that no
\* finger holds, however many messages a touch has sent.
THEOREM SelectionsAreTouched == Spec => SelectionIsTouched
  <1> DEFINE Touched == /\ startTime' # startTime => isMovingStart
                        /\ endTime' # endTime => isMovingEnd /\ ~isMovingStart
  <1>1. CutHeld /\ [Next]_vars => [Touched]_vars
    <2> SUFFICES ASSUME CutHeld, [Next]_vars PROVE Touched
      OBVIOUS
    <2>1. CASE UNCHANGED <<startTime, endTime>>
      BY <2>1
    <2>2. ASSUME NEW x \in 0..Width, moveCut(x)
          PROVE  Touched
      BY <2>2 DEF moveCut, dragStart, dragEnd
    <2>3. CASE handleMessage
      BY <2>3 DEF handleMessage, CutHeld
    <2>5. CASE up \/ cancel
      BY <2>1, <2>5, endDragHeld DEF up, cancel
    <2> HIDE DEF Touched
    <2>6. CASE Finger
      BY <2>1, <2>2, <2>5, <2>6 DEF Finger, onDown, pointerDown, LongPress, move, downOnCut, cutVars
    <2>7. CASE Others
      BY <2>1, <2>3, <2>7 DEF Others, checkRadio, setCursorTimeValue, frame, cutVars
    <2> QED BY <2>1, <2>6, <2>7 DEF Next, vars, cutVars
  <1> QED BY <1>1, CutIsHeld, PTL DEF Spec, SelectionIsTouched

(***************************************************************************)
(* Drawing.                                                                *)
(***************************************************************************)

\* Whatever moves the audio on the screen asks for a frame, and the frame
\* keeps the rectangle it draws: drags are measured against what is shown.
THEOREM DrawingsAreCurrent == Spec => []DrawnIsCurrent
  <1>1. Init => DrawnIsCurrent
    BY DEF Init, DrawnIsCurrent
  <1>2. TypeOK /\ DrawnIsCurrent /\ [Next]_vars => DrawnIsCurrent'
    <2> SUFFICES ASSUME TypeOK, DrawnIsCurrent, [Next]_vars PROVE DrawnIsCurrent'
      OBVIOUS
    <2>1. CASE dirty'
      BY <2>1 DEF DrawnIsCurrent
    <2>2. CASE UNCHANGED <<dirty, rect, cursorValue, cursorOffsetTime, msPerPixel>>
      BY <2>2 DEF DrawnIsCurrent, DrawnRect, Trunc
    <2>3. ASSUME NEW dx \in -MaxDrag..MaxDrag, move(dx)
          PROVE  DrawnIsCurrent'
      <3>1. CASE onScroll(dx) /\ ~scrollHappened /\ ~onLongPress
        <4>1. dirty' = dirty
          BY <3>1 DEF onScroll, TypeOK
        <4> QED BY <2>2, <2>3, <3>1, <4>1 DEF move, onScroll, LongPressMove, scaleVars
      <3>2. CASE onScroll(dx) /\ (scrollHappened \/ onLongPress)
        BY <2>1, <3>2 DEF onScroll
      <3>3. CASE noScroll /\ ~onLongPress
        <4>1. dirty' = dirty
          BY <3>3 DEF noScroll, TypeOK
        <4> QED BY <2>2, <2>3, <3>3, <4>1 DEF move, noScroll, LongPressMove, scaleVars
      <3>4. CASE noScroll /\ onLongPress
        BY <2>1, <3>4 DEF noScroll
      <3> QED BY <2>1, <2>3, <3>1, <3>2, <3>3, <3>4 DEF move, onScale
    <2>4. CASE LongPress
      BY <2>4 DEF LongPress, DrawnIsCurrent, DrawnRect, Trunc, scaleVars
    <2>5. CASE up
      BY <2>1, <2>2, <2>5 DEF up, onFling, scaleVars
    <2>6. CASE setCursorTimeValue
      BY <2>6 DEF setCursorTimeValue, cursorValueChange, DrawnIsCurrent
    <2>7. CASE frame
      BY <2>7 DEF frame, DrawnIsCurrent, DrawnRect, Trunc, scaleVars
    <2>8. CASE Finger
      BY <2>1, <2>2, <2>3, <2>4, <2>5, <2>8
         DEF Finger, onDown, pointerDown, downOnCut, moveCut, cancel, scaleVars
    <2>9. CASE Others
      BY <2>1, <2>6, <2>7, <2>9 DEF Others, handleMessage, checkRadio
    <2> QED BY <2>2, <2>8, <2>9 DEF Next, vars, scaleVars
  <1> QED BY <1>1, <1>2, TypeCorrect, PTL DEF Spec
=============================================================================
