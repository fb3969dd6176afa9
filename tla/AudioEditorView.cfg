SPECIFICATION Spec
CONSTANTS
  Width = 3
  CursorX = 1
  Nominal <- NominalScales
  RoundsDown = {}
  FirstMode = 1
  RangeEnd = 1
  Duration = 3
  Stroke = 1
  Handle = 2
  Edge = 2
  Back = 1
  Space = 1
  PlayStep = 2
  MaxDrag = 1
  MaxTime = 4
  MaxCursor = 2
  MaxOffset = 1
  MaxMoves = 2
INVARIANTS
  TypeOK
  ModeFitsScale
  TouchStopsFling
  DrawnIsCurrent
PROPERTIES
  ZoomKeepsDirection
  SelectionIsTouched
  FlingEnds
