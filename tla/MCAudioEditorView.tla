------------------------- MODULE MCAudioEditorView -------------------------
(* Two modes, with a scale between them.                                   *)
EXTENDS AudioEditorView

NominalScales == <<1, 3>>
=============================================================================
