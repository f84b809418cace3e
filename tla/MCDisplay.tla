----------------------------- MODULE MCDisplay -----------------------------
(* Images and windows for Display: the first is too wide for the small      *)
(* window, the second too high for either; what stands right of the first   *)
(* is outside the small window; the third is not shown.                     *)
EXTENDS Display

Shown(type, width, height) ==
    [ext |-> type, size |-> 5000, header |-> TRUE, full |-> TRUE, w |-> width, h |-> height]

MCImages == { Shown("jpeg", 330, 90), Shown("webp", 100, 400),
              [Shown("gif", 100, 90) EXCEPT !.full = FALSE] }
MCSizes == {<<332, 252>>, <<500, 300>>}
MCPoints == {<<20, 240>>}
MCExisting == {0}
=============================================================================
