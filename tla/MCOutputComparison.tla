------------------------- MODULE MCOutputComparison -------------------------
(***************************************************************************)
(* The words for TLC.  A double is exact below 16 steps; 64 and 68 are     *)
(* integers that one double stands for, and 132 is beyond all doubles.     *)
(***************************************************************************)
EXTENDS OutputComparison

MCWords ==
  [form : {"letters"}, text : {"yes", "YES", "no"}, value : {0}]
    \cup [form : {"special"}, text : {"NaN", "nan", "inf"}, value : {0}]
    \cup [form : {"integer"}, text : {""}, value : {-4, 4, 8, 12, 64, 68, 132}]
    \cup [form : {"decimal"}, text : {""}, value : {-4, 4, 5, 6, 13, 66, 68}]
=============================================================================
