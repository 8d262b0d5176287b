--------------------------- MODULE MC_JoinCompile ---------------------------
(* Sides of up to two visible columns and one hidden ordering column.      *)
EXTENDS JoinCompile

CONSTANTS a, b, c, h, g, noResult

MCColIds == {a, b, c}
MCHiddenIds == {h, g}
=============================================================================
