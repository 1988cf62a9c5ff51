--------------------------- MODULE MCPositionBook ---------------------------
(***************************************************************************)
(* Model-checking instance of PositionBook.                                *)
(***************************************************************************)
EXTENDS PositionBook, TLC

=============================================================================
