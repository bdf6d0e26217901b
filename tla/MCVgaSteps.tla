----------------------------- MODULE MCVgaSteps -----------------------------
(* The order of the sizes is the code's: NROW = 25 < 0x20 < NCOL = 80, a row *)
(* of 160 bytes fits a byte, and 0x20 is even.  Three rows make the loop     *)
(* that moves rows run twice.                                                *)
EXTENDS VgaSteps
=============================================================================
