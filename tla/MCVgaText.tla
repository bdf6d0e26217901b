----------------------------- MODULE MCVgaText ------------------------------
(* Two columns, three rows, 6-valued bytes: small enough for every text, large   *)
(* enough for wrapping, scrolling and repeated newlines past the last row.  *)
EXTENDS VgaText
=============================================================================
