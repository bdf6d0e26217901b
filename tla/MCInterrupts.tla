---------------------------- MODULE MCInterrupts ----------------------------
(***************************************************************************)
(* The timer, the keyboard and the clock, and what firmware leaves masked: *)
(* everything, nothing, or what a PC BIOS does.                            *)
(***************************************************************************)
EXTENDS Interrupts

MCLines == {0, 1, 8}

Masks(m, s) == [master |-> m, slave |-> s]

MCFirmwareMasks == {Masks(255, 255), Masks(0, 0), Masks(\hb8, \h8e), Masks(\hfd, \hff)}

=============================================================================
