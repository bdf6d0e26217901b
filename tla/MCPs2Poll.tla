------------------------------ MODULE MCPs2Poll -----------------------------
(* The loop with a small counter; U32 only has to exceed DEFAULT_WAIT.      *)
EXTENDS Ps2Poll
=============================================================================
