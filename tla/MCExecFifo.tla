----------------------------- MODULE MCExecFifo -----------------------------
(* Starters are model values.  They are interchangeable, but a symmetry    *)
(* reduction would not be sound for the liveness properties.               *)
EXTENDS ExecFifo
=============================================================================
