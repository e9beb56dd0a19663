----------------------------- MODULE MCRingBuff -----------------------------
(* The module of the runs of RingBuff.                                     *)
EXTENDS RingBuffProps
=============================================================================
