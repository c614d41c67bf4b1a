------------------------- MODULE MCObjectLifecycle -------------------------
(* ObjectLifecycle for TLC.  The runs check a liveness property and so use *)
(* no symmetry.                                                            *)
EXTENDS ObjectLifecycle, TLC
=============================================================================
