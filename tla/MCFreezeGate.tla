---------------------------- MODULE MCFreezeGate ----------------------------
(* Small instances of FreezeGate for TLC.                                  *)
EXTENDS FreezeGate

CONSTANTS root, t1, t2, t3
=============================================================================
