---------------------------- MODULE MCReadGate ----------------------------
(* Three callers (the program has two) and a window of three clock steps:  *)
(* enough for a hold to expire while a second is live and a third begins.  *)
EXTENDS ReadGate

CONSTANTS worker, settler, extra

MCHolders == {worker, settler, extra}
=============================================================================
