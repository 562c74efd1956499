----------------------------- MODULE MCRtLogger -----------------------------
(* Three entries through a ring of two slots, so that slots are reused and *)
(* the ring overflows; e3 is a Debug entry, the others are Error entries.  *)
EXTENDS RtLogger, TLC

CONSTANTS w1, w2, c1, c2, e1, e2, e3, k1

MCLevel == (e1 :> 1) @@ (e2 :> 1) @@ (e3 :> 4)
\* A sink that prints errors only.
MCErrorSink == k1 :> 1
=============================================================================
