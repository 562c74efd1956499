----------------------------- MODULE MCEvlRing -----------------------------
(* Two senders, s2 the more urgent one.                                    *)
EXTENDS EvlRing, TLC

CONSTANTS s1, s2, r1, r2, m1, m2, m3, m4

MCOrigin == (m1 :> s1) @@ (m2 :> s1) @@ (m3 :> s2) @@ (m4 :> s2)
MCSendPriority == (s1 :> 10) @@ (s2 :> 20)
MCOrigin3 == (m1 :> s1) @@ (m2 :> s1) @@ (m3 :> s2)
MCSize3 == (m1 :> 1) @@ (m2 :> 2) @@ (m3 :> 1)
MCSize == (m1 :> 1) @@ (m2 :> 2) @@ (m3 :> 1) @@ (m4 :> 2)
MCBufSize == [r \in Receiver |-> 2]
MCSmallBuf == (r1 :> 1) @@ (r2 :> 2)
=============================================================================
