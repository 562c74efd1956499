---------------------------- MODULE MCTcpRouter ----------------------------
(***************************************************************************)
(* Two routers with one peer link, opened by router r1, a client at each   *)
(* and an uplink of r1.                                                    *)
(***************************************************************************)
EXTENDS TcpRouter

CONSTANTS r1, r2, k1, k2, e1, e2, u1, m1, m2, m3, d1, d2, d3

MCAt == [c \in Conn |-> IF c \in {k2, e2} THEN r2 ELSE r1]
MCId == [k \in Client |-> IF k = k1 THEN m1 ELSE m2]
MCFar == [e \in End |-> IF e = e1 THEN e2 ELSE e1]
MCRoute == [r \in Router |-> [m \in Mailbox |->
              IF r = r1 /\ u1 \in Uplink THEN u1 ELSE None]]

\* d1 from k1 to the other router, d2 from k2 to a mailbox nobody has,
\* d3 from upstream to k1
MCSrc == [d \in Data |-> CASE d = d1 -> k1 [] d = d2 -> k2 [] OTHER -> u1]
MCDest == [d \in Data |-> CASE d = d1 -> m2 [] d = d2 -> m3 [] OTHER -> m1]
=============================================================================
