---------------------------- MODULE MCEvlRouter ----------------------------
(***************************************************************************)
(* A client k1; a link e1 to another router, which has m1 and may have m2  *)
(* too; an upstream router u1.  The scenarios: a message in either         *)
(* direction between k1 and the EVL mailbox m2 while the link comes and    *)
(* goes, and both without the link; one from upstream for m2, and one that *)
(* is too long; one from the EVL mailbox m2 to another, m1.                *)
(***************************************************************************)
EXTENDS EvlRouter

CONSTANTS k1, e1, u1, x1, x2, m1, m2, d1, d2, d3, d4

MCRoute == [m \in Mailbox |-> IF u1 \in Uplink THEN u1 ELSE None]

\* d1 to the EVL mailbox m2, d2 from it to m1, d3 from upstream to m2, d4 from
\* k1 and too long
MCSrc == [d \in Data |-> CASE d = d2 -> m2 [] d = d3 -> u1 [] OTHER -> k1]
MCDest == [d \in Data |-> IF d \in {d1, d3} THEN m2 ELSE m1]

ValTraffic ==
  {[conns |-> {k1, e1}, regs |-> {<<k1, m2>>}, data |-> {d1}, evl |-> {m2}],
   [conns |-> {k1, e1}, regs |-> {<<k1, m2>>}, data |-> {d2}, evl |-> {m2}],
   [conns |-> {k1}, regs |-> {<<k1, m2>>}, data |-> {d1, d2}, evl |-> {m2}],
   [conns |-> {k1}, regs |-> {<<k1, m2>>}, data |-> {d3, d4}, evl |-> {m2}],
   [conns |-> {k1}, regs |-> {<<k1, m1>>, <<k1, m2>>}, data |-> {d2}, evl |-> {m1, m2}]}
MCTraffic == ValTraffic
MCOneMessage == {[conns |-> {k1}, regs |-> {<<k1, m2>>}, data |-> {d2}, evl |-> {m2}]}
=============================================================================
