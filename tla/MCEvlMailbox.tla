---------------------------- MODULE MCEvlMailbox ----------------------------
(***************************************************************************)
(* Process p1 has a Public mailbox a and Local mailboxes l1, l2 and l3, of *)
(* which l1 and l3 share an id and l2 the bucket; p2 and p3 have the       *)
(* Public mailboxes b and c, whose ids the Local ones have too; a sends to *)
(* both and b to c, each with room for one remote handle; n1 and n2 are    *)
(* Network mailboxes of one host.                                          *)
(***************************************************************************)
EXTENDS EvlMailbox, TLC

CONSTANTS a, b, c, l1, l2, l3, n1, n2, p1, p2, p3, h1, h2, g1, g2, g3, m1, m2, m3, m4, m5, m6, m7, m8

ValBox == {a, b, c, l1, l2, l3, n1, n2}
ValDeployment ==
  {[boxes |-> {a, b, c}, msgs |-> {m1, m2, m8}],
   [boxes |-> {a, b, l1}, msgs |-> {m1, m3, m6}],
   [boxes |-> {a, l1, l2, l3}, msgs |-> {m1, m2, m4}],
   [boxes |-> {n1, n2}, msgs |-> {m5, m7}]}
ValProc == {p1, p2, p3}
ValHost == {h1, h2}
ValSegment == {g1, g2, g3}
ValMsg == {m1, m2, m3, m4, m5, m6, m7, m8}
\* Ids of the Network mailboxes, which differ in the instance byte; the port of
\* the second one wraps around
Net1 == 2 * 2^24 + 1
Net2 == 2 * 2^24 + 31488 + 1
ValId == {1, 2, 3, Net1, Net2}
ValIdOf == a :> 1 @@ b :> 2 @@ l1 :> 2 @@ l3 :> 2 @@ c :> 3 @@ l2 :> 3 @@ n1 :> Net1 @@ n2 :> Net2
ValModeOf == a :> "Public" @@ b :> "Public" @@ c :> "Public" @@ l1 :> "Local" @@ l2 :> "Local"
              @@ l3 :> "Local" @@ n1 :> "Network" @@ n2 :> "Network"
ValProcOf == b :> p2 @@ c :> p3 @@ n2 :> p2 @@ a :> p1 @@ l1 :> p1 @@ l2 :> p1 @@ l3 :> p1 @@ n1 :> p1
ValHostOf == [x \in ValBox |-> IF x \in {n1, n2} THEN h2 ELSE h1]
ValRoutes == <<[system_id |-> 2, ip |-> None], [system_id |-> 1, ip |-> h1], [system_id |-> 2, ip |-> h2]>>
ValHash == [i \in ValId |-> 4]
ValSrc == m1 :> a @@ m2 :> a @@ m3 :> a @@ m4 :> l2 @@ m5 :> n1 @@ m6 :> None @@ m7 :> n1 @@ m8 :> b
ValDest == m1 :> 2 @@ m2 :> 3 @@ m3 :> 2 @@ m4 :> 2 @@ m5 :> Net2 @@ m6 :> 2 @@ m7 :> 1 @@ m8 :> 3
ValPrio == m1 :> 1 @@ m2 :> 0 @@ m3 :> 0 @@ m4 :> 0 @@ m5 :> 0 @@ m6 :> 0 @@ m7 :> 0 @@ m8 :> 0

\* TLC evaluates a definition once, but one that replaces a constant at each use:
\* the constants are replaced by names for the values above.
MCBox == ValBox
MCDeployment == ValDeployment
MCProc == ValProc
MCId == ValId
MCProcOf == ValProcOf
MCIdOf == ValIdOf
MCModeOf == ValModeOf
MCHash == ValHash
MCSegment == ValSegment
MCHost == ValHost
MCHostOf == ValHostOf
MCRoutes == ValRoutes
MCMsg == ValMsg
MCSrc == ValSrc
MCDest == ValDest
MCPrio == ValPrio
=============================================================================
