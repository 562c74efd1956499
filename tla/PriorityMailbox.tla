-------------------------- MODULE PriorityMailbox --------------------------
(***************************************************************************)
(* What an EVL mailbox promises its users, as docs/work/TIMS_REWRITE_PLAN  *)
(* section 5.3 and the slot helpers of evl_backend.hpp describe it: a      *)
(* bounded buffer of messages from which the highest priority leaves       *)
(* first, and in which a full buffer gives up its lowest priority to a     *)
(* message that is at least as urgent.  Nothing is said of the order of    *)
(* two messages of one priority.                                           *)
(***************************************************************************)
EXTENDS Integers, FiniteSets

CONSTANTS Msg, Rank, Capacity

VARIABLES pending, rejected, evicted, delivered

vars == <<pending, rejected, evicted, delivered>>

Fresh(m) == m \notin pending \cup rejected \cup evicted \cup delivered
Full == Cardinality(pending) = Capacity

Init == pending = {} /\ rejected = {} /\ evicted = {} /\ delivered = {}

Put(m) ==
  /\ Fresh(m)
  /\ Cardinality(pending) < Capacity
  /\ pending' = pending \cup {m}
  /\ UNCHANGED <<rejected, evicted, delivered>>

Displace(m, v) ==
  /\ Fresh(m)
  /\ Full
  /\ v \in pending /\ \A w \in pending : Rank[v] <= Rank[w]
  /\ Rank[v] <= Rank[m]
  /\ pending' = (pending \ {v}) \cup {m}
  /\ evicted' = evicted \cup {v}
  /\ UNCHANGED <<rejected, delivered>>

Refuse(m) ==
  /\ Fresh(m)
  /\ Full
  /\ \A w \in pending : Rank[m] < Rank[w]
  /\ rejected' = rejected \cup {m}
  /\ UNCHANGED <<pending, evicted, delivered>>

Take(m) ==
  /\ m \in pending /\ \A w \in pending : Rank[w] <= Rank[m]
  /\ pending' = pending \ {m}
  /\ delivered' = delivered \cup {m}
  /\ UNCHANGED <<rejected, evicted>>

Next == \E m \in Msg : Put(m) \/ Refuse(m) \/ Take(m) \/ \E v \in Msg : Displace(m, v)

Spec == Init /\ [][Next]_vars
=============================================================================
