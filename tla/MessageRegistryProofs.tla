----------------------- MODULE MessageRegistryProofs -----------------------
(***************************************************************************)
(* What AutoAssignIDs, ExpandReplies, FilterTuple and the lookups compute, *)
(* for registries of any length.  The definitions recurse over the         *)
(* registry; the proofs go by induction over its prefixes, as the least    *)
(* number that is not in a set.                                            *)
(***************************************************************************)
EXTENDS MessageRegistry, WellFoundedInduction, TLAPS

-----------------------------------------------------------------------------
(* Induction, recursion and the largest of finitely many numbers.          *)

LEMMA UpTo ==
  ASSUME NEW N \in Nat, NEW S, 0 \in S, \A n \in 1 .. N : n - 1 \in S => n \in S
  PROVE \A n \in 0 .. N : n \in S
  <1> SUFFICES ASSUME \E n \in 0 .. N : n \notin S PROVE FALSE
    BY Zenon
  <1>1. PICK U : U = {n \in 0 .. N : n \notin S}
    BY Zenon
  <1>2. U \subseteq Nat /\ U # {}
    BY <1>1
  <1>3. PICK n \in U : \A j \in U : ~ (<<j, n>> \in OpToRel(<, Nat))
    BY Zenon, <1>2, NatLessThanWellFounded, WFMin
  <1>4. n \in 0 .. N /\ n \notin S /\ n # 0
    BY Zenon, <1>1
  <1>5. n \in 1 .. N /\ n - 1 \in 0 .. N /\ n - 1 < n /\ n - 1 \in Nat /\ n \in Nat
    BY <1>4
  <1>6. n - 1 \in U
    BY Zenon, <1>1, <1>4, <1>5
  <1>7. <<n - 1, n>> \in OpToRel(<, Nat)
    BY Zenon, <1>5 DEF OpToRel
  <1> QED BY Zenon, <1>3, <1>6, <1>7

\* A function on 0 .. N is determined by its first value and each next one.
Steps(step, N, V) == \A n \in 1 .. N : step[n] \in [V -> V]
Unfolds(g, base, step, N) == g[0] = base /\ \A n \in 1 .. N : g[n] = step[n][g[n - 1]]
LEMMA Recursion ==
  ASSUME NEW N \in Nat, NEW V, NEW base \in V, NEW step, Steps(step, N, V)
  PROVE \E g \in [0 .. N -> V] : Unfolds(g, base, step, N)
  <1>1. PICK S : S = {m \in 0 .. N : \E g \in [0 .. m -> V] : Unfolds(g, base, step, m)}
    BY Zenon
  <1>2. 0 \in S
    <2>1. PICK g : g = [n \in 0 .. 0 |-> base]
      BY Zenon
    <2>2. g \in [0 .. 0 -> V] /\ g[0] = base /\ \A n \in 1 .. 0 : g[n] = step[n][g[n - 1]]
      BY <2>1
    <2>3. 0 \in 0 .. N
      OBVIOUS
    <2> QED BY Zenon, <1>1, <2>2, <2>3 DEF Unfolds
  <1>3. ASSUME NEW m \in 1 .. N, m - 1 \in S PROVE m \in S
    <2>1. PICK g \in [0 .. m - 1 -> V] : g[0] = base /\ \A n \in 1 .. m - 1 : g[n] = step[n][g[n - 1]]
      BY Zenon, <1>1, <1>3 DEF Unfolds
    <2>2. PICK h : h = [n \in 0 .. m |-> IF n = m THEN step[m][g[m - 1]] ELSE g[n]]
      BY Zenon
    <2>3. g[m - 1] \in V
      BY <2>1
    <2>4. step[m][g[m - 1]] \in V
      BY Zenon, <2>3 DEF Steps
    <2>5. h \in [0 .. m -> V]
      <3>1. \A n \in 0 .. m : n # m => n \in 0 .. m - 1
        OBVIOUS
      <3> QED BY Zenon, <2>1, <2>2, <2>4, <3>1
    <2>6. \A n \in 0 .. m - 1 : h[n] = g[n]
      BY <2>2
    <2>7. h[m] = step[m][g[m - 1]]
      BY <2>2
    <2>8. h[0] = base
      BY <2>1, <2>6
    <2>9. ASSUME NEW n \in 1 .. m PROVE h[n] = step[n][h[n - 1]]
      <3>1. CASE n = m
        <4>1. h[m - 1] = g[m - 1]
          BY <2>6
        <4> QED BY Zenon, <2>7, <3>1, <4>1
      <3>2. CASE n # m
        <4>1. n \in 1 .. m - 1 /\ n \in 0 .. m - 1 /\ n - 1 \in 0 .. m - 1
          BY <3>2
        <4> QED BY Zenon, <2>1, <2>6, <4>1
      <3> QED BY Zenon, <3>1, <3>2
    <2>10. m \in 0 .. N
      OBVIOUS
    <2> QED BY Zenon, <1>1, <2>5, <2>8, <2>9, <2>10 DEF Unfolds
  <1>4. N \in S
    <2>1. \A n \in 0 .. N : n \in S
      BY Zenon, <1>2, <1>3, UpTo
    <2> QED BY <2>1
  <1> QED BY Zenon, <1>1, <1>4

LEMMA Bounded ==
  ASSUME NEW N \in Nat, NEW f, \A k \in 1 .. N : f[k] \in Nat
  PROVE \E top \in Nat : \A k \in 1 .. N : f[k] <= top
  <1>1. PICK S : S = {n \in 0 .. N : \E top \in Nat : \A k \in 1 .. n : f[k] <= top}
    BY Zenon
  <1>2. 0 \in S
    BY <1>1
  <1>3. ASSUME NEW n \in 1 .. N, n - 1 \in S PROVE n \in S
    <2>1. PICK top \in Nat : \A k \in 1 .. n - 1 : f[k] <= top
      BY Zenon, <1>1, <1>3
    <2>2. f[n] \in Nat
      BY Zenon
    <2>3. PICK t : t = top + f[n]
      BY Zenon
    <2>4. t \in Nat /\ top <= t /\ f[n] <= t
      BY <2>2, <2>3
    <2>5. \A k \in 1 .. n : f[k] <= t
      BY <2>1, <2>2, <2>4
    <2>6. n \in 0 .. N
      OBVIOUS
    <2> QED BY Zenon, <1>1, <2>4, <2>5, <2>6
  <1>4. \A n \in 0 .. N : n \in S
    BY Zenon, <1>2, <1>3, UpTo
  <1>5. N \in S
    BY <1>4
  <1> QED BY Zenon, <1>1, <1>5

LEMMA MaxBounds ==
  ASSUME NEW S \in SUBSET Nat, NEW top \in Nat, \A n \in S : n <= top, NEW x \in S
  PROVE Max(S) \in S /\ x <= Max(S)
  <1>1. PICK U : U = {n \in Nat : \A y \in S : y <= n}
    BY Zenon
  <1>2. U \subseteq Nat /\ top \in U
    BY <1>1
  <1>3. PICK n \in U : \A j \in U : ~ (<<j, n>> \in OpToRel(<, Nat))
    BY Zenon, <1>2, NatLessThanWellFounded, WFMin
  <1>4. n \in Nat /\ \A y \in S : y <= n
    BY <1>1
  <1>5. n \in S
    <2> SUFFICES ASSUME n \notin S PROVE FALSE
      BY Zenon
    <2>1. \A y \in S : y \in Nat /\ y < n
      BY <1>4
    <2>2. n - 1 \in Nat /\ n - 1 < n
      BY <1>4, <2>1
    <2>3. n - 1 \in U
      BY <1>1, <1>4, <2>1, <2>2
    <2>4. <<n - 1, n>> \in OpToRel(<, Nat)
      BY Zenon, <1>4, <2>2 DEF OpToRel
    <2> QED BY Zenon, <1>3, <2>3, <2>4
  <1>6. \A y \in S : n >= y
    BY <1>4
  <1>7. Max(S) \in S /\ \A y \in S : Max(S) >= y
    BY Zenon, <1>5, <1>6 DEF Max
  <1> QED BY <1>7

-----------------------------------------------------------------------------
(* AutoAssignIDs, for definitions with payload types P.                    *)

Def(P) == [payload : P, prefix : 0 .. 2^8 - 1, subprefix : 0 .. 2^8 - 1, local_id : Nat, reply : P \cup {None}]

LEMMA Elements ==
  ASSUME NEW R, NEW s \in Seq(R), NEW x
  PROVE x \in ToSet(s) <=> \E k \in 1 .. Len(s) : x = s[k]
  BY DEF ToSet

LEMMA Highest ==
  ASSUME NEW P, NEW done \in Seq(Def(P)), NEW d
  PROVE /\ HighestID(done, d) \in Nat
        /\ \A k \in 1 .. Len(done) :
             SameGroup(done[k], d) /\ ~is_reply(done[k]) => done[k].local_id <= HighestID(done, d)
        /\ HighestID(done, d) = 0 \/ \E k \in 1 .. Len(done) : HighestID(done, d) = done[k].local_id
  <1>1. PICK f : f = [k \in 1 .. Len(done) |-> done[k].local_id]
    BY Zenon
  <1>2. PICK S : S = {0} \cup {e.local_id : e \in {x \in ToSet(done) : SameGroup(x, d) /\ ~is_reply(x)}}
    BY Zenon
  <1>3. Len(done) \in Nat /\ \A k \in 1 .. Len(done) : f[k] = done[k].local_id /\ f[k] \in Nat
    <2>1. Len(done) \in Nat /\ \A k \in 1 .. Len(done) : done[k] \in Def(P)
      OBVIOUS
    <2>2. \A e \in Def(P) : e.local_id \in Nat
      BY Zenon DEF Def
    <2> QED BY Zenon, <1>1, <2>1, <2>2
  <1>4. PICK top \in Nat : \A k \in 1 .. Len(done) : f[k] <= top
    BY Zenon, <1>3, Bounded
  <1>5. \A n \in S : n = 0 \/ \E k \in 1 .. Len(done) : n = done[k].local_id
    <2>1. \A x \in ToSet(done) : \E k \in 1 .. Len(done) : x = done[k]
      BY Zenon, Elements
    <2> QED BY Zenon, <1>2, <2>1
  <1>6. S \in SUBSET Nat /\ 0 \in S /\ \A n \in S : n <= top
    <2>1. 0 \in S
      BY Zenon, <1>2
    <2>2. ASSUME NEW n \in S PROVE n \in Nat /\ n <= top
      BY <1>3, <1>4, <1>5
    <2> QED BY Zenon, <2>1, <2>2
  <1>7. HighestID(done, d) = Max(S)
    BY Zenon, <1>2 DEF HighestID
  <1>8. Max(S) \in S /\ \A n \in S : n <= Max(S)
    BY Zenon, <1>6, MaxBounds
  <1>9. \A k \in 1 .. Len(done) : SameGroup(done[k], d) /\ ~is_reply(done[k]) => done[k].local_id \in S
    BY Zenon, <1>2, Elements
  <1> QED BY Zenon, <1>5, <1>6, <1>7, <1>8, <1>9

LEMMA Processed ==
  ASSUME NEW P, NEW done \in Seq(Def(P)), NEW d \in Def(P)
  PROVE /\ CurrentProcessed(done, d) \in Def(P)
        /\ Append(done, CurrentProcessed(done, d)) \in Seq(Def(P))
        /\ CurrentProcessed(done, d) = [d EXCEPT !.local_id = IF needs_auto_id(d) THEN HighestID(done, d) + 1 ELSE d.local_id]
  <1>1. PICK h \in Nat : h = HighestID(done, d)
    BY Zenon, Highest
  <1>2. CurrentProcessed(done, d) = IF needs_auto_id(d) THEN [d EXCEPT !.local_id = h + 1] ELSE d
    BY Zenon, <1>1 DEF CurrentProcessed
  <1>3. CurrentProcessed(done, d) \in Def(P)
    <2>1. h + 1 \in Nat
      OBVIOUS
    <2>2. [d EXCEPT !.local_id = h + 1] \in Def(P)
      BY Zenon, <2>1 DEF Def
    <2> QED BY Zenon, <1>2, <2>2
  <1>4. Append(done, CurrentProcessed(done, d)) \in Seq(Def(P))
    BY <1>3
  <1>5. CurrentProcessed(done, d) = [d EXCEPT !.local_id = IF needs_auto_id(d) THEN h + 1 ELSE d.local_id]
    BY <1>2 DEF Def
  <1> QED BY Zenon, <1>1, <1>3, <1>4, <1>5

\* The prefixes of the result: each definition is processed after those before it.
Assigns(g, defs) ==
  /\ AutoAssignIDs(defs) = g[Len(defs)]
  /\ \A n \in 0 .. Len(defs) : Len(g[n]) = n
  /\ \A n \in 0 .. Len(defs) : \A j \in 1 .. n : g[n][j] = CurrentProcessed(g[j - 1], defs[j])
LEMMA Assigning ==
  ASSUME NEW P, NEW defs \in Seq(Def(P))
  PROVE \E g \in [0 .. Len(defs) -> Seq(Def(P))] : Assigns(g, defs)
  <1>1. PICK N \in Nat : N = Len(defs) /\ \A n \in 1 .. N : defs[n] \in Def(P)
    <2>1. Len(defs) \in Nat /\ \A n \in 1 .. Len(defs) : defs[n] \in Def(P)
      OBVIOUS
    <2> QED BY Zenon, <2>1
  <1>2. PICK step : step = [n \in 1 .. N |-> [v \in Seq(Def(P)) |-> Append(v, CurrentProcessed(v, defs[n]))]]
    BY Zenon
  <1>3. \A n \in 1 .. N : step[n] \in [Seq(Def(P)) -> Seq(Def(P))]
    BY Zenon, <1>1, <1>2, Processed
  <1>4. PICK base \in Seq(Def(P)) : base = <<>>
    <2>1. <<>> \in Seq(Def(P))
      OBVIOUS
    <2> QED BY Zenon, <2>1
  <1>5. PICK g \in [0 .. N -> Seq(Def(P))] : g[0] = <<>> /\ \A n \in 1 .. N : g[n] = step[n][g[n - 1]]
    <2>1. Steps(step, N, Seq(Def(P)))
      BY Zenon, <1>3 DEF Steps
    <2>2. \E g \in [0 .. N -> Seq(Def(P))] : Unfolds(g, base, step, N)
      BY Zenon, <2>1, Recursion
    <2> QED BY Zenon, <1>4, <2>2 DEF Unfolds
  <1>6. \A n \in 1 .. N : n - 1 \in 0 .. N /\ n \in 0 .. N /\ n # 0
    OBVIOUS
  <1>7. \A n \in 1 .. N : g[n - 1] \in Seq(Def(P)) /\ g[n] = Append(g[n - 1], CurrentProcessed(g[n - 1], defs[n]))
    BY Zenon, <1>2, <1>5, <1>6
  <1>8. PICK S : S = {n \in 0 .. N : Len(g[n]) = n /\ \A j \in 1 .. n : g[n][j] = CurrentProcessed(g[j - 1], defs[j])}
    BY Zenon
  <1>9. \A n \in 0 .. N : n \in S
    <2>1. 0 \in S
      BY <1>5, <1>8
    <2>2. ASSUME NEW n \in 1 .. N, n - 1 \in S PROVE n \in S
      <3>1. PICK u \in Seq(Def(P)) : u = g[n - 1]
        BY Zenon, <1>7
      <3>2. Len(u) = n - 1 /\ \A j \in 1 .. n - 1 : u[j] = CurrentProcessed(g[j - 1], defs[j])
        BY Zenon, <1>8, <2>2, <3>1
      <3>3. PICK c \in Def(P) : c = CurrentProcessed(u, defs[n])
        BY Zenon, <1>1, Processed
      <3>4. g[n] = Append(u, c)
        BY Zenon, <1>7, <3>1, <3>3
      <3>5. Len(g[n]) = n /\ g[n][n] = c /\ \A j \in 1 .. n - 1 : g[n][j] = u[j]
        BY <3>2, <3>4
      <3>6. ASSUME NEW j \in 1 .. n PROVE g[n][j] = CurrentProcessed(g[j - 1], defs[j])
        <4>1. CASE j = n
          BY Zenon, <3>1, <3>3, <3>5, <4>1
        <4>2. CASE j # n
          <5>1. j \in 1 .. n - 1
            BY <4>2
          <5> QED BY Zenon, <3>2, <3>5, <5>1
        <4> QED BY Zenon, <4>1, <4>2
      <3> QED BY Zenon, <1>6, <1>8, <3>5, <3>6
    <2> QED BY Zenon, <2>1, <2>2, UpTo
  <1>10. PICK done : done = CHOOSE h : h = [n \in 0 .. Len(defs) |->
                       IF n = 0 THEN <<>> ELSE Append(h[n - 1], CurrentProcessed(h[n - 1], defs[n]))]
    BY Zenon
  <1>11. AutoAssignIDs(defs) = done[N]
    BY Zenon, <1>1, <1>10 DEF AutoAssignIDs
  <1>12. g = [n \in 0 .. N |-> IF n = 0 THEN <<>> ELSE Append(g[n - 1], CurrentProcessed(g[n - 1], defs[n]))]
    <2>1. \A n \in 0 .. N : n # 0 => n \in 1 .. N
      OBVIOUS
    <2>2. \A n \in 0 .. N : g[n] = IF n = 0 THEN <<>> ELSE Append(g[n - 1], CurrentProcessed(g[n - 1], defs[n]))
      BY Zenon, <1>5, <1>7, <2>1
    <2> QED BY Zenon, <2>2
  <1>13. done = [n \in 0 .. N |-> IF n = 0 THEN <<>> ELSE Append(done[n - 1], CurrentProcessed(done[n - 1], defs[n]))]
    BY Zenon, <1>1, <1>10, <1>12
  <1>14. PICK E : E = {n \in 0 .. N : done[n] = g[n]}
    BY Zenon
  <1>15. \A n \in 0 .. N : n \in E
    <2>1. 0 \in 0 .. N
      OBVIOUS
    <2>2. done[0] = <<>>
      BY Zenon, <1>13, <2>1
    <2>3. 0 \in E
      BY Zenon, <1>5, <1>14, <2>1, <2>2
    <2>4. ASSUME NEW n \in 1 .. N, n - 1 \in E PROVE n \in E
      <3>1. done[n] = Append(done[n - 1], CurrentProcessed(done[n - 1], defs[n]))
        BY Zenon, <1>6, <1>13
      <3>2. done[n - 1] = g[n - 1]
        BY Zenon, <1>14, <2>4
      <3> QED BY Zenon, <1>6, <1>7, <1>14, <3>1, <3>2
    <2> QED BY Zenon, <2>3, <2>4, UpTo
  <1>16. done[N] = g[N]
    <2>1. N \in 0 .. N
      OBVIOUS
    <2> QED BY Zenon, <1>14, <1>15, <2>1
  <1> QED BY Zenon, <1>1, <1>5, <1>8, <1>9, <1>11, <1>16 DEF Assigns

\* The ids of an orderly registry are positive and within bounds, and differ
\* within a group.
LEMMA AssignedIds ==
  ASSUME NEW P, NEW defs \in Seq(Def(P)), Orderly(defs)
  PROVE \E a \in Seq(Def(P)) :
          /\ a = AutoAssignIDs(defs) /\ Len(a) = Len(defs)
          /\ \A k \in 1 .. Len(defs) : a[k].local_id \in 1 .. MAX_MESSAGE_ID /\ a[k] = [defs[k] EXCEPT !.local_id = a[k].local_id]
          /\ \A j, k \in 1 .. Len(defs) : SameGroup(a[j], a[k]) /\ a[j].local_id = a[k].local_id => j = k
  <1>1. PICK N \in Nat : N = Len(defs) /\ DOMAIN defs = 1 .. N /\ \A n \in 1 .. N : defs[n] \in Def(P)
    <2>1. Len(defs) \in Nat /\ DOMAIN defs = 1 .. Len(defs) /\ \A n \in 1 .. Len(defs) : defs[n] \in Def(P)
      OBVIOUS
    <2> QED BY Zenon, <2>1
  <1>2. PICK g \in [0 .. N -> Seq(Def(P))] :
          /\ AutoAssignIDs(defs) = g[N]
          /\ \A n \in 0 .. N : Len(g[n]) = n
          /\ \A n \in 0 .. N : \A j \in 1 .. n : g[n][j] = CurrentProcessed(g[j - 1], defs[j])
    <2>1. \E g \in [0 .. Len(defs) -> Seq(Def(P))] : Assigns(g, defs)
      BY Zenon, Assigning
    <2> QED BY Zenon, <1>1, <2>1 DEF Assigns
  <1>3. PICK a \in Seq(Def(P)) : a = g[N]
    <2>1. N \in 0 .. N
      OBVIOUS
    <2> QED BY Zenon, <1>2, <2>1
  <1>4. \A n \in 1 .. N : n - 1 \in 0 .. N /\ n \in 0 .. N /\ n \in Nat
    OBVIOUS
  <1>5. \A n \in 0 .. N : \A j \in 1 .. n : g[n][j] = a[j]
    <2>1. N \in 0 .. N /\ \A n \in 0 .. N : \A j \in 1 .. n : j \in 1 .. N
      OBVIOUS
    <2> QED BY Zenon, <1>2, <1>3, <2>1
  <1>6. \A n \in 1 .. N : /\ g[n - 1] \in Seq(Def(P))
                          /\ a[n] = CurrentProcessed(g[n - 1], defs[n])
    <2>1. N \in 0 .. N
      OBVIOUS
    <2> QED BY Zenon, <1>2, <1>3, <1>4, <2>1
  <1>7. \A n \in 1 .. N : /\ a[n] \in Def(P) /\ a[n] = [defs[n] EXCEPT !.local_id = a[n].local_id]
                          /\ a[n].local_id = IF needs_auto_id(defs[n]) THEN HighestID(g[n - 1], defs[n]) + 1
                                             ELSE defs[n].local_id
    <2> SUFFICES ASSUME NEW n \in 1 .. N
                 PROVE /\ a[n] \in Def(P) /\ a[n] = [defs[n] EXCEPT !.local_id = a[n].local_id]
                       /\ a[n].local_id = IF needs_auto_id(defs[n]) THEN HighestID(g[n - 1], defs[n]) + 1
                                          ELSE defs[n].local_id
      BY Zenon
    <2>1. PICK i : i = IF needs_auto_id(defs[n]) THEN HighestID(g[n - 1], defs[n]) + 1 ELSE defs[n].local_id
      BY Zenon
    <2>2. a[n] \in Def(P) /\ a[n] = [defs[n] EXCEPT !.local_id = i] /\ defs[n] \in Def(P)
      <3>1. PICK u \in Seq(Def(P)) : u = g[n - 1] /\ a[n] = CurrentProcessed(u, defs[n])
        BY Zenon, <1>6
      <3>2. PICK d \in Def(P) : d = defs[n]
        BY Zenon, <1>1
      <3>3. a[n] = CurrentProcessed(u, d) /\ i = IF needs_auto_id(d) THEN HighestID(u, d) + 1 ELSE d.local_id
        BY Zenon, <2>1, <3>1, <3>2
      <3>4. /\ CurrentProcessed(u, d) \in Def(P)
            /\ CurrentProcessed(u, d) = [d EXCEPT !.local_id = IF needs_auto_id(d) THEN HighestID(u, d) + 1 ELSE d.local_id]
        BY Zenon, Processed
      <3> QED BY Zenon, <3>2, <3>3, <3>4
    <2>3. a[n].local_id = i
      BY Zenon, <2>2 DEF Def
    <2> QED BY Zenon, <2>1, <2>2, <2>3
  <1>8. PICK S : S = {n \in 0 .. N : \A j \in 1 .. n : a[j].local_id \in 1 .. MAX_MESSAGE_ID - N + j}
    BY Zenon
  <1>9. \A n \in 0 .. N : n \in S
    <2>1. 0 \in S
      BY <1>8
    <2>2. ASSUME NEW n \in 1 .. N, n - 1 \in S PROVE n \in S
      <3>1. \A j \in 1 .. n - 1 : a[j].local_id \in 1 .. MAX_MESSAGE_ID - N + j
        BY Zenon, <1>8, <2>2
      <3>2. defs[n].local_id \in Nat /\ defs[n].local_id + N <= MAX_MESSAGE_ID
        <4>1. defs[n].local_id \in Nat
          BY Zenon, <1>1 DEF Def
        <4> QED BY Zenon, <1>1, <4>1 DEF Orderly
      <3>3. a[n].local_id \in 1 .. MAX_MESSAGE_ID - N + n
        <4>1. CASE ~needs_auto_id(defs[n])
          <5>1. a[n].local_id = defs[n].local_id /\ defs[n].local_id # 0
            BY Zenon, <1>7, <4>1 DEF needs_auto_id
          <5>2. PICK x \in Nat : x = a[n].local_id /\ x # 0 /\ x + N <= MAX_MESSAGE_ID
            BY Zenon, <3>2, <5>1
          <5>3. x \in 1 .. MAX_MESSAGE_ID - N + n
            <6>0. MAX_MESSAGE_ID \in Int
              BY ONLY TRUE DEF MAX_MESSAGE_ID
            <6>1. PICK M \in Int : M = MAX_MESSAGE_ID
              BY Zenon, <6>0
            <6>2. x # 0 /\ x + N <= M
              BY Zenon, <5>2, <6>1
            <6>3. x \in 1 .. M - N + n
              BY ONLY x \in Nat, N \in Nat, n \in 1 .. N, M \in Int, <6>2
            <6> QED BY Zenon, <6>1, <6>3
          <5> QED BY Zenon, <5>2, <5>3
        <4>2. CASE needs_auto_id(defs[n])
          <5>1. PICK h \in Nat : h = HighestID(g[n - 1], defs[n])
            BY Zenon, <1>6, Highest
          <5>2. a[n].local_id = h + 1
            BY Zenon, <1>7, <4>2, <5>1
          <5>3. h = 0 \/ \E k \in 1 .. n - 1 : h = a[k].local_id
            <6>1. PICK u \in Seq(Def(P)) : u = g[n - 1]
              BY Zenon, <1>6
            <6>2. Len(u) = n - 1 /\ \A k \in 1 .. n - 1 : u[k] = a[k]
              BY Zenon, <1>2, <1>4, <1>5, <6>1
            <6>3. h = 0 \/ \E k \in 1 .. Len(u) : h = u[k].local_id
              BY Zenon, <5>1, <6>1, Highest
            <6> QED BY Zenon, <6>2, <6>3
          <5>4. PICK y \in Nat : y + N <= MAX_MESSAGE_ID
            BY Zenon, <3>2
          <5>5. h <= MAX_MESSAGE_ID - N + n - 1
            <6>1. CASE h = 0
              BY <5>4, <6>1 DEF MAX_MESSAGE_ID
            <6>2. ASSUME NEW k \in 1 .. n - 1, h \in 1 .. MAX_MESSAGE_ID - N + k PROVE h <= MAX_MESSAGE_ID - N + n - 1
              BY <6>2 DEF MAX_MESSAGE_ID
            <6> QED BY Zenon, <3>1, <5>3, <6>1, <6>2
          <5>6. h + 1 \in 1 .. MAX_MESSAGE_ID - N + n
            BY <5>5 DEF MAX_MESSAGE_ID
          <5> QED BY Zenon, <5>2, <5>6
        <4> QED BY Zenon, <4>1, <4>2
      <3>4. \A j \in 1 .. n : a[j].local_id \in 1 .. MAX_MESSAGE_ID - N + j
        <4>1. \A j \in 1 .. n : j = n \/ j \in 1 .. n - 1
          OBVIOUS
        <4> QED BY Zenon, <3>1, <3>3, <4>1
      <3> QED BY Zenon, <1>4, <1>8, <3>4
    <2> QED BY Zenon, <2>1, <2>2, UpTo
  <1>10. ASSUME NEW k \in 1 .. N PROVE a[k].local_id \in 1 .. MAX_MESSAGE_ID
    <2>1. N \in 0 .. N
      OBVIOUS
    <2>2. a[k].local_id \in 1 .. MAX_MESSAGE_ID - N + k
      BY Zenon, <1>8, <1>9, <2>1
    <2> QED BY <2>2 DEF MAX_MESSAGE_ID
  <1>11. ASSUME NEW j \in 1 .. N, NEW k \in 1 .. N, j < k, SameGroup(a[j], a[k]) PROVE a[j].local_id # a[k].local_id
    <2>1. /\ a[j].prefix = defs[j].prefix /\ a[j].subprefix = defs[j].subprefix
          /\ a[k].prefix = defs[k].prefix /\ a[k].subprefix = defs[k].subprefix
      <3>1. \A d \in Def(P) : \A i : [d EXCEPT !.local_id = i].prefix = d.prefix /\ [d EXCEPT !.local_id = i].subprefix = d.subprefix
        BY Zenon DEF Def
      <3>2. \A n \in 1 .. N : a[n].prefix = defs[n].prefix /\ a[n].subprefix = defs[n].subprefix
        <4> SUFFICES ASSUME NEW n \in 1 .. N PROVE a[n].prefix = defs[n].prefix /\ a[n].subprefix = defs[n].subprefix
          BY Zenon
        <4>1. PICK d \in Def(P) : d = defs[n]
          BY Zenon, <1>1
        <4>2. PICK i : a[n] = [d EXCEPT !.local_id = i]
          BY Zenon, <1>7, <4>1
        <4>3. [d EXCEPT !.local_id = i].prefix = d.prefix /\ [d EXCEPT !.local_id = i].subprefix = d.subprefix
          BY Zenon, <3>1
        <4> QED BY Zenon, <4>1, <4>2, <4>3
      <3> QED BY Zenon, <3>2
    <2>2. CASE ~needs_auto_id(defs[k])
      <3>1. SameGroup(defs[j], defs[k])
        BY Zenon, <1>11, <2>1 DEF SameGroup
      <3>2. ~needs_auto_id(defs[j]) /\ defs[j].local_id # defs[k].local_id
        BY Zenon, <1>1, <1>11, <2>2, <3>1 DEF Orderly
      <3> QED BY Zenon, <1>7, <2>2, <3>2
    <2>3. CASE needs_auto_id(defs[k])
      <3>1. j \in 1 .. k - 1 /\ k - 1 \in 0 .. N
        BY <1>11
      <3>2. g[k - 1][j] = a[j] /\ Len(g[k - 1]) = k - 1
        BY Zenon, <1>2, <1>5, <3>1
      <3>3. SameGroup(a[j], defs[k])
        BY Zenon, <1>11, <2>1 DEF SameGroup
      <3>4. ~is_reply(a[j])
        <4>1. PICK x \in 1 .. MAX_MESSAGE_ID : x = a[j].local_id
          BY Zenon, <1>10
        <4>2. ~(x > MAX_MESSAGE_ID)
          BY DEF MAX_MESSAGE_ID
        <4> QED BY Zenon, <4>1, <4>2 DEF is_reply
      <3>5. PICK h \in Nat : h = HighestID(g[k - 1], defs[k])
        BY Zenon, <1>6, Highest
      <3>6. a[j].local_id <= h
        BY Zenon, <1>6, <3>1, <3>2, <3>3, <3>4, <3>5, Highest
      <3>7. a[k].local_id = h + 1
        BY Zenon, <1>7, <2>3, <3>5
      <3> QED BY <1>10, <3>6, <3>7
    <2> QED BY Zenon, <2>2, <2>3
  <1>12. ASSUME NEW j \in 1 .. N, NEW k \in 1 .. N, SameGroup(a[j], a[k]), a[j].local_id = a[k].local_id PROVE j = k
    <2>1. SameGroup(a[k], a[j])
      BY Zenon, <1>12 DEF SameGroup
    <2>2. ~(j < k) /\ ~(k < j)
      BY Zenon, <1>11, <1>12, <2>1
    <2> QED BY <2>2
  <1>13. Len(a) = N
    <2>1. N \in 0 .. N
      OBVIOUS
    <2> QED BY Zenon, <1>2, <1>3, <2>1
  <1> QED BY Zenon, <1>1, <1>2, <1>3, <1>7, <1>10, <1>12, <1>13

-----------------------------------------------------------------------------
(* ExpandReplies                                                           *)

\* What a definition contributes to the registry
Parts(d) == IF has_reply(d) THEN <<d, ReplyMessageDef(d)>> ELSE <<d>>
From(x, d) == x = d \/ (has_reply(d) /\ x = ReplyMessageDef(d))

LEMMA ReplyOf ==
  ASSUME NEW P, NEW d \in Def(P), has_reply(d)
  PROVE \E r \in Def(P) :
          /\ r = ReplyMessageDef(d)
          /\ r.payload = d.reply /\ r.prefix = d.prefix /\ r.subprefix = d.subprefix
          /\ r.local_id = (2^16 - d.local_id) % 2^16 /\ r.reply = None
  <1>1. d.local_id \in Nat /\ d.reply \in P
    BY Zenon DEF Def, has_reply
  <1>2. PICK i \in Nat : i = (2^16 - d.local_id) % 2^16
    <2>1. PICK n \in Nat : n = d.local_id
      BY Zenon, <1>1
    <2>2. (2^16 - n) % 2^16 \in Nat
      OBVIOUS
    <2> QED BY Zenon, <2>1, <2>2
  <1>3. PICK p \in P : p = d.reply
    BY Zenon, <1>1
  <1>4. PICK x \in 0 .. 2^8 - 1, y \in 0 .. 2^8 - 1 : x = d.prefix /\ y = d.subprefix
    BY Zenon DEF Def
  <1>5. PICK q \in P, l \in Nat, o \in P \cup {None} : q = d.payload /\ l = d.local_id /\ o = d.reply
    BY Zenon DEF Def
  <1>6. d = [payload |-> q, prefix |-> x, subprefix |-> y, local_id |-> l, reply |-> o]
    BY Zenon, <1>4, <1>5 DEF Def
  <1>7. PICK e : e = [d EXCEPT !.payload = p]
    BY Zenon
  <1>8. e = [payload |-> p, prefix |-> x, subprefix |-> y, local_id |-> l, reply |-> o]
    BY <1>6, <1>7
  <1>9. PICK g : g = [e EXCEPT !.local_id = i]
    BY Zenon
  <1>10. g = [payload |-> p, prefix |-> x, subprefix |-> y, local_id |-> i, reply |-> o]
    BY <1>8, <1>9
  <1>11. PICK r : r = [payload |-> p, prefix |-> x, subprefix |-> y, local_id |-> i, reply |-> None]
    BY Zenon
  <1>12. [g EXCEPT !.reply = None] = r
    BY <1>10, <1>11
  <1>13. ReplyMessageDef(d) = [d EXCEPT !.payload = p, !.local_id = i, !.reply = None]
    BY Zenon, <1>2, <1>3 DEF ReplyMessageDef
  <1>14. ReplyMessageDef(d) = r
    BY Zenon, <1>7, <1>9, <1>12, <1>13
  <1>15. r \in Def(P)
    BY Zenon, <1>11 DEF Def
  <1>16. r.payload = p /\ r.prefix = x /\ r.subprefix = y /\ r.local_id = i /\ r.reply = None
    BY Zenon, <1>11
  <1> QED BY Zenon, <1>2, <1>3, <1>4, <1>14, <1>15, <1>16

LEMMA PartsOf ==
  ASSUME NEW P, NEW d \in Def(P)
  PROVE /\ Parts(d) \in Seq(Def(P))
        /\ \A x : x \in ToSet(Parts(d)) <=> From(x, d)
  <1>2. CASE has_reply(d)
    <2>1. PICK r \in Def(P) : r = ReplyMessageDef(d)
      BY Zenon, <1>2, ReplyOf
    <2>2. Parts(d) = <<d, r>>
      BY Zenon, <1>2, <2>1 DEF Parts
    <2>3. <<d, r>> \in Seq(Def(P)) /\ \A x : x \in ToSet(<<d, r>>) <=> x = d \/ x = r
      BY DEF ToSet
    <2> QED BY Zenon, <1>2, <2>1, <2>2, <2>3 DEF From
  <1>3. CASE ~has_reply(d)
    <2>1. Parts(d) = <<d>>
      BY Zenon, <1>3 DEF Parts
    <2>2. <<d>> \in Seq(Def(P)) /\ \A x : x \in ToSet(<<d>>) <=> x = d
      BY DEF ToSet
    <2> QED BY Zenon, <1>3, <2>1, <2>2 DEF From
  <1> QED BY Zenon, <1>2, <1>3

LEMMA Joined ==
  ASSUME NEW R, NEW s \in Seq(R), NEW t \in Seq(R), NEW x
  PROVE x \in ToSet(s \o t) <=> x \in ToSet(s) \/ x \in ToSet(t)
  <1>1. PICK u \in Seq(R) : u = s \o t
    <2>1. s \o t \in Seq(R)
      OBVIOUS
    <2> QED BY Zenon, <2>1
  <1>2. /\ Len(s) \in Nat /\ Len(t) \in Nat /\ Len(u) = Len(s) + Len(t)
        /\ \A k \in 1 .. Len(s) : u[k] = s[k]
        /\ \A k \in 1 .. Len(t) : u[Len(s) + k] = t[k]
    BY <1>1
  <1>3. ASSUME NEW k \in 1 .. Len(u) PROVE u[k] \in ToSet(s) \/ u[k] \in ToSet(t)
    <2>1. CASE k <= Len(s)
      <3>1. k \in 1 .. Len(s)
        BY <1>2, <2>1
      <3> QED BY Zenon, <1>2, <3>1, Elements
    <2>2. CASE ~(k <= Len(s))
      <3>1. PICK j \in 1 .. Len(t) : k = Len(s) + j
        <4>1. k - Len(s) \in 1 .. Len(t) /\ k = Len(s) + (k - Len(s))
          BY <1>2, <2>2
        <4> QED BY Zenon, <4>1
      <3> QED BY Zenon, <1>2, <3>1, Elements
    <2> QED BY Zenon, <2>1, <2>2
  <1>4. /\ \A k \in 1 .. Len(s) : k \in 1 .. Len(u)
        /\ \A k \in 1 .. Len(t) : Len(s) + k \in 1 .. Len(u)
    <2>1. PICK l \in Nat, m \in Nat : l = Len(s) /\ m = Len(t)
      BY Zenon, <1>2
    <2>2. (\A k \in 1 .. l : k \in 1 .. l + m) /\ \A k \in 1 .. m : l + k \in 1 .. l + m
      OBVIOUS
    <2> QED BY Zenon, <1>2, <2>1, <2>2
  <1>5. ASSUME x \in ToSet(s) PROVE x \in ToSet(u)
    <2>1. PICK k \in 1 .. Len(s) : x = s[k]
      BY Zenon, <1>5, Elements
    <2>2. x = u[k] /\ k \in 1 .. Len(u)
      BY Zenon, <1>2, <1>4, <2>1
    <2> QED BY Zenon, <2>2, Elements
  <1>6. ASSUME x \in ToSet(t) PROVE x \in ToSet(u)
    <2>1. PICK k \in 1 .. Len(t) : x = t[k]
      BY Zenon, <1>6, Elements
    <2>2. x = u[Len(s) + k] /\ Len(s) + k \in 1 .. Len(u)
      BY Zenon, <1>2, <1>4, <2>1
    <2> QED BY Zenon, <2>2, Elements
  <1>7. ASSUME x \in ToSet(u) PROVE x \in ToSet(s) \/ x \in ToSet(t)
    <2>1. PICK k \in 1 .. Len(u) : x = u[k]
      BY Zenon, <1>7, Elements
    <2> QED BY Zenon, <1>3, <2>1
  <1> QED BY Zenon, <1>1, <1>5, <1>6, <1>7

Concatenates(f, ss, N) ==
  f[0] = <<>> /\ FlattenSeq(ss) = f[N] /\ \A n \in 1 .. N : f[n] = f[n - 1] \o ss[n]
LEMMA Flattening ==
  ASSUME NEW R, NEW N \in Nat, NEW ss \in [1 .. N -> Seq(R)]
  PROVE \E f \in [0 .. N -> Seq(R)] : Concatenates(f, ss, N)
  <1>1. PICK step : step = [n \in 1 .. N |-> [v \in Seq(R) |-> v \o ss[n]]]
    BY Zenon
  <1>2. \A v, w \in Seq(R) : v \o w \in Seq(R)
    OBVIOUS
  <1>3. Steps(step, N, Seq(R))
    BY Zenon, <1>1, <1>2 DEF Steps
  <1>4. <<>> \in Seq(R)
    OBVIOUS
  <1>5. PICK f \in [0 .. N -> Seq(R)] : Unfolds(f, <<>>, step, N)
    <2>1. PICK base \in Seq(R) : base = <<>>
      BY Zenon, <1>4
    <2>2. \E f \in [0 .. N -> Seq(R)] : Unfolds(f, base, step, N)
      BY Zenon, <1>3, Recursion
    <2> QED BY Zenon, <2>1, <2>2
  <1>6. \A n \in 1 .. N : n - 1 \in 0 .. N /\ n \in 0 .. N
    OBVIOUS
  <1>7. f[0] = <<>> /\ \A n \in 1 .. N : f[n] = f[n - 1] \o ss[n]
    BY Zenon, <1>1, <1>5, <1>6 DEF Unfolds
  <1>8. Len(ss) = N
    OBVIOUS
  <1>9. FlattenSeq(ss) = f[N]
    <2>1. CASE N = 0
      <3>1. ss = <<>>
        BY <2>1
      <3> QED BY <1>7, <1>8, <2>1, <3>1 DEF FlattenSeq
    <2>2. CASE N # 0
      <3>1. PICK h : h = CHOOSE e : e = [i \in 1 .. Len(ss) |-> IF i = 1 THEN ss[i] ELSE e[i - 1] \o ss[i]]
        BY Zenon
      <3>2. FlattenSeq(ss) = h[N]
        BY Zenon, <1>8, <2>2, <3>1 DEF FlattenSeq
      <3>3. PICK e : e = [i \in 1 .. N |-> f[i]]
        BY Zenon
      <3>4. f[1] = ss[1]
        <4>1. 1 \in 1 .. N
          BY <2>2
        <4>2. ss[1] \in Seq(R)
          BY Zenon, <4>1
        <4>3. f[1] = f[1 - 1] \o ss[1]
          BY Zenon, <1>7, <4>1
        <4>4. 1 - 1 = 0
          OBVIOUS
        <4>5. f[1] = <<>> \o ss[1]
          BY Zenon, <1>7, <4>3, <4>4
        <4> QED BY <4>2, <4>5
      <3>5. \A i \in 1 .. N : i # 1 => i - 1 \in 1 .. N
        OBVIOUS
      <3>6. e = [i \in 1 .. N |-> IF i = 1 THEN ss[i] ELSE e[i - 1] \o ss[i]]
        <4>1. \A i \in 1 .. N : e[i] = IF i = 1 THEN ss[i] ELSE e[i - 1] \o ss[i]
          BY Zenon, <1>7, <3>3, <3>4, <3>5
        <4> QED BY Zenon, <3>3, <4>1
      <3>7. h = [i \in 1 .. N |-> IF i = 1 THEN ss[i] ELSE h[i - 1] \o ss[i]]
        BY Zenon, <1>8, <3>1, <3>6
      <3>8. PICK E : E = {n \in 0 .. N : n = 0 \/ h[n] = f[n]}
        BY Zenon
      <3>9. \A n \in 0 .. N : n \in E
        <4>1. 0 \in E
          BY <3>8
        <4>2. ASSUME NEW n \in 1 .. N, n - 1 \in E PROVE n \in E
          <5>1. CASE n = 1
            BY Zenon, <1>6, <3>4, <3>7, <3>8, <5>1
          <5>2. CASE n # 1
            <6>1. n - 1 # 0
              BY <5>2
            <6>2. h[n - 1] = f[n - 1]
              BY Zenon, <3>8, <4>2, <6>1
            <6>3. h[n] = h[n - 1] \o ss[n]
              BY Zenon, <3>7, <5>2
            <6> QED BY Zenon, <1>6, <1>7, <3>8, <6>2, <6>3
          <5> QED BY Zenon, <5>1, <5>2
        <4> QED BY Zenon, <4>1, <4>2, UpTo
      <3>10. h[N] = f[N]
        <4>1. N \in 0 .. N
          OBVIOUS
        <4> QED BY Zenon, <2>2, <3>8, <3>9, <4>1
      <3> QED BY Zenon, <3>2, <3>10
    <2> QED BY Zenon, <2>1, <2>2
  <1> QED BY Zenon, <1>7, <1>9 DEF Concatenates

\* The registry is the definitions with their ids, each followed by its reply
Expands(f, a, N) ==
  f[0] = <<>> /\ ExpandReplies(a) = f[N] /\ \A n \in 1 .. N : f[n] = f[n - 1] \o Parts(a[n])
LEMMA Expanding ==
  ASSUME NEW P, NEW a \in Seq(Def(P))
  PROVE /\ \E f \in [0 .. Len(a) -> Seq(Def(P))] : Expands(f, a, Len(a))
        /\ ExpandReplies(a) \in Seq(Def(P))
        /\ \A x : x \in ToSet(ExpandReplies(a)) <=> \E k \in 1 .. Len(a) : From(x, a[k])
  <1>1. PICK N \in Nat : N = Len(a)
    <2>1. Len(a) \in Nat
      OBVIOUS
    <2> QED BY Zenon, <2>1
  <1>2. \A k \in 1 .. N : a[k] \in Def(P)
    BY <1>1
  <1>3. PICK ss : ss = [k \in 1 .. N |-> Parts(a[k])]
    BY Zenon
  <1>4. ss \in [1 .. N -> Seq(Def(P))]
    BY Zenon, <1>2, <1>3, PartsOf
  <1>5. PICK f \in [0 .. N -> Seq(Def(P))] : Concatenates(f, ss, N)
    BY Zenon, <1>4, Flattening
  <1>6. DOMAIN a = 1 .. N
    BY <1>1
  <1>7. ExpandReplies(a) = FlattenSeq(ss)
    BY Zenon, <1>3, <1>6 DEF ExpandReplies, Parts
  <1>8. Expands(f, a, N)
    BY Zenon, <1>3, <1>5, <1>7 DEF Concatenates, Expands
  <1>9. PICK S : S = {n \in 0 .. N : \A x : x \in ToSet(f[n]) <=> \E k \in 1 .. n : From(x, a[k])}
    BY Zenon
  <1>10. 0 \in S
    <2>1. ToSet(<<>>) = {} /\ 1 .. 0 = {} /\ 0 \in 0 .. N
      BY DEF ToSet
    <2> QED BY Zenon, <1>8, <1>9, <2>1 DEF Expands
  <1>11. ASSUME NEW n \in 1 .. N, n - 1 \in S PROVE n \in S
    <2>1. n - 1 \in 0 .. N /\ n \in 0 .. N
      OBVIOUS
    <2>2. f[n - 1] \in Seq(Def(P)) /\ Parts(a[n]) \in Seq(Def(P)) /\ f[n] = f[n - 1] \o Parts(a[n])
      BY Zenon, <1>2, <1>8, <2>1, PartsOf DEF Expands
    <2>3. \A k : k \in 1 .. n <=> k \in 1 .. n - 1 \/ k = n
      OBVIOUS
    <2>4. ASSUME NEW x PROVE x \in ToSet(f[n]) <=> \E k \in 1 .. n : From(x, a[k])
      <3>1. x \in ToSet(f[n]) <=> x \in ToSet(f[n - 1]) \/ x \in ToSet(Parts(a[n]))
        BY Zenon, <2>2, Joined
      <3>2. x \in ToSet(Parts(a[n])) <=> From(x, a[n])
        BY Zenon, <1>2, PartsOf
      <3>3. x \in ToSet(f[n - 1]) <=> \E k \in 1 .. n - 1 : From(x, a[k])
        BY Zenon, <1>9, <1>11
      <3> QED BY Zenon, <2>3, <3>1, <3>2, <3>3
    <2> QED BY Zenon, <1>9, <2>1, <2>4
  <1>12. N \in S
    <2>1. \A n \in 0 .. N : n \in S
      BY Zenon, <1>10, <1>11, UpTo
    <2>2. N \in 0 .. N
      OBVIOUS
    <2> QED BY Zenon, <2>1, <2>2
  <1>13. ExpandReplies(a) = f[N] /\ f[N] \in Seq(Def(P))
    <2>1. N \in 0 .. N
      OBVIOUS
    <2> QED BY Zenon, <1>8, <2>1 DEF Expands
  <1>14. \A x : x \in ToSet(ExpandReplies(a)) <=> \E k \in 1 .. N : From(x, a[k])
    BY Zenon, <1>9, <1>12, <1>13
  <1> QED BY Zenon, <1>1, <1>8, <1>13, <1>14


LEMMA Registry ==
  ASSUME NEW P, NEW defs \in Seq(Def(P))
  PROVE \E a \in Seq(Def(P)) :
          /\ a = AutoAssignIDs(defs) /\ Len(a) = Len(defs) /\ MessageDefsTuple(defs) = ExpandReplies(a)
          /\ MessageDefsTuple(defs) \in Seq(Def(P))
          /\ \A x : x \in ToSet(MessageDefsTuple(defs)) <=> \E k \in 1 .. Len(defs) : From(x, a[k])
  <1>1. PICK N \in Nat : N = Len(defs)
    <2>1. Len(defs) \in Nat
      OBVIOUS
    <2> QED BY Zenon, <2>1
  <1>2. PICK g \in [0 .. N -> Seq(Def(P))] : Assigns(g, defs)
    BY Zenon, <1>1, Assigning
  <1>3. PICK a \in Seq(Def(P)) : a = g[N]
    <2>1. N \in 0 .. N
      OBVIOUS
    <2> QED BY Zenon, <1>2, <2>1
  <1>4. a = AutoAssignIDs(defs) /\ Len(a) = N
    <2>1. N \in 0 .. N
      OBVIOUS
    <2> QED BY Zenon, <1>1, <1>2, <1>3, <2>1 DEF Assigns
  <1>5. /\ ExpandReplies(a) \in Seq(Def(P))
        /\ \A x : x \in ToSet(ExpandReplies(a)) <=> \E k \in 1 .. Len(a) : From(x, a[k])
    BY Zenon, Expanding
  <1> QED BY Zenon, <1>1, <1>4, <1>5 DEF MessageDefsTuple

\* In an orderly registry requests and messages without a reply have ids up to
\* MAX_MESSAGE_ID, replies have the ids above it, and an id tells the definition
Numbered(reg) ==
  /\ \A x \in ToSet(reg) : x.local_id \in 1 .. 2^16 - 1
  /\ \A x \in ToSet(reg) : x.local_id > MAX_MESSAGE_ID => ~has_reply(x)
  /\ \A x, y \in ToSet(reg) : SameGroup(x, y) /\ x.local_id = y.local_id => x = y
  /\ \A x \in ToSet(reg) : has_reply(x) => ReplyMessageDef(x) \in ToSet(reg)

NumberedAs(x, d, i) ==
  /\ d.local_id = i /\ SameGroup(x, d)
  /\ \/ x = d /\ x.local_id = i
     \/ has_reply(d) /\ x = ReplyMessageDef(d) /\ x.local_id = 2^16 - i /\ ~has_reply(x)
\* The compile-time registry gives an orderly list of definitions, of any length,
\* ids that tell all its messages apart, requests from replies included.
THEOREM Numbering ==
  ASSUME NEW P, NEW defs \in Seq(Def(P)), Orderly(defs)
  PROVE Numbered(MessageDefsTuple(defs))
  <1>1. PICK N \in Nat : N = Len(defs)
    <2>1. Len(defs) \in Nat
      OBVIOUS
    <2> QED BY Zenon, <2>1
  <1>2. PICK a \in Seq(Def(P)) :
          /\ a = AutoAssignIDs(defs) /\ Len(a) = Len(defs) /\ MessageDefsTuple(defs) = ExpandReplies(a)
          /\ MessageDefsTuple(defs) \in Seq(Def(P))
          /\ \A x : x \in ToSet(MessageDefsTuple(defs)) <=> \E k \in 1 .. Len(defs) : From(x, a[k])
    BY Zenon, Registry
  <1>3. /\ \A k \in 1 .. N : a[k].local_id \in 1 .. MAX_MESSAGE_ID
        /\ \A j, k \in 1 .. N : SameGroup(a[j], a[k]) /\ a[j].local_id = a[k].local_id => j = k
    <2>1. PICK b \in Seq(Def(P)) :
            /\ b = AutoAssignIDs(defs) /\ Len(b) = Len(defs)
            /\ \A k \in 1 .. Len(defs) : b[k].local_id \in 1 .. MAX_MESSAGE_ID /\ b[k] = [defs[k] EXCEPT !.local_id = b[k].local_id]
            /\ \A j, k \in 1 .. Len(defs) : SameGroup(b[j], b[k]) /\ b[j].local_id = b[k].local_id => j = k
      BY Zenon, AssignedIds
    <2>2. a = b
      BY Zenon, <1>2, <2>1
    <2> QED BY Zenon, <1>1, <2>1, <2>2
  <1>4. \A k \in 1 .. N : a[k] \in Def(P)
    BY <1>1, <1>2
  <1>5. ASSUME NEW k \in 1 .. N, NEW x, From(x, a[k])
        PROVE \E i \in 1 .. MAX_MESSAGE_ID : NumberedAs(x, a[k], i)
    <2>1. PICK i \in 1 .. MAX_MESSAGE_ID : i = a[k].local_id
      BY Zenon, <1>3
    <2>2. CASE x = a[k]
      BY Zenon, <2>1, <2>2 DEF SameGroup, NumberedAs
    <2>3. CASE has_reply(a[k]) /\ x = ReplyMessageDef(a[k])
      <3>1. x.prefix = a[k].prefix /\ x.subprefix = a[k].subprefix
            /\ x.local_id = (2^16 - i) % 2^16 /\ x.reply = None
        <4>1. PICK r \in Def(P) :
                /\ r = ReplyMessageDef(a[k])
                /\ r.payload = a[k].reply /\ r.prefix = a[k].prefix /\ r.subprefix = a[k].subprefix
                /\ r.local_id = (2^16 - a[k].local_id) % 2^16 /\ r.reply = None
          BY Zenon, <1>4, <2>3, ReplyOf
        <4> QED BY Zenon, <2>1, <2>3, <4>1
      <3>2. (2^16 - i) % 2^16 = 2^16 - i
        BY DEF MAX_MESSAGE_ID
      <3> QED BY Zenon, <2>1, <2>3, <3>1, <3>2 DEF SameGroup, has_reply, NumberedAs
    <2> QED BY Zenon, <1>5, <2>2, <2>3 DEF From
  <1>6. \A i \in 1 .. MAX_MESSAGE_ID :
          /\ i \in 1 .. 2^16 - 1 /\ ~(i > MAX_MESSAGE_ID)
          /\ 2^16 - i \in 1 .. 2^16 - 1 /\ 2^16 - i > MAX_MESSAGE_ID
    BY DEF MAX_MESSAGE_ID
  <1>7. \A i, j \in 1 .. MAX_MESSAGE_ID : 2^16 - i # j /\ (2^16 - i = 2^16 - j => i = j)
    BY DEF MAX_MESSAGE_ID
  <1>8. ASSUME NEW x \in ToSet(MessageDefsTuple(defs))
        PROVE x.local_id \in 1 .. 2^16 - 1 /\ (x.local_id > MAX_MESSAGE_ID => ~has_reply(x))
    <2>1. PICK k \in 1 .. N : From(x, a[k])
      BY Zenon, <1>1, <1>2
    <2>2. PICK i \in 1 .. MAX_MESSAGE_ID : NumberedAs(x, a[k], i)
      BY Zenon, <1>5, <2>1
    <2> QED BY Zenon, <1>6, <2>2 DEF NumberedAs
  <1>9. ASSUME NEW x \in ToSet(MessageDefsTuple(defs)), NEW y \in ToSet(MessageDefsTuple(defs)),
               SameGroup(x, y), x.local_id = y.local_id
        PROVE x = y
    <2>1. PICK j \in 1 .. N : From(x, a[j])
      BY Zenon, <1>1, <1>2
    <2>2. PICK k \in 1 .. N : From(y, a[k])
      BY Zenon, <1>1, <1>2
    <2>3. PICK u \in 1 .. MAX_MESSAGE_ID : NumberedAs(x, a[j], u)
      BY Zenon, <1>5, <2>1
    <2>4. PICK v \in 1 .. MAX_MESSAGE_ID : NumberedAs(y, a[k], v)
      BY Zenon, <1>5, <2>2
    <2>5. SameGroup(a[j], a[k])
      BY Zenon, <1>9, <2>3, <2>4 DEF SameGroup, NumberedAs
    <2>6. u = v => j = k
      BY Zenon, <1>3, <2>3, <2>4, <2>5 DEF NumberedAs
    <2>7. CASE x = a[j] /\ x.local_id = u
      <3>1. ~(y.local_id = 2^16 - v)
        BY Zenon, <1>7, <1>9, <2>7
      <3>2. y = a[k] /\ y.local_id = v
        BY Zenon, <2>4, <3>1 DEF NumberedAs
      <3> QED BY Zenon, <1>9, <2>6, <2>7, <3>2
    <2>8. CASE x = ReplyMessageDef(a[j]) /\ x.local_id = 2^16 - u
      <3>1. ~(y.local_id = v)
        BY Zenon, <1>7, <1>9, <2>8
      <3>2. y = ReplyMessageDef(a[k]) /\ y.local_id = 2^16 - v
        BY Zenon, <2>4, <3>1 DEF NumberedAs
      <3>3. u = v
        BY Zenon, <1>7, <1>9, <2>8, <3>2
      <3> QED BY Zenon, <2>6, <2>8, <3>2, <3>3
    <2> QED BY Zenon, <2>3, <2>7, <2>8 DEF NumberedAs
  <1>10. ASSUME NEW x \in ToSet(MessageDefsTuple(defs)), has_reply(x)
         PROVE ReplyMessageDef(x) \in ToSet(MessageDefsTuple(defs))
    <2>1. PICK k \in 1 .. N : From(x, a[k])
      BY Zenon, <1>1, <1>2
    <2>2. PICK i \in 1 .. MAX_MESSAGE_ID : NumberedAs(x, a[k], i)
      BY Zenon, <1>5, <2>1
    <2>3. x = a[k]
      BY Zenon, <1>10, <2>2 DEF NumberedAs
    <2>4. From(ReplyMessageDef(x), a[k])
      BY Zenon, <1>10, <2>3 DEF From
    <2> QED BY Zenon, <1>1, <1>2, <2>4
  <1> QED BY Zenon, <1>8, <1>9, <1>10 DEF Numbered


-----------------------------------------------------------------------------
(* Lookups                                                                 *)

LEMMA FirstIndex ==
  ASSUME NEW N \in Nat, NEW S \in SUBSET (1 .. N), S # {}
  PROVE Min(S) \in S
  <1>1. S \subseteq Nat
    OBVIOUS
  <1>2. PICK m \in S : \A k \in S : ~ (<<k, m>> \in OpToRel(<, Nat))
    BY Zenon, <1>1, NatLessThanWellFounded, WFMin
  <1>3. ASSUME NEW k \in S PROVE ~(k < m)
    BY Zenon, <1>1, <1>2 DEF OpToRel
  <1>4. \A k \in S : m <= k
    BY <1>1, <1>3
  <1> QED BY Zenon, <1>4 DEF Min

FirstIn(reg, D) == LET I == {i \in 1 .. Len(reg) : reg[i] \in D} IN IF I # {} THEN Min(I) ELSE 0
LEMMA Looked ==
  ASSUME NEW P, NEW reg \in Seq(Def(P)), NEW D \in SUBSET ToSet(reg)
  PROVE /\ D # {} => At(reg, FirstIn(reg, D)) \in D
        /\ D = {} => At(reg, FirstIn(reg, D)) = None
  <1>1. PICK N \in Nat : N = Len(reg)
    <2>1. Len(reg) \in Nat
      OBVIOUS
    <2> QED BY Zenon, <2>1
  <1>2. PICK I \in SUBSET (1 .. N) : I = {i \in 1 .. N : reg[i] \in D}
    BY Zenon
  <1>3. PICK k : k = FirstIn(reg, D)
    BY Zenon
  <1>4. k = IF I # {} THEN Min(I) ELSE 0
    BY Zenon, <1>1, <1>2, <1>3 DEF FirstIn
  <1>5. ASSUME D # {} PROVE At(reg, k) \in D
    <2>1. PICK d \in D : d \in ToSet(reg)
      BY Zenon, <1>5
    <2>2. PICK i \in 1 .. N : d = reg[i]
      BY Zenon, <1>1, <2>1, Elements
    <2>3. I # {}
      BY Zenon, <1>2, <2>1, <2>2
    <2>4. k \in I
      BY Zenon, <1>4, <2>3, FirstIndex
    <2>5. k # 0
      BY <2>4
    <2> QED BY Zenon, <1>2, <2>4, <2>5 DEF At
  <1>6. ASSUME D = {} PROVE At(reg, k) = None
    BY Zenon, <1>2, <1>4, <1>6 DEF At
  <1> QED BY Zenon, <1>3, <1>5, <1>6

\* FindMessageDef finds a definition with the payload, if there is one
LEMMA FoundPayload ==
  ASSUME NEW P, NEW reg \in Seq(Def(P)), NEW T
  PROVE /\ T \in PayloadTypes(reg) => FindMessageDef(reg, T) \in ToSet(reg) /\ FindMessageDef(reg, T).payload = T
        /\ T \notin PayloadTypes(reg) => FindMessageDef(reg, T) = None
  <1>1. PICK D \in SUBSET ToSet(reg) : D = {d \in ToSet(reg) : d.payload = T}
    BY Zenon
  <1>2. \A i \in 1 .. Len(reg) : reg[i].payload = T <=> reg[i] \in D
    BY Zenon, <1>1, Elements
  <1>3. {i \in 1 .. Len(reg) : reg[i].payload = T} = {i \in 1 .. Len(reg) : reg[i] \in D}
    BY Zenon, <1>2
  <1>4. SelectInSeq(reg, LAMBDA d : d.payload = T) = FirstIn(reg, D)
    BY Zenon, <1>3 DEF SelectInSeq, FirstIn
  <1>5. FindMessageDef(reg, T) = At(reg, FirstIn(reg, D))
    BY Zenon, <1>4 DEF FindMessageDef
  <1>6. T \in PayloadTypes(reg) <=> D # {}
    BY Zenon, <1>1 DEF PayloadTypes
  <1>7. (D # {} => At(reg, FirstIn(reg, D)) \in D) /\ (D = {} => At(reg, FirstIn(reg, D)) = None)
    BY Zenon, Looked
  <1> QED BY Zenon, <1>1, <1>5, <1>6, <1>7

\* PayloadTypeFor returns the payload of a definition with the id
LEMMA FoundId ==
  ASSUME NEW P, NEW reg \in Seq(Def(P)), None \notin ToSet(reg), NEW d \in ToSet(reg)
  PROVE \E e \in ToSet(reg) : full_id(e) = full_id(d) /\ PayloadTypeFor(reg, full_id(d)) = e.payload
  <1>1. PICK id : id = full_id(d)
    BY Zenon
  <1>2. PICK D \in SUBSET ToSet(reg) : D = {e \in ToSet(reg) : full_id(e) = id}
    BY Zenon
  <1>3. \A i \in 1 .. Len(reg) : full_id(reg[i]) = id <=> reg[i] \in D
    BY Zenon, <1>2, Elements
  <1>4. {i \in 1 .. Len(reg) : full_id(reg[i]) = id} = {i \in 1 .. Len(reg) : reg[i] \in D}
    BY Zenon, <1>3
  <1>5. SelectInSeq(reg, LAMBDA e : full_id(e) = id) = FirstIn(reg, D)
    BY Zenon, <1>4 DEF SelectInSeq, FirstIn
  <1>6. PICK e : e = At(reg, FirstIn(reg, D))
    BY Zenon
  <1>7. e \in D
    <2>1. D # {}
      BY Zenon, <1>1, <1>2
    <2> QED BY Zenon, <1>6, <2>1, Looked
  <1>8. e # None
    BY Zenon, <1>7
  <1>9. PayloadTypeFor(reg, id) = e.payload
    BY Zenon, <1>5, <1>6, <1>8 DEF PayloadTypeFor
  <1> QED BY Zenon, <1>1, <1>2, <1>7, <1>9

\* Where ids tell definitions apart, visit() takes a message for what it was sent as
LEMMA VisitsWhatWasSent ==
  ASSUME NEW P, NEW reg \in Seq(Def(P)), None \notin ToSet(reg), Numbered(reg), NEW T \in PayloadTypes(reg)
  PROVE PayloadTypeFor(reg, get_message_id(reg, T)) = T
  <1>1. PICK d \in ToSet(reg) : d = FindMessageDef(reg, T) /\ d.payload = T
    BY Zenon, FoundPayload
  <1>2. PICK e \in ToSet(reg) : full_id(e) = full_id(d) /\ PayloadTypeFor(reg, full_id(d)) = e.payload
    BY Zenon, FoundId
  <1>3. \A x \in ToSet(reg) : x \in Def(P)
    BY DEF ToSet
  <1>4. PICK p \in 0 .. 2^8 - 1, s \in 0 .. 2^8 - 1, i \in 1 .. 2^16 - 1 :
          p = d.prefix /\ s = d.subprefix /\ i = d.local_id
    BY Zenon, <1>3 DEF Def, Numbered
  <1>5. PICK q \in 0 .. 2^8 - 1, t \in 0 .. 2^8 - 1, j \in 1 .. 2^16 - 1 :
          q = e.prefix /\ t = e.subprefix /\ j = e.local_id
    BY Zenon, <1>3 DEF Def, Numbered
  <1>6. q * 2^24 + t * 2^16 + j = p * 2^24 + s * 2^16 + i
    BY Zenon, <1>2, <1>4, <1>5 DEF full_id, make_message_id
  <1>7. p = q /\ s = t /\ i = j
    BY <1>6
  <1>8. e = d
    BY Zenon, <1>4, <1>5, <1>7 DEF Numbered, SameGroup
  <1> QED BY Zenon, <1>1, <1>2, <1>8 DEF get_message_id

-----------------------------------------------------------------------------
(* FilterTuple                                                             *)

Keeps(g, reg, D) ==
  /\ g[0] = <<>> /\ FilterTuple(reg, D) = g[Len(reg)]
  /\ \A n \in 1 .. Len(reg) : g[n] = IF reg[n] \in D THEN Append(g[n - 1], reg[n]) ELSE g[n - 1]
LEMMA Filtering ==
  ASSUME NEW R, NEW reg \in Seq(R), NEW D
  PROVE \E g \in [0 .. Len(reg) -> Seq(R)] : Keeps(g, reg, D)
  <1>1. PICK N \in Nat : N = Len(reg) /\ \A n \in 1 .. N : reg[n] \in R
    <2>1. Len(reg) \in Nat /\ \A n \in 1 .. Len(reg) : reg[n] \in R
      OBVIOUS
    <2> QED BY Zenon, <2>1
  <1>2. PICK step : step = [n \in 1 .. N |-> [v \in Seq(R) |-> IF reg[n] \in D THEN Append(v, reg[n]) ELSE v]]
    BY Zenon
  <1>3. <<>> \in Seq(R) /\ \A v \in Seq(R), x \in R : Append(v, x) \in Seq(R)
    OBVIOUS
  <1>4. Steps(step, N, Seq(R))
    <2>1. \A n \in 1 .. N, v \in Seq(R) : (IF reg[n] \in D THEN Append(v, reg[n]) ELSE v) \in Seq(R)
      BY Zenon, <1>1, <1>3
    <2> QED BY Zenon, <1>2, <2>1 DEF Steps
  <1>5. PICK g \in [0 .. N -> Seq(R)] : Unfolds(g, <<>>, step, N)
    <2>1. PICK base \in Seq(R) : base = <<>>
      BY Zenon, <1>3
    <2>2. \E f \in [0 .. N -> Seq(R)] : Unfolds(f, base, step, N)
      BY Zenon, <1>4, Recursion
    <2> QED BY Zenon, <2>1, <2>2
  <1>6. \A n \in 1 .. N : n - 1 \in 0 .. N /\ n \in 0 .. N /\ n # 0
    OBVIOUS
  <1>7. g[0] = <<>> /\ \A n \in 1 .. N : g[n] = IF reg[n] \in D THEN Append(g[n - 1], reg[n]) ELSE g[n - 1]
    BY Zenon, <1>2, <1>5, <1>6 DEF Unfolds
  <1>8. PICK h : h = CHOOSE e : e = [n \in 0 .. Len(reg) |->
                   IF n = 0 THEN <<>> ELSE IF reg[n] \in D THEN Append(e[n - 1], reg[n]) ELSE e[n - 1]]
    BY Zenon
  <1>9. FilterTuple(reg, D) = h[N]
    BY Zenon, <1>1, <1>8 DEF FilterTuple
  <1>10. \A n \in 0 .. N : n = 0 \/ n \in 1 .. N
    OBVIOUS
  <1>11. g = [n \in 0 .. N |->
               IF n = 0 THEN <<>> ELSE IF reg[n] \in D THEN Append(g[n - 1], reg[n]) ELSE g[n - 1]]
    <2>1. \A n \in 0 .. N : g[n] = IF n = 0 THEN <<>> ELSE IF reg[n] \in D THEN Append(g[n - 1], reg[n]) ELSE g[n - 1]
      BY Zenon, <1>6, <1>7, <1>10
    <2> QED BY Zenon, <2>1
  <1>12. h = [n \in 0 .. N |->
               IF n = 0 THEN <<>> ELSE IF reg[n] \in D THEN Append(h[n - 1], reg[n]) ELSE h[n - 1]]
    BY Zenon, <1>1, <1>8, <1>11
  <1>13. PICK E : E = {n \in 0 .. N : h[n] = g[n]}
    BY Zenon
  <1>14. 0 \in E
    <2>1. 0 \in 0 .. N
      OBVIOUS
    <2> QED BY Zenon, <1>7, <1>12, <1>13, <2>1
  <1>15. ASSUME NEW n \in 1 .. N, n - 1 \in E PROVE n \in E
    <2>1. h[n] = IF reg[n] \in D THEN Append(h[n - 1], reg[n]) ELSE h[n - 1]
      BY Zenon, <1>6, <1>12
    <2>2. h[n - 1] = g[n - 1]
      BY Zenon, <1>13, <1>15
    <2>3. h[n] = IF reg[n] \in D THEN Append(g[n - 1], reg[n]) ELSE g[n - 1]
      BY Zenon, <2>1, <2>2
    <2>4. h[n] = g[n]
      BY Zenon, <1>7, <2>3
    <2> QED BY Zenon, <1>6, <1>13, <2>4
  <1>16. h[N] = g[N]
    <2>1. \A n \in 0 .. N : n \in E
      BY Zenon, <1>14, <1>15, UpTo
    <2>2. N \in 0 .. N
      OBVIOUS
    <2> QED BY Zenon, <1>13, <2>1, <2>2
  <1> QED BY Zenon, <1>1, <1>7, <1>9, <1>16 DEF Keeps

LEMMA FilterNone ==
  ASSUME NEW D
  PROVE FilterTuple(<<>>, D) = <<>>
  <1>1. <<>> \in Seq({}) /\ Len(<<>>) = 0
    OBVIOUS
  <1>2. PICK g \in [0 .. Len(<<>>) -> Seq({})] : Keeps(g, <<>>, D)
    BY Zenon, <1>1, Filtering
  <1> QED BY Zenon, <1>1, <1>2 DEF Keeps

Filters(s, x, D) ==
  /\ x \in D => FilterTuple(Append(s, x), D) = Append(FilterTuple(s, D), x)
  /\ x \notin D => FilterTuple(Append(s, x), D) = FilterTuple(s, D)
LEMMA FilterAppend ==
  ASSUME NEW R, NEW s \in Seq(R), NEW x \in R, NEW D
  PROVE FilterTuple(s, D) \in Seq(R) /\ Filters(s, x, D)
  <1>1. PICK N \in Nat : N = Len(s)
    <2>1. Len(s) \in Nat
      OBVIOUS
    <2> QED BY Zenon, <2>1
  <1>2. PICK t \in Seq(R) : t = Append(s, x)
    <2>1. Append(s, x) \in Seq(R)
      OBVIOUS
    <2> QED BY Zenon, <2>1
  <1>3. Len(t) = N + 1 /\ t[N + 1] = x /\ \A n \in 1 .. N : t[n] = s[n]
    BY <1>1, <1>2
  <1>4. PICK f \in [0 .. Len(s) -> Seq(R)] : Keeps(f, s, D)
    BY Zenon, Filtering
  <1>5. PICK g \in [0 .. Len(t) -> Seq(R)] : Keeps(g, t, D)
    BY Zenon, Filtering
  <1>6. PICK E : E = {n \in 0 .. N : f[n] = g[n]}
    BY Zenon
  <1>7. 0 \in E
    <2>1. 0 \in 0 .. N
      OBVIOUS
    <2> QED BY Zenon, <1>4, <1>5, <1>6, <2>1 DEF Keeps
  <1>8. ASSUME NEW n \in 1 .. N, n - 1 \in E PROVE n \in E
    <2>1. n \in 1 .. N + 1 /\ n \in 0 .. N
      OBVIOUS
    <2>2. f[n] = IF s[n] \in D THEN Append(f[n - 1], s[n]) ELSE f[n - 1]
      BY Zenon, <1>1, <1>4 DEF Keeps
    <2>3. g[n] = IF t[n] \in D THEN Append(g[n - 1], t[n]) ELSE g[n - 1]
      BY Zenon, <1>3, <1>5, <2>1 DEF Keeps
    <2>4. f[n - 1] = g[n - 1] /\ t[n] = s[n]
      BY Zenon, <1>3, <1>6, <1>8
    <2>5. g[n] = IF s[n] \in D THEN Append(f[n - 1], s[n]) ELSE f[n - 1]
      BY Zenon, <2>3, <2>4
    <2>6. f[n] = g[n]
      <3>1. CASE s[n] \in D
        BY Zenon, <2>2, <2>5, <3>1
      <3>2. CASE s[n] \notin D
        BY Zenon, <2>2, <2>5, <3>2
      <3> QED BY Zenon, <3>1, <3>2
    <2> QED BY Zenon, <1>6, <2>1, <2>6
  <1>9. N \in 0 .. N /\ N + 1 \in 1 .. N + 1 /\ (N + 1) - 1 = N
    OBVIOUS
  <1>10. f[N] = g[N]
    <2>1. \A n \in 0 .. N : n \in E
      BY Zenon, <1>7, <1>8, UpTo
    <2> QED BY Zenon, <1>6, <1>9, <2>1
  <1>11. FilterTuple(s, D) = f[N] /\ f[N] \in Seq(R) /\ FilterTuple(t, D) = g[N + 1]
    BY Zenon, <1>1, <1>3, <1>4, <1>5, <1>9 DEF Keeps
  <1>12. g[N + 1] = IF t[N + 1] \in D THEN Append(g[(N + 1) - 1], t[N + 1]) ELSE g[(N + 1) - 1]
    BY Zenon, <1>3, <1>5, <1>9 DEF Keeps
  <1>13. g[N + 1] = IF x \in D THEN Append(f[N], x) ELSE f[N]
    BY Zenon, <1>3, <1>9, <1>10, <1>12
  <1> QED BY Zenon, <1>2, <1>11, <1>13 DEF Filters

-----------------------------------------------------------------------------
(* Requests and replies                                                    *)

Replies(s) == [k \in DOMAIN s |-> ReplyMessageDef(s[k])]
LEMMA RepliesAppend ==
  ASSUME NEW R, NEW s \in Seq(R), NEW x \in R
  PROVE Replies(Append(s, x)) = Append(Replies(s), ReplyMessageDef(x))
  <1>1. PICK N \in Nat : N = Len(s) /\ DOMAIN s = 1 .. N
    <2>1. Len(s) \in Nat /\ DOMAIN s = 1 .. Len(s)
      OBVIOUS
    <2> QED BY Zenon, <2>1
  <1>2. PICK t : t = Append(s, x)
    BY Zenon
  <1>3. DOMAIN t = 1 .. N + 1 /\ t[N + 1] = x /\ \A n \in 1 .. N : t[n] = s[n]
    BY <1>1, <1>2
  <1>4. PICK u : u = Replies(s)
    BY Zenon
  <1>5. u = [k \in 1 .. N |-> ReplyMessageDef(s[k])]
    BY Zenon, <1>1, <1>4 DEF Replies
  <1>6. PICK A : A = {ReplyMessageDef(s[k]) : k \in 1 .. N} \cup {ReplyMessageDef(x)}
    BY Zenon
  <1>7. u \in [1 .. N -> A]
    BY Zenon, <1>5, <1>6
  <1>8. u \in Seq(A) /\ Len(u) = N
    BY <1>7
  <1>9. PICK y \in A : y = ReplyMessageDef(x)
    BY Zenon, <1>6
  <1>10. PICK w : w = Append(u, y)
    BY Zenon
  <1>11. w \in Seq(A) /\ Len(w) = N + 1 /\ w[N + 1] = y /\ \A n \in 1 .. N : w[n] = u[n]
    BY <1>8, <1>10
  <1>12. w \in [1 .. N + 1 -> A]
    BY <1>11
  <1>13. \A n \in 1 .. N + 1 : n \in 1 .. N \/ n = N + 1
    OBVIOUS
  <1>14. \A n \in 1 .. N + 1 : w[n] = ReplyMessageDef(t[n])
    BY Zenon, <1>3, <1>5, <1>9, <1>11, <1>13
  <1>15. w = [n \in 1 .. N + 1 |-> ReplyMessageDef(t[n])]
    BY Zenon, <1>12, <1>14
  <1>16. Replies(t) = w
    BY Zenon, <1>3, <1>15 DEF Replies
  <1> QED BY Zenon, <1>2, <1>4, <1>9, <1>10, <1>16

EndsWith(s, x, y) == s \o <<x, y>> = Append(Append(s, x), y)
LEMMA TwoMore ==
  ASSUME NEW R, NEW s \in Seq(R), NEW x \in R, NEW y \in R
  PROVE s \o <<x>> = Append(s, x) /\ EndsWith(s, x, y)
  BY DEF EndsWith

LEMMA Negated ==
  ASSUME NEW i \in 1 .. MAX_MESSAGE_ID
  PROVE (2^16 - i) % 2^16 > MAX_MESSAGE_ID
  <1>1. (2^16 - i) % 2^16 = 2^16 - i
    BY DEF MAX_MESSAGE_ID
  <1>2. 2^16 - i > MAX_MESSAGE_ID
    BY DEF MAX_MESSAGE_ID
  <1> QED BY Zenon, <1>1, <1>2

\* filter_replies gives the replies of filter_requests, in order
LEMMA PairedInOrder ==
  ASSUME NEW P, NEW defs \in Seq(Def(P)), Orderly(defs)
  PROVE filter_replies(MessageDefsTuple(defs)) = Replies(filter_requests(MessageDefsTuple(defs)))
  <1>1. PICK N \in Nat : N = Len(defs)
    <2>1. Len(defs) \in Nat
      OBVIOUS
    <2> QED BY Zenon, <2>1
  <1>2. PICK a \in Seq(Def(P)) :
          /\ a = AutoAssignIDs(defs) /\ Len(a) = Len(defs) /\ MessageDefsTuple(defs) = ExpandReplies(a)
          /\ MessageDefsTuple(defs) \in Seq(Def(P))
          /\ \A x : x \in ToSet(MessageDefsTuple(defs)) <=> \E k \in 1 .. Len(defs) : From(x, a[k])
    BY Zenon, Registry
  <1>3. \A k \in 1 .. N : a[k].local_id \in 1 .. MAX_MESSAGE_ID
    <2>1. PICK b \in Seq(Def(P)) :
            /\ b = AutoAssignIDs(defs) /\ Len(b) = Len(defs)
            /\ \A k \in 1 .. Len(defs) : b[k].local_id \in 1 .. MAX_MESSAGE_ID /\ b[k] = [defs[k] EXCEPT !.local_id = b[k].local_id]
            /\ \A j, k \in 1 .. Len(defs) : SameGroup(b[j], b[k]) /\ b[j].local_id = b[k].local_id => j = k
      BY Zenon, AssignedIds
    <2>2. a = b
      BY Zenon, <1>2, <2>1
    <2> QED BY Zenon, <1>1, <2>1, <2>2
  <1>4. \A k \in 1 .. N : a[k] \in Def(P)
    BY <1>1, <1>2
  <1>5. PICK f \in [0 .. N -> Seq(Def(P))] : Expands(f, a, N)
    <2>1. \E f \in [0 .. Len(a) -> Seq(Def(P))] : Expands(f, a, Len(a))
      BY Zenon, Expanding
    <2> QED BY Zenon, <1>1, <1>2, <2>1
  <1>6. PICK reg \in Seq(Def(P)) : reg = MessageDefsTuple(defs)
    BY Zenon, <1>2
  <1>7. PICK D : D = {d \in ToSet(reg) : has_reply(d)}
    BY Zenon
  <1>8. PICK E : E = {d \in ToSet(reg) : d.local_id > MAX_MESSAGE_ID}
    BY Zenon
  <1>9. PICK S : S = {n \in 0 .. N : FilterTuple(f[n], E) = Replies(FilterTuple(f[n], D))}
    BY Zenon
  <1>10. 0 \in S
    <2>1. 0 \in 0 .. N /\ Replies(<<>>) = <<>>
      BY DEF Replies
    <2> QED BY Zenon, <1>5, <1>9, <2>1, FilterNone DEF Expands
  <1>11. ASSUME NEW n \in 1 .. N, n - 1 \in S PROVE n \in S
    <2>1. n - 1 \in 0 .. N /\ n \in 0 .. N
      OBVIOUS
    <2>2. PICK v \in Seq(Def(P)), d \in Def(P) : v = f[n - 1] /\ d = a[n]
      BY Zenon, <1>4, <2>1
    <2>3. f[n] = v \o Parts(d) /\ FilterTuple(v, E) = Replies(FilterTuple(v, D))
      BY Zenon, <1>5, <1>9, <1>11, <2>2 DEF Expands
    <2>4. d \in ToSet(reg)
      BY Zenon, <1>1, <1>2, <1>6, <2>2 DEF From
    <2>5. PICK i \in 1 .. MAX_MESSAGE_ID : i = d.local_id
      BY Zenon, <1>3, <2>2
    <2>6. d \notin E
      <3>1. ~(i > MAX_MESSAGE_ID)
        BY DEF MAX_MESSAGE_ID
      <3> QED BY Zenon, <1>8, <2>5, <3>1
    <2>7. CASE ~has_reply(d)
      <3>1. d \notin D
        BY Zenon, <1>7, <2>7
      <3>2. f[n] = Append(v, d)
        <4>1. Parts(d) = <<d>>
          BY Zenon, <2>7 DEF Parts
        <4>2. v \o <<d>> = Append(v, d)
          BY Zenon, TwoMore
        <4> QED BY Zenon, <2>3, <4>1, <4>2
      <3>3. FilterTuple(f[n], E) = FilterTuple(v, E) /\ FilterTuple(f[n], D) = FilterTuple(v, D)
        <4>1. Filters(v, d, D) /\ Filters(v, d, E)
          BY Zenon, FilterAppend
        <4> QED BY Zenon, <2>6, <3>1, <3>2, <4>1 DEF Filters
      <3> QED BY Zenon, <1>9, <2>1, <2>3, <3>3
    <2>8. CASE has_reply(d)
      <3>1. d \in D
        BY Zenon, <1>7, <2>4, <2>8
      <3>2. PICK r \in Def(P) :
              /\ r = ReplyMessageDef(d)
              /\ r.payload = d.reply /\ r.prefix = d.prefix /\ r.subprefix = d.subprefix
              /\ r.local_id = (2^16 - d.local_id) % 2^16 /\ r.reply = None
        BY Zenon, <2>8, ReplyOf
      <3>3. r \notin D
        BY Zenon, <1>7, <3>2 DEF has_reply
      <3>4. r \in E
        <4>1. (2^16 - i) % 2^16 > MAX_MESSAGE_ID
          BY Zenon, Negated
        <4>2. From(r, a[n])
          BY Zenon, <2>2, <2>8, <3>2 DEF From
        <4>3. r \in ToSet(reg)
          BY Zenon, <1>1, <1>2, <1>6, <4>2
        <4> QED BY Zenon, <1>8, <2>5, <3>2, <4>1, <4>3
      <3>5. PICK w \in Seq(Def(P)) : w = Append(v, d)
        <4>1. Append(v, d) \in Seq(Def(P))
          OBVIOUS
        <4> QED BY Zenon, <4>1
      <3>6. f[n] = Append(w, r)
        <4>1. Parts(d) = <<d, r>>
          BY Zenon, <2>8, <3>2 DEF Parts
        <4>2. v \o <<d, r>> = Append(Append(v, d), r)
          <5>1. EndsWith(v, d, r)
            BY Zenon, TwoMore
          <5> QED BY Zenon, <5>1 DEF EndsWith
        <4> QED BY Zenon, <2>3, <3>5, <4>1, <4>2
      <3>7. FilterTuple(w, E) = FilterTuple(v, E) /\ FilterTuple(w, D) = Append(FilterTuple(v, D), d)
        <4>1. Filters(v, d, D) /\ Filters(v, d, E)
          BY Zenon, FilterAppend
        <4> QED BY Zenon, <2>6, <3>1, <3>5, <4>1 DEF Filters
      <3>8. FilterTuple(f[n], E) = Append(FilterTuple(w, E), r) /\ FilterTuple(f[n], D) = FilterTuple(w, D)
        <4>1. Filters(w, r, D) /\ Filters(w, r, E)
          BY Zenon, FilterAppend
        <4> QED BY Zenon, <3>3, <3>4, <3>6, <4>1 DEF Filters
      <3>9. PICK q \in Seq(Def(P)) : q = FilterTuple(v, D)
        BY Zenon, FilterAppend
      <3>10. Replies(Append(q, d)) = Append(Replies(q), r)
        BY Zenon, <3>2, RepliesAppend
      <3>11. FilterTuple(f[n], E) = Replies(FilterTuple(f[n], D))
        BY Zenon, <2>3, <3>7, <3>8, <3>9, <3>10
      <3> QED BY Zenon, <1>9, <2>1, <3>11
    <2> QED BY Zenon, <2>7, <2>8
  <1>12. N \in S
    <2>1. \A n \in 0 .. N : n \in S
      BY Zenon, <1>10, <1>11, UpTo
    <2>2. N \in 0 .. N
      OBVIOUS
    <2> QED BY Zenon, <2>1, <2>2
  <1>13. reg = f[N]
    BY Zenon, <1>2, <1>5, <1>6 DEF Expands
  <1>14. filter_replies(reg) = FilterTuple(reg, E) /\ filter_requests(reg) = FilterTuple(reg, D)
    BY Zenon, <1>7, <1>8 DEF filter_replies, filter_requests
  <1> QED BY Zenon, <1>6, <1>9, <1>12, <1>13, <1>14

\* What RepliesPaired says of a registry
LEMMA RepliesOfRequests ==
  ASSUME NEW P, NEW defs \in Seq(Def(P)), Orderly(defs),
         NEW reg, reg = MessageDefsTuple(defs)
  PROVE /\ filter_replies(reg) = Replies(filter_requests(reg))
        /\ filter_replies(reg) = FilterTuple(reg, {d \in ToSet(reg) : is_reply(d)})
        /\ IsInjective([k \in DOMAIN reg |-> reg[k].payload]) =>
             \A T \in PayloadTypes(reg) : IsRequestPayload(reg, T) =>
               /\ GetReplyPayloadFor(reg, T) \in PayloadTypes(reg)
               /\ FindMessageDef(reg, GetReplyPayloadFor(reg, T)).local_id + FindMessageDef(reg, T).local_id = 2^16
  <1>1. reg \in Seq(Def(P)) /\ Numbered(reg)
    <2>1. \E a \in Seq(Def(P)) :
          /\ a = AutoAssignIDs(defs) /\ Len(a) = Len(defs) /\ MessageDefsTuple(defs) = ExpandReplies(a)
          /\ MessageDefsTuple(defs) \in Seq(Def(P))
          /\ \A x : x \in ToSet(MessageDefsTuple(defs)) <=> \E k \in 1 .. Len(defs) : From(x, a[k])
      BY Zenon, Registry
    <2>2. Numbered(MessageDefsTuple(defs))
      BY Zenon, Numbering
    <2> QED BY Zenon, <2>1, <2>2
  <1>2. filter_replies(reg) = Replies(filter_requests(reg))
    BY Zenon, PairedInOrder
  <1>3. filter_replies(reg) = FilterTuple(reg, {d \in ToSet(reg) : is_reply(d)})
    <2>1. {d \in ToSet(reg) : is_reply(d)} = {d \in ToSet(reg) : d.local_id > MAX_MESSAGE_ID}
      BY Zenon, <1>1 DEF is_reply, Numbered
    <2> QED BY Zenon, <2>1 DEF filter_replies
  <1>4. ASSUME IsInjective([k \in DOMAIN reg |-> reg[k].payload]), NEW T \in PayloadTypes(reg),
               IsRequestPayload(reg, T)
        PROVE /\ GetReplyPayloadFor(reg, T) \in PayloadTypes(reg)
              /\ FindMessageDef(reg, GetReplyPayloadFor(reg, T)).local_id + FindMessageDef(reg, T).local_id = 2^16
    <2>1. PICK d \in ToSet(reg) : d = FindMessageDef(reg, T)
      BY Zenon, <1>1, FoundPayload
    <2>2. has_reply(d) /\ ReplyMessageDef(d) \in ToSet(reg)
      BY Zenon, <1>1, <1>4, <2>1 DEF IsRequestPayload, Numbered
    <2>3. d \in Def(P)
      BY <1>1 DEF ToSet
    <2>4. PICK r \in Def(P) :
            /\ r = ReplyMessageDef(d)
            /\ r.payload = d.reply /\ r.prefix = d.prefix /\ r.subprefix = d.subprefix
            /\ r.local_id = (2^16 - d.local_id) % 2^16 /\ r.reply = None
      BY Zenon, <2>2, <2>3, ReplyOf
    <2>5. PICK U : U = GetReplyPayloadFor(reg, T)
      BY Zenon
    <2>6. U = r.payload /\ U \in PayloadTypes(reg)
      BY Zenon, <2>1, <2>2, <2>4, <2>5 DEF GetReplyPayloadFor, PayloadTypes
    <2>7. PICK e \in ToSet(reg) : e = FindMessageDef(reg, U) /\ e.payload = U
      BY Zenon, <1>1, <2>6, FoundPayload
    <2>8. e = r
      <3>1. PICK j \in 1 .. Len(reg) : e = reg[j]
        BY Zenon, <1>1, <2>7, Elements
      <3>2. PICK k \in 1 .. Len(reg) : r = reg[k]
        <4>1. r \in ToSet(reg)
          BY Zenon, <2>2, <2>4
        <4> QED BY Zenon, <1>1, <4>1, Elements
      <3>3. DOMAIN reg = 1 .. Len(reg)
        BY <1>1
      <3>4. \A x, y \in 1 .. Len(reg) : reg[x].payload = reg[y].payload => x = y
        BY Zenon, <1>4, <3>3 DEF IsInjective
      <3> QED BY Zenon, <2>6, <2>7, <3>1, <3>2, <3>4
    <2>9. PICK i \in 1 .. 2^16 - 1 : i = d.local_id
      BY Zenon, <1>1 DEF Numbered
    <2>10. (2^16 - i) % 2^16 = 2^16 - i /\ (2^16 - i) + i = 2^16
      OBVIOUS
    <2>11. e.local_id + d.local_id = 2^16
      BY Zenon, <2>4, <2>8, <2>9, <2>10
    <2> QED BY Zenon, <2>1, <2>5, <2>6, <2>7, <2>11
  <1> QED BY Zenon, <1>2, <1>3, <1>4
=============================================================================
