-------------------------- MODULE EvlMailboxProofs --------------------------
(***************************************************************************)
(* Proofs about the process-local registry of EvlMailbox, for every set of *)
(* mailboxes and processes, every size of the table and every hash         *)
(* function, and about its remote handles.  An entry of the registry,      *)
(* tombstones included, is where the probes for its id first stop; a       *)
(* segment is followed from the shared-memory name through open_remote()   *)
(* into the cache of handles.  Then about its messages: they reach the     *)
(* mailbox they are for, are put where it reads them, and do not outlive   *)
(* its shutdown(); and TypeOK.                                             *)
(***************************************************************************)
EXTENDS EvlMailbox, FiniteSetTheorems, WellFoundedInduction, TLAPS

-----------------------------------------------------------------------------
(* The probe sequence                                                      *)

\* The probes for an id stay within the table and reach every bucket.
LEMMA ProbeRange ==
  ASSUME NEW i \in Id
  PROVE /\ \A n \in Bucket : Probe(i, n) \in Bucket
        /\ \A k \in Bucket : \E n \in Bucket : k = Probe(i, n)
  <1> DEFINE h == registry_hash[i]
  <1>1. kRegistryCapacity \in Nat \ {0} /\ h \in Bucket
    BY Zenon, EvlMailboxAssumption
  <1>2. h \in 0 .. kRegistryCapacity - 1
    BY Zenon, <1>1 DEF Bucket
  <1> HIDE DEF h
  <1>3. ASSUME NEW n \in Bucket PROVE Probe(i, n) \in Bucket
    BY <1>1, <1>2 DEF Bucket, Probe, h
  <1>4. ASSUME NEW k \in Bucket PROVE \E n \in Bucket : k = Probe(i, n)
    <2> DEFINE n == IF h <= k THEN k - h ELSE k - h + kRegistryCapacity
    <2>1. n \in Bucket
      BY <1>1, <1>2 DEF Bucket
    <2>2. k = Probe(i, n)
      BY <1>1, <1>2 DEF Bucket, Probe, h
    <2> QED BY Zenon, <2>1, <2>2
  <1> QED BY Zenon, <1>3, <1>4

\* The loop of find, insert and remove stops at one place at most.
LEMMA StopUnique ==
  ASSUME NEW t, NEW i, NEW n \in Bucket, NEW m \in Bucket, Stop(t, i, n), Stop(t, i, m)
  PROVE n = m
  <1>1. n \in Nat /\ m \in Nat
    BY DEF Bucket
  <1>2. ~(n < m)
    BY <1>1 DEF Stop
  <1>3. ~(m < n)
    BY <1>1 DEF Stop
  <1> QED BY <1>1, <1>2, <1>3

\* A set of probes that is not empty has a first one.
LEMMA FirstProbe ==
  ASSUME NEW S, S \subseteq Bucket, S # {}
  PROVE \E n \in S : \A j \in 0 .. n - 1 : j \notin S
  <1>1. S \subseteq Nat
    BY DEF Bucket
  <1>2. PICK n \in S : \A j \in S : ~ (<<j, n>> \in OpToRel(<, Nat))
    BY Zenon, <1>1, NatLessThanWellFounded, WFMin
  <1>3. ASSUME NEW j \in 0 .. n - 1, j \in S PROVE FALSE
    <2>1. j \in Nat /\ n \in Nat /\ j < n
      BY <1>1
    <2>2. <<j, n>> \in OpToRel(<, Nat)
      BY Zenon, <2>1 DEF OpToRel
    <2> QED BY Zenon, <2>2, <1>2, <1>3
  <1> QED BY Zenon, <1>3

-----------------------------------------------------------------------------
(* The table                                                               *)

Entry == [id : Id \cup {0}, ptr : Box \cup {None}]
TableOK(t) ==
  /\ t \in [Bucket -> Entry]
  /\ \A k \in Bucket : t[k].id = 0 => t[k].ptr = None
  /\ \A k \in Bucket : t[k].id # 0 => \E n \in Bucket : Stop(t, t[k].id, n) /\ k = Probe(t[k].id, n)

\* An id is in one bucket at most.
LEMMA IdOnce ==
  ASSUME NEW t, TableOK(t), NEW j \in Bucket, NEW k \in Bucket, t[j].id = t[k].id, t[k].id # 0
  PROVE j = k
  <1>1. PICK n \in Bucket : Stop(t, t[k].id, n) /\ j = Probe(t[k].id, n)
    BY Zenon DEF TableOK
  <1>2. PICK m \in Bucket : Stop(t, t[k].id, m) /\ k = Probe(t[k].id, m)
    BY Zenon DEF TableOK
  <1>3. n = m
    BY Zenon, <1>1, <1>2, StopUnique
  <1> QED BY Zenon, <1>1, <1>2, <1>3

\* registry_find() meets the place where the probes stop.
LEMMA FindAtStop ==
  ASSUME NEW t, NEW i \in Id, NEW n \in Bucket, Stop(t, i, n)
  PROVE registry_find(t, i) = t[Probe(i, n)].ptr
  <1> DEFINE c == CHOOSE m \in Bucket : Stop(t, i, m)
  <1>1. c \in Bucket /\ Stop(t, i, c)
    BY Zenon
  <1>2. c = n
    BY Zenon, <1>1, StopUnique
  <1>3. registry_find(t, i) = t[Probe(i, c)].ptr
    BY Zenon DEF registry_find
  <1> QED BY Zenon, <1>2, <1>3

\* registry_find() gives the pointer stored with the id, whatever else is in the
\* table, and nothing for an id that is not there.
LEMMA FindIs ==
  ASSUME NEW t, TableOK(t), NEW i \in Id
  PROVE /\ \A k \in Bucket : t[k].id = i => registry_find(t, i) = t[k].ptr
        /\ (\A k \in Bucket : t[k].id # i) => registry_find(t, i) = None
  <1>0. i # 0
    BY Zenon, EvlMailboxAssumption
  <1>1. ASSUME NEW k \in Bucket, t[k].id = i PROVE registry_find(t, i) = t[k].ptr
    <2>1. PICK n \in Bucket : Stop(t, i, n) /\ k = Probe(i, n)
      BY Zenon, <1>0, <1>1 DEF TableOK
    <2> QED BY Zenon, <2>1, FindAtStop
  <1>2. ASSUME \A k \in Bucket : t[k].id # i PROVE registry_find(t, i) = None
    <2>1. CASE \E n \in Bucket : Stop(t, i, n)
      <3>1. PICK n \in Bucket : Stop(t, i, n)
        BY Zenon, <2>1
      <3>2. Probe(i, n) \in Bucket
        BY Zenon, ProbeRange
      <3>3. t[Probe(i, n)].id = 0
        BY Zenon, <3>1, <3>2, <1>2 DEF Stop
      <3>4. t[Probe(i, n)].ptr = None
        BY Zenon, <3>2, <3>3 DEF TableOK
      <3> QED BY Zenon, <3>1, <3>4, FindAtStop
    <2>2. CASE ~\E n \in Bucket : Stop(t, i, n)
      BY Zenon, <2>2 DEF registry_find
    <2> QED BY Zenon, <2>1, <2>2
  <1> QED BY Zenon, <1>1, <1>2

\* As long as there are no more ids than buckets, the probes for an id stop: the
\* table is full of other ids only when it has more of them than there are.
LEMMA ProbesStop ==
  ASSUME NEW t, TableOK(t), NEW i \in Id, Cardinality(Id) <= kRegistryCapacity
  PROVE \E n \in Bucket : Stop(t, i, n)
  <1> SUFFICES ASSUME ~\E n \in Bucket : Stop(t, i, n) PROVE FALSE
    BY Zenon
  <1> DEFINE S == {n \in Bucket : t[Probe(i, n)].id \in {0, i}}
             f == [k \in Bucket |-> t[k].id]
  <1>1. S = {}
    <2> SUFFICES ASSUME S # {} PROVE FALSE
      BY Zenon
    <2>1. PICK n \in S : \A j \in 0 .. n - 1 : j \notin S
      BY Zenon, FirstProbe
    <2>2. \A j \in 0 .. n - 1 : j \in Bucket
      BY <2>1, EvlMailboxAssumption DEF Bucket
    <2>3. Stop(t, i, n)
      BY Zenon, <2>1, <2>2 DEF Stop
    <2> QED BY Zenon, <2>1, <2>3
  <1>2. \A k \in Bucket : t[k].id \notin {0, i}
    BY Zenon, <1>1, ProbeRange
  <1>3. f \in [Bucket -> Id \ {i}]
    BY Zenon, <1>2 DEF TableOK, Entry
  <1>4. IsFiniteSet(Bucket) /\ Cardinality(Bucket) = kRegistryCapacity
    <2>1. kRegistryCapacity \in Nat \ {0} /\ kRegistryCapacity - 1 \in Int /\ 0 \in Int
      BY EvlMailboxAssumption
    <2>2. /\ IsFiniteSet(0 .. kRegistryCapacity - 1)
          /\ Cardinality(0 .. kRegistryCapacity - 1)
               = IF 0 > kRegistryCapacity - 1 THEN 0 ELSE kRegistryCapacity - 1 - 0 + 1
      BY Zenon, <2>1, FS_Interval
    <2> QED BY <2>1, <2>2 DEF Bucket
  <1>5. IsFiniteSet(Id \ {i}) /\ Cardinality(Id \ {i}) < Cardinality(Bucket)
    <2>1. IsFiniteSet(Id) /\ Cardinality(Id) \in Nat
      BY Zenon, EvlMailboxAssumption, FS_CardinalityType
    <2>2. IsFiniteSet(Id \ {i}) /\ Cardinality(Id \ {i}) = Cardinality(Id) - 1
      BY Zenon, <2>1, FS_RemoveElement
    <2> QED BY <2>1, <2>2, <1>4, EvlMailboxAssumption
  <1> HIDE DEF f
  <1>6. PICK j \in Bucket, k \in Bucket : j # k /\ f[j] = f[k]
    BY Zenon, <1>3, <1>4, <1>5, FS_PigeonHole
  <1>7. t[j].id = t[k].id
    BY Zenon, <1>6 DEF f
  <1> QED BY Zenon, <1>2, <1>6, <1>7, IdOnce

\* registry_insert() writes the bucket where the probes stop.
LEMMA InsertWrites ==
  ASSUME NEW t \in [Bucket -> Entry], NEW i \in Id, NEW b \in Box, NEW n \in Bucket, Stop(t, i, n)
  PROVE registry_insert(t, i, b) = [t EXCEPT ![Probe(i, n)] = [id |-> i, ptr |-> b]]
  <1>1. \A m \in Bucket : Stop(t, i, m) => m = n
    BY Zenon, StopUnique
  <1> DEFINE e == [id |-> i, ptr |-> b]
  <1>2. registry_insert(t, i, b) = [k \in Bucket |-> IF k = Probe(i, n) THEN e ELSE t[k]]
    BY Zenon, <1>1 DEF registry_insert
  <1>3. [t EXCEPT ![Probe(i, n)] = e] = [k \in Bucket |-> IF k = Probe(i, n) THEN e ELSE t[k]]
    BY Zenon
  <1> QED BY Zenon, <1>2, <1>3

\* It keeps the table in order, puts the mailbox where registry_find() will find
\* it, and changes what is found for no other id.
LEMMA InsertOK ==
  ASSUME NEW t, TableOK(t), NEW i \in Id, NEW b \in Box, Cardinality(Id) <= kRegistryCapacity
  PROVE LET u == registry_insert(t, i, b) IN
        /\ TableOK(u)
        /\ registry_find(u, i) = b
        /\ \A j \in Id \ {i} : registry_find(u, j) = registry_find(t, j)
  <1> DEFINE u == registry_insert(t, i, b)
  <1>1. PICK n \in Bucket : Stop(t, i, n)
    BY Zenon, ProbesStop
  <1> DEFINE e == Probe(i, n)
  <1>2. e \in Bucket /\ t[e].id \in {0, i} /\ i # 0
    BY Zenon, <1>1, ProbeRange, EvlMailboxAssumption DEF Stop
  <1>3. u = [t EXCEPT ![e] = [id |-> i, ptr |-> b]]
    BY <1>1, InsertWrites DEF TableOK
  <1>4. /\ u \in [Bucket -> Entry]
        /\ u[e].id = i /\ u[e].ptr = b
        /\ \A k \in Bucket \ {e} : u[k] = t[k]
    BY <1>2, <1>3 DEF TableOK, Entry
  <1>5. \A q \in Id, m \in Bucket : \A j \in 0 .. m - 1 : Probe(q, j) \in Bucket
    <2> SUFFICES ASSUME NEW q \in Id, NEW m \in Bucket, NEW j \in 0 .. m - 1 PROVE Probe(q, j) \in Bucket
      BY Zenon
    <2>1. j \in Bucket
      BY EvlMailboxAssumption DEF Bucket
    <2> QED BY Zenon, <2>1, ProbeRange
  <1> HIDE DEF u, e
  <1>6. ASSUME NEW k \in Bucket, u[k].id # 0
        PROVE \E m \in Bucket : Stop(u, u[k].id, m) /\ k = Probe(u[k].id, m)
    <2>1. CASE k = e
      <3>1. ASSUME NEW j \in 0 .. n - 1 PROVE u[Probe(i, j)].id \notin {0, i}
        <4>1. Probe(i, j) \in Bucket /\ t[Probe(i, j)].id \notin {0, i}
          BY Zenon, <1>1, <1>5 DEF Stop
        <4> QED BY Zenon, <4>1, <1>2, <1>4
      <3>2. Stop(u, i, n)
        BY Zenon, <3>1, <1>4 DEF Stop, e
      <3> QED BY Zenon, <3>2, <2>1, <1>4 DEF e
    <2>2. CASE k # e
      <3> DEFINE q == t[k].id
      <3>1. u[k] = t[k] /\ q # 0 /\ q \in Id
        BY Zenon, <2>2, <1>4, <1>6 DEF TableOK, Entry
      <3>2. PICK m \in Bucket : Stop(t, q, m) /\ k = Probe(q, m)
        BY Zenon, <3>1 DEF TableOK
      <3> HIDE DEF q
      <3>3. ASSUME NEW j \in 0 .. m - 1 PROVE u[Probe(q, j)].id \notin {0, q}
        <4>1. Probe(q, j) \in Bucket /\ t[Probe(q, j)].id \notin {0, q}
          BY Zenon, <3>1, <3>2, <1>5 DEF Stop
        <4> QED BY Zenon, <4>1, <1>2, <1>4
      <3>4. Stop(u, q, m)
        BY Zenon, <3>1, <3>2, <3>3 DEF Stop, q
      <3> QED BY Zenon, <3>1, <3>2, <3>4 DEF q
    <2> QED BY Zenon, <2>1, <2>2
  <1>7. TableOK(u)
    <2>1. \A k \in Bucket : u[k].id = 0 => u[k].ptr = None
      BY Zenon, <1>2, <1>4 DEF TableOK
    <2> QED BY Zenon, <2>1, <1>4, <1>6 DEF TableOK
  <1>8. registry_find(u, i) = b
    BY Zenon, <1>2, <1>4, <1>7, FindIs
  <1>9. ASSUME NEW j \in Id \ {i} PROVE registry_find(u, j) = registry_find(t, j)
    <2>0. j \in Id /\ j # i /\ j # 0
      BY Zenon, EvlMailboxAssumption
    <2>1. CASE \E k \in Bucket : t[k].id = j
      <3>1. PICK k \in Bucket : t[k].id = j
        BY Zenon, <2>1
      <3>2. u[k] = t[k]
        BY Zenon, <3>1, <2>0, <1>2, <1>4
      <3> QED BY <3>1, <3>2, <2>0, <1>7, FindIs
    <2>2. CASE \A k \in Bucket : t[k].id # j
      <3>1. \A k \in Bucket : u[k].id # j
        BY Zenon, <2>0, <2>2, <1>4
      <3> QED BY <3>1, <2>0, <2>2, <1>7, FindIs
    <2> QED BY Zenon, <2>1, <2>2
  <1> QED BY Zenon, <1>7, <1>8, <1>9 DEF u

\* registry_remove() leaves a tombstone: nothing is found for the id, and what
\* is found for the others is unchanged.
LEMMA RemoveOK ==
  ASSUME NEW t, TableOK(t), NEW i \in Id
  PROVE LET u == registry_remove(t, i) IN
        /\ TableOK(u)
        /\ registry_find(u, i) = None
        /\ \A j \in Id \ {i} : registry_find(u, j) = registry_find(t, j)
  <1> DEFINE u == registry_remove(t, i)
  <1>0. i # 0
    BY Zenon, EvlMailboxAssumption
  <1>1. /\ u \in [Bucket -> Entry]
        /\ \A k \in Bucket : u[k].id = t[k].id /\ (t[k].id # i => u[k] = t[k])
    BY Zenon DEF registry_remove, TableOK, Entry
  <1>2. \A k \in Bucket : t[k].id = i => u[k].ptr = None
    <2> SUFFICES ASSUME NEW k \in Bucket, t[k].id = i PROVE u[k].ptr = None
      BY Zenon
    <2>1. \E n \in Bucket : Stop(t, i, n) /\ k = Probe(i, n)
      BY Zenon, <1>0 DEF TableOK
    <2> QED BY Zenon, <2>1 DEF registry_remove
  <1> HIDE DEF u
  <1>3. ASSUME NEW q \in Id, NEW m \in Bucket, Stop(t, q, m) PROVE Stop(u, q, m)
    <2>1. ASSUME NEW j \in 0 .. m - 1 PROVE Probe(q, j) \in Bucket
      <3>1. j \in Bucket
        BY EvlMailboxAssumption DEF Bucket
      <3> QED BY Zenon, <3>1, ProbeRange
    <2>2. Probe(q, m) \in Bucket
      BY Zenon, ProbeRange
    <2> QED BY Zenon, <2>1, <2>2, <1>1, <1>3 DEF Stop
  <1>4. TableOK(u)
    <2>1. ASSUME NEW k \in Bucket, u[k].id = 0 PROVE u[k].ptr = None
      BY Zenon, <2>1, <1>0, <1>1 DEF TableOK
    <2>2. ASSUME NEW k \in Bucket, u[k].id # 0
          PROVE \E n \in Bucket : Stop(u, u[k].id, n) /\ k = Probe(u[k].id, n)
      <3>1. t[k].id \in Id /\ u[k].id = t[k].id
        BY Zenon, <2>2, <1>1 DEF TableOK, Entry
      <3> QED BY Zenon, <3>1, <2>2, <1>3 DEF TableOK
    <2> QED BY Zenon, <2>1, <2>2, <1>1 DEF TableOK
  <1>5. registry_find(u, i) = None
    BY Zenon, <1>1, <1>2, <1>4, FindIs
  <1>6. ASSUME NEW j \in Id \ {i} PROVE registry_find(u, j) = registry_find(t, j)
    <2>1. CASE \E k \in Bucket : t[k].id = j
      <3>1. PICK k \in Bucket : t[k].id = j
        BY Zenon, <2>1
      <3>2. u[k] = t[k] /\ u[k].id = j /\ j \in Id
        BY Zenon, <3>1, <1>1
      <3>3. registry_find(t, j) = t[k].ptr /\ registry_find(u, j) = u[k].ptr
        BY Zenon, <3>1, <3>2, <1>4, FindIs
      <3> QED BY Zenon, <3>2, <3>3
    <2>2. CASE \A k \in Bucket : t[k].id # j
      BY <2>2, <1>1, <1>4, FindIs
    <2> QED BY Zenon, <2>1, <2>2
  <1> QED BY Zenon, <1>4, <1>5, <1>6 DEF u

-----------------------------------------------------------------------------
(* FindsLatest                                                             *)

RegInv ==
  /\ used \in Deployment /\ created \subseteq Box
  /\ tbl \in [Proc -> [Bucket -> Entry]] /\ latest \in [Proc -> [Id -> Box \cup {None}]]
  /\ \A p \in Proc : TableOK(tbl[p])
  /\ \A p \in Proc, i \in Id : registry_find(tbl[p], i) = latest[p][i]
  /\ \A p \in Proc, i \in Id :
       LET l == latest[p][i] IN
       l # None => l \in created /\ IdOf[l] = i /\ ProcOf[l] = p /\ ModeOf[l] = "Local"

\* The registry of a process that starts is empty.
LEMMA EmptyTable ==
  ASSUME NEW t, t = [k \in Bucket |-> NoEntry]
  PROVE /\ t \in [Bucket -> Entry] /\ TableOK(t)
        /\ \A i \in Id : registry_find(t, i) = None
  <1>1. t \in [Bucket -> Entry] /\ \A k \in Bucket : t[k].id = 0 /\ t[k].ptr = None
    BY Zenon DEF NoEntry, Entry
  <1>2. TableOK(t)
    BY Zenon, <1>1 DEF TableOK
  <1>3. \A i \in Id : \A k \in Bucket : t[k].id # i
    BY Zenon, <1>1, EvlMailboxAssumption
  <1> QED BY Zenon, <1>1, <1>2, <1>3, FindIs

LEMMA RegInit == Init => RegInv
  <1> SUFFICES ASSUME Init PROVE RegInv
    BY Zenon
  <1>1. \A p \in Proc : tbl[p] = [k \in Bucket |-> NoEntry]
    BY Zenon DEF Init
  <1>2. \A p \in Proc : /\ tbl[p] \in [Bucket -> Entry] /\ TableOK(tbl[p])
                        /\ \A i \in Id : registry_find(tbl[p], i) = None
    BY Zenon, <1>1, EmptyTable
  <1>3. tbl \in [Proc -> [Bucket -> Entry]]
    BY Zenon, <1>2 DEF Init
  <1>4. latest \in [Proc -> [Id -> Box \cup {None}]] /\ \A p \in Proc, i \in Id : latest[p][i] = None
    BY Zenon DEF Init
  <1> QED BY Zenon, <1>2, <1>3, <1>4 DEF RegInv, Init

\* A step that leaves the registries alone and ends no mailbox.
LEMMA RegQuiet ==
  ASSUME RegInv, UNCHANGED <<tbl, latest, used>>, created \subseteq created', created' \subseteq Box
  PROVE RegInv'
  BY DEF RegInv

LEMMA RegInitLocal ==
  ASSUME RegInv, NEW b \in Box, InitLocal(b), Cardinality(Id) <= kRegistryCapacity
  PROVE RegInv'
  <1> DEFINE q == ProcOf[b]
             i == IdOf[b]
             u == registry_insert(tbl[q], i, b)
  <1>1. q \in Proc /\ i \in Id /\ TableOK(tbl[q]) /\ ModeOf[b] = "Local"
    BY EvlMailboxAssumption DEF RegInv, InitLocal, Start
  <1>2. /\ TableOK(u) /\ registry_find(u, i) = b
        /\ \A j \in Id \ {i} : registry_find(u, j) = registry_find(tbl[q], j)
    BY SMTT(30), <1>1, InsertOK
  <1>3. /\ tbl' = [tbl EXCEPT ![q] = u] /\ latest' = [latest EXCEPT ![q][i] = b]
        /\ created' = created \cup {b} /\ used' = used
    BY Zenon DEF InitLocal, Start
  <1>4. u \in [Bucket -> Entry]
    BY Zenon, <1>2 DEF TableOK
  <1>5. b # None
    BY Zenon, EvlMailboxAssumption
  <1> HIDE DEF u, q, i
  <1>6. tbl' \in [Proc -> [Bucket -> Entry]] /\ latest' \in [Proc -> [Id -> Box \cup {None}]]
    BY Zenon, <1>1, <1>3, <1>4 DEF RegInv
  <1>7. \A p \in Proc : tbl'[p] = IF p = q THEN u ELSE tbl[p]
    BY Zenon, <1>3 DEF RegInv
  <1>8. \A p \in Proc, j \in Id : latest'[p][j] = IF p = q /\ j = i THEN b ELSE latest[p][j]
    BY <1>3 DEF RegInv
  <1>9. \A p \in Proc : TableOK(tbl'[p])
    BY Zenon, <1>2, <1>7 DEF RegInv
  <1>10. \A p \in Proc, j \in Id : registry_find(tbl'[p], j) = latest'[p][j]
    BY SMTT(30), <1>1, <1>2, <1>7, <1>8 DEF RegInv
  <1>11. \A p \in Proc, j \in Id :
           LET l == latest'[p][j] IN
           l # None => l \in created' /\ IdOf[l] = j /\ ProcOf[l] = p /\ ModeOf[l] = "Local"
    BY SMTT(30), <1>1, <1>3, <1>8 DEF RegInv, q, i
  <1> QED BY Zenon, <1>3, <1>6, <1>9, <1>10, <1>11 DEF RegInv

LEMMA RegShutdown ==
  ASSUME RegInv, NEW b \in Box, Shutdown(b)
  PROVE RegInv'
  <1> DEFINE q == ProcOf[b]
             i == IdOf[b]
             u == registry_remove(tbl[q], i)
  <1>1. q \in Proc /\ i \in Id /\ TableOK(tbl[q]) /\ created' = created \ {b} /\ used' = used
    BY SMTT(30), EvlMailboxAssumption DEF RegInv, Shutdown, deployVars
  <1>2. /\ TableOK(u) /\ registry_find(u, i) = None
        /\ \A j \in Id \ {i} : registry_find(u, j) = registry_find(tbl[q], j)
    BY Zenon, <1>1, RemoveOK
  <1>3. CASE ModeOf[b] = "Local" /\ registry_find(tbl[q], i) = b
    <2>1. tbl' = [tbl EXCEPT ![q] = u] /\ latest' = [latest EXCEPT ![q][i] = None]
      BY Zenon, <1>3 DEF Shutdown, Unregister
    <2>2. u \in [Bucket -> Entry]
      BY Zenon, <1>2 DEF TableOK
    <2>3. \A p \in Proc, j \in Id : latest[p][j] = b => p = q /\ j = i
      BY EvlMailboxAssumption DEF RegInv
    <2> HIDE DEF u, q, i
    <2>4. tbl' \in [Proc -> [Bucket -> Entry]] /\ latest' \in [Proc -> [Id -> Box \cup {None}]]
      BY Zenon, <2>1, <2>2, <1>1 DEF RegInv
    <2>5. \A p \in Proc : tbl'[p] = IF p = q THEN u ELSE tbl[p]
      BY Zenon, <2>1 DEF RegInv
    <2>6. \A p \in Proc, j \in Id : latest'[p][j] = IF p = q /\ j = i THEN None ELSE latest[p][j]
      BY <2>1 DEF RegInv
    <2>7. \A p \in Proc : TableOK(tbl'[p])
      BY Zenon, <1>2, <2>5 DEF RegInv
    <2>8. \A p \in Proc, j \in Id : registry_find(tbl'[p], j) = latest'[p][j]
      BY <1>1, <1>2, <2>5, <2>6 DEF RegInv
    <2>9. \A p \in Proc, j \in Id :
             LET l == latest'[p][j] IN
             l # None => l \in created' /\ IdOf[l] = j /\ ProcOf[l] = p /\ ModeOf[l] = "Local"
      BY SMTT(30), <1>1, <2>3, <2>6 DEF RegInv
    <2> QED BY Zenon, <1>1, <2>4, <2>7, <2>8, <2>9 DEF RegInv
  <1>4. CASE ~(ModeOf[b] = "Local" /\ registry_find(tbl[q], i) = b)
    <2>1. UNCHANGED <<tbl, latest>>
      BY Zenon, <1>4 DEF Shutdown, Unregister, tableVars
    <2>2. \A p \in Proc, j \in Id : latest[p][j] # b
      BY <1>4, <1>1, EvlMailboxAssumption DEF RegInv
    <2> QED BY SMTT(30), <1>1, <2>1, <2>2 DEF RegInv
  <1> QED BY Zenon, <1>3, <1>4

LEMMA RegCrash ==
  ASSUME RegInv, NEW q \in Proc, Crash(q)
  PROVE RegInv'
  <1> DEFINE u == [k \in Bucket |-> NoEntry]
             e == [i \in Id |-> None]
  <1>1. /\ tbl' = [tbl EXCEPT ![q] = u] /\ latest' = [latest EXCEPT ![q] = e]
        /\ created' = created \ {b \in Box : ProcOf[b] = q} /\ used' = used
    BY Zenon DEF Crash, deployVars
  <1>2. /\ u \in [Bucket -> Entry] /\ TableOK(u)
        /\ \A i \in Id : registry_find(u, i) = None
    BY Zenon, EmptyTable
  <1>3. e \in [Id -> Box \cup {None}] /\ \A i \in Id : e[i] = None
    BY Zenon
  <1> HIDE DEF u, e
  <1>4. tbl' \in [Proc -> [Bucket -> Entry]] /\ latest' \in [Proc -> [Id -> Box \cup {None}]]
    BY Zenon, <1>1, <1>2, <1>3 DEF RegInv
  <1>5. \A p \in Proc : /\ tbl'[p] = IF p = q THEN u ELSE tbl[p]
                        /\ latest'[p] = IF p = q THEN e ELSE latest[p]
    BY <1>1 DEF RegInv
  <1>6. \A p \in Proc : TableOK(tbl'[p])
    BY Zenon, <1>2, <1>5 DEF RegInv
  <1>7. \A p \in Proc, i \in Id : registry_find(tbl'[p], i) = latest'[p][i]
    BY <1>2, <1>3, <1>5 DEF RegInv
  <1>8. \A p \in Proc, j \in Id :
          LET l == latest'[p][j] IN
          l # None => l \in created' /\ IdOf[l] = j /\ ProcOf[l] = p /\ ModeOf[l] = "Local"
    BY SMTT(30), <1>1, <1>3, <1>5 DEF RegInv
  <1> QED BY Zenon, <1>1, <1>4, <1>6, <1>7, <1>8 DEF RegInv

LEMMA RegNext ==
  ASSUME RegInv, [Next]_vars, Cardinality(Id) <= kRegistryCapacity
  PROVE RegInv'
  <1>1. ASSUME NEW b \in used.boxes, BoxStep(b) PROVE RegInv'
    <2>0. b \in Box /\ created \subseteq Box
      BY <1>1, EvlMailboxAssumption DEF RegInv
    <2>1. CASE InitLocal(b)
      BY Zenon, <2>0, <2>1, RegInitLocal
    <2>2. CASE Shutdown(b)
      BY Zenon, <2>0, <2>2, RegShutdown
    <2>3. CASE InitXbuf(b)
      BY Zenon, <2>0, <2>3, RegQuiet DEF InitXbuf, tableVars, deployVars
    <2>4. CASE InitNetwork(b)
      BY Zenon, <2>0, <2>4, RegQuiet DEF InitNetwork, Start, tableVars, deployVars
    <2>5. CASE \/ InitAllocate(b) \/ InitHeader(b) \/ InitObjects(b) \/ OpenRemote(b)
               \/ ReceiveRing(b) \/ ReceiveNetwork(b) \/ ReceiveXbuf(b)
      <3>1. UNCHANGED <<tbl, latest, used, created>>
        BY Zenon, <2>5 DEF InitAllocate, Start, InitHeader, InitObjects, OpenRemote, ReceiveRing,
                    ReceiveNetwork, ReceiveXbuf, tableVars, deployVars
      <3> QED BY Zenon, <3>1, <2>0, RegQuiet
    <2> QED BY Zenon, <1>1, <2>1, <2>2, <2>3, <2>4, <2>5 DEF BoxStep
  <1>2. ASSUME NEW b \in used.boxes, NEW m \in used.msgs, Send(b, m) PROVE RegInv'
    <2>1. UNCHANGED <<tbl, latest, used, created>>
      BY Zenon, <1>2 DEF Send, SendLocal, SendCached, SendOpen, SendNetwork, RouterWrites, tableVars, deployVars
    <2> QED BY Zenon, <2>1, RegQuiet DEF RegInv
  <1>3. ASSUME NEW p \in Proc, Crash(p) PROVE RegInv'
    BY Zenon, <1>3, RegCrash
  <1>4. CASE UNCHANGED vars
    BY Zenon, <1>4, RegQuiet DEF RegInv, vars, tableVars, deployVars
  <1> QED BY Zenon, <1>1, <1>2, <1>3, <1>4 DEF Next

\* registry_find() gives the Local mailbox that registered an id last, for any
\* number of mailboxes and processes that come, go and crash in any order, any
\* hash function and any size of the table that is not less than the number of ids.
THEOREM MailboxFindsLatest == Spec => []FindsLatest
  <1>1. CASE Cardinality(Id) <= kRegistryCapacity
    <2>1. Init => RegInv
      BY Zenon, RegInit
    <2>2. RegInv /\ [Next]_vars => RegInv'
      BY Zenon, <1>1, RegNext
    <2>3. RegInv => FindsLatest
      <3> SUFFICES ASSUME RegInv, NEW p \in Proc, NEW i \in Id
                   PROVE /\ registry_find(tbl[p], i) = latest[p][i]
                         /\ latest[p][i] # None =>
                              /\ latest[p][i] \in created
                              /\ IdOf[latest[p][i]] = i /\ ProcOf[latest[p][i]] = p
        BY DEF FindsLatest
      <3>1. registry_find(tbl[p], i) = latest[p][i]
        BY Zenon DEF RegInv
      <3>2. latest[p][i] # None =>
              latest[p][i] \in created /\ IdOf[latest[p][i]] = i /\ ProcOf[latest[p][i]] = p
        BY DEF RegInv
      <3> QED BY Zenon, <3>1, <3>2
    <2> QED BY <2>1, <2>2, <2>3, PTL DEF Spec
  <1>2. CASE ~(Cardinality(Id) <= kRegistryCapacity)
    <2>1. FindsLatest
      BY Zenon, <1>2 DEF FindsLatest
    <2> QED BY <2>1, PTL
  <1> QED BY Zenon, <1>1, <1>2

-----------------------------------------------------------------------------
(* HandlesCurrent                                                          *)

Handle == [dest : Id, seg : Segment, whole : BOOLEAN]
Ready(d) == d \in created \/ stage[d] = "objects"
Published(d, i) == ModeOf[d] = "Public" /\ IdOf[d] = i

HandleTypes ==
  /\ used \in Deployment /\ created \subseteq Box
  /\ stage \in [Box -> {"off", "allocated", "header", "objects"}]
  /\ linked \in [Id -> Segment \cup {None}] /\ base \in [Box -> Segment \cup {None}]
  /\ handles \in [Box -> [Slot -> Handle \cup {None}]]
  /\ opening = [b \in Box |-> opening[b]]
  /\ \A b \in Box : opening[b] # None =>
       opening[b].seg \in Segment /\ opening[b].whole \in BOOLEAN /\ opening[b].msg \in Msg
\* A mailbox that starts or lives is the one its shared-memory name leads to
Rings ==
  \A d \in Box :
    /\ stage[d] # "off" => d \notin created /\ ModeOf[d] = "Public"
    /\ ModeOf[d] = "Public" /\ (d \in created \/ stage[d] # "off") =>
         base[d] \in Segment /\ base[d] = linked[IdOf[d]]
    /\ ModeOf[d] = "Public" /\ (d \in created \/ stage[d] \in {"header", "objects"}) =>
         base[d] \in header
\* What is being opened leads to the mailbox, should it live
OpeningCurrent ==
  \A b \in Box : opening[b] # None =>
    LET o == opening[b] IN
    /\ HandleOf(b, Dest[o.msg]) = {}
    /\ \A d \in Box : Published(d, Dest[o.msg]) =>
         stage[d] = "off" /\ (d \in created => o.whole /\ o.seg = base[d])
\* A handle leads to its mailbox from the moment the names of that are taken
HandleLeads ==
  \A b \in Box, s \in Slot : handles[b][s] # None =>
    /\ \A r \in Slot : handles[b][r] # None /\ handles[b][r].dest = handles[b][s].dest => r = s
    /\ \A d \in Box : Published(d, handles[b][s].dest) /\ Ready(d) =>
         handles[b][s].whole /\ handles[b][s].seg = base[d]
HandleInv == HandleTypes /\ Rings /\ OpeningCurrent /\ HandleLeads

LEMMA HandleInit == Init => HandleInv
  <1> SUFFICES ASSUME Init PROVE HandleInv
    BY Zenon
  <1>1. /\ created = {} /\ used \in Deployment
        /\ \A b \in Box : opening[b] = None /\ stage[b] = "off" /\ \A s \in Slot : handles[b][s] = None
    BY Zenon DEF Init
  <1>2. HandleTypes
    BY Zenon, <1>1 DEF Init, HandleTypes
  <1>3. Rings
    BY Zenon, <1>1 DEF Rings
  <1>4. OpeningCurrent /\ HandleLeads
    BY Zenon, <1>1 DEF OpeningCurrent, HandleLeads
  <1> QED BY Zenon, <1>2, <1>3, <1>4 DEF HandleInv

\* A step that ends no Public mailbox, starts none, and opens and drops no handle.
LEMMA HandleQuiet ==
  ASSUME HandleInv, UNCHANGED <<used, stage, linked, header, base, handles, opening>>,
         created' \subseteq Box, \A d \in Box : ModeOf[d] = "Public" => (d \in created' <=> d \in created),
         \A d \in created' \ created : stage[d] = "off"
  PROVE HandleInv'
  <1>1. HandleTypes'
    BY Zenon DEF HandleInv, HandleTypes
  <1>2. Rings'
    BY Zenon DEF HandleInv, Rings, HandleTypes
  <1>3. OpeningCurrent'
    BY Zenon DEF HandleInv, OpeningCurrent, HandleOf, Published
  <1>4. HandleLeads'
    BY DEF HandleInv, HandleLeads, Published, Ready
  <1> QED BY Zenon, <1>1, <1>2, <1>3, <1>4 DEF HandleInv

LEMMA HandleAllocate ==
  ASSUME HandleInv, ~Racing, NEW b \in Box, InitAllocate(b)
  PROVE HandleInv'
  <1> DEFINE i == IdOf[b]
  <1>1. PICK g : /\ linked' = [linked EXCEPT ![i] = g] /\ base' = [base EXCEPT ![b] = g]
                 /\ linked[i] # None => g = linked[i] /\ header' = header
                 /\ linked[i] = None => /\ g \in Segment /\ header' = header \ {g}
                                        /\ \A j \in Id : linked[j] # g
    BY Zenon DEF InitAllocate
  <1>2. /\ stage[b] = "off" /\ b \notin created /\ ModeOf[b] = "Public"
        /\ stage' = [stage EXCEPT ![b] = "allocated"]
        /\ UNCHANGED <<created, used, handles, opening>>
        /\ \A a \in Box : opening[a] # None => Dest[opening[a].msg] # i
    BY Zenon DEF InitAllocate, Start, Steady, cacheVars, deployVars
  <1>3. i \in Id /\ g \in Segment
    <2>1. i \in Id
      BY Zenon, EvlMailboxAssumption
    <2>2. linked[i] \in Segment \cup {None}
      BY Zenon, <2>1 DEF HandleInv, HandleTypes
    <2> HIDE DEF i
    <2> QED BY Zenon, <2>1, <2>2, <1>1
  <1>4. \A d \in Box \ {b} : ModeOf[d] = "Public" => IdOf[d] # i /\ IdOf[d] \in Id
    BY Zenon, <1>2, EvlMailboxAssumption
  <1> HIDE DEF i
  <1>5. HandleTypes'
    BY Zenon, <1>1, <1>2, <1>3 DEF HandleInv, HandleTypes
  <1>6. \A d \in Box \ {b} : /\ base'[d] = base[d] /\ stage'[d] = stage[d]
                             /\ ModeOf[d] = "Public" => linked'[IdOf[d]] = linked[IdOf[d]]
    BY Zenon, <1>1, <1>2, <1>3, <1>4 DEF HandleInv, HandleTypes
  <1>7. base'[b] = g /\ linked'[i] = g /\ stage'[b] = "allocated"
    BY Zenon, <1>1, <1>2, <1>3 DEF HandleInv, HandleTypes
  <1>8. \A d \in Box \ {b} : ModeOf[d] = "Public" /\ base[d] = linked[IdOf[d]] =>
          (base[d] \in header => base[d] \in header')
    BY Zenon, <1>1, <1>4
  <1>9. Rings'
    BY <1>2, <1>3, <1>4, <1>6, <1>7, <1>8 DEF HandleInv, Rings, i
  <1>10. OpeningCurrent'
    BY <1>2, <1>6 DEF HandleInv, OpeningCurrent, HandleOf, Published, i
  <1>11. HandleLeads'
    BY <1>2, <1>6, <1>7 DEF HandleInv, HandleLeads, Published, Ready
  <1> QED BY Zenon, <1>5, <1>9, <1>10, <1>11 DEF HandleInv

LEMMA HandleHeader ==
  ASSUME HandleInv, ~Racing, NEW b \in Box, InitHeader(b)
  PROVE HandleInv'
  <1>1. /\ stage[b] = "allocated" /\ stage' = [stage EXCEPT ![b] = "header"]
        /\ header' = header \cup {base[b]}
        /\ UNCHANGED <<created, used, linked, base, handles, opening>>
    BY Zenon DEF InitHeader, cacheVars, deployVars
  <1>2. \A d \in Box : stage'[d] = IF d = b THEN "header" ELSE stage[d]
    BY Zenon, <1>1 DEF HandleInv, HandleTypes
  <1>3. HandleTypes'
    BY Zenon, <1>1 DEF HandleInv, HandleTypes
  <1>4. Rings'
    BY Zenon, <1>1, <1>2 DEF HandleInv, Rings
  <1>5. OpeningCurrent'
    BY <1>1, <1>2 DEF HandleInv, OpeningCurrent, HandleOf, Published
  <1>6. HandleLeads'
    BY <1>1, <1>2 DEF HandleInv, HandleLeads, Published, Ready
  <1> QED BY Zenon, <1>3, <1>4, <1>5, <1>6 DEF HandleInv

\* The step that a cached handle stops: with its name in use, the mutex cannot
\* be created.
LEMMA HandleObjects ==
  ASSUME HandleInv, ~Racing, NEW b \in Box, InitObjects(b)
  PROVE HandleInv'
  <1>1. /\ stage[b] = "header"
        /\ UNCHANGED <<created, used, linked, header, base, handles, opening>>
        /\ \/ stage' = [stage EXCEPT ![b] = "off"]
           \/ stage' = [stage EXCEPT ![b] = "objects"] /\ ~Named(IdOf[b])
    BY Zenon DEF InitObjects, cacheVars, deployVars
  <1>2. PICK l \in {"off", "objects"} : /\ \A d \in Box : stage'[d] = IF d = b THEN l ELSE stage[d]
                                        /\ l = "objects" => ~Named(IdOf[b])
    BY Zenon, <1>1 DEF HandleInv, HandleTypes
  <1>3. HandleTypes'
    BY Zenon, <1>1 DEF HandleInv, HandleTypes
  <1>4. Rings'
    BY Zenon, <1>1, <1>2 DEF HandleInv, Rings
  <1>5. OpeningCurrent'
    BY <1>1, <1>2 DEF HandleInv, OpeningCurrent, HandleOf, Published
  <1>6. ASSUME NEW a \in Box, NEW s \in Slot, handles[a][s] # None,
               NEW d \in Box, Published(d, handles[a][s].dest), Ready(d)'
        PROVE handles[a][s].whole /\ handles[a][s].seg = base[d]
    <2>1. CASE Ready(d)
      BY <2>1, <1>6 DEF HandleInv, HandleLeads
    <2>2. CASE ~Ready(d)
      <3>1. d = b /\ ~Named(IdOf[b])
        BY Zenon, <2>2, <1>1, <1>2, <1>6 DEF Ready
      <3> QED BY Zenon, <3>1, <1>6 DEF Named, Published
    <2> QED BY Zenon, <2>1, <2>2
  <1>7. HandleLeads'
    BY <1>1, <1>6 DEF HandleInv, HandleLeads, Published
  <1> QED BY Zenon, <1>3, <1>4, <1>5, <1>7 DEF HandleInv

LEMMA HandleXbuf ==
  ASSUME HandleInv, ~Racing, NEW b \in Box, InitXbuf(b)
  PROVE HandleInv'
  <1>1. /\ stage[b] = "objects" /\ stage' = [stage EXCEPT ![b] = "off"]
        /\ created' \subseteq created \cup {b} /\ created \subseteq created'
        /\ UNCHANGED <<used, linked, header, base, handles, opening>>
        /\ \A a \in Box : opening[a] # None => Dest[opening[a].msg] # IdOf[b]
    BY Zenon DEF InitXbuf, Steady, cacheVars, deployVars
  <1>2. \A d \in Box : stage'[d] = IF d = b THEN "off" ELSE stage[d]
    BY Zenon, <1>1 DEF HandleInv, HandleTypes
  <1>3. HandleTypes'
    BY Zenon, <1>1 DEF HandleInv, HandleTypes
  <1>4. Rings'
    BY <1>1, <1>2 DEF HandleInv, Rings
  <1>5. OpeningCurrent'
    BY <1>1, <1>2 DEF HandleInv, OpeningCurrent, HandleOf, Published
  <1>6. \A d \in Box : Ready(d)' => Ready(d)
    BY Zenon, <1>1, <1>2 DEF Ready
  <1>7. HandleLeads'
    BY <1>1, <1>6 DEF HandleInv, HandleLeads, Published
  <1> QED BY Zenon, <1>3, <1>4, <1>5, <1>7 DEF HandleInv

LEMMA HandleShutdown ==
  ASSUME HandleInv, ~Racing, NEW b \in Box, Shutdown(b)
  PROVE HandleInv'
  <1>1. /\ b \in created /\ created' = created \ {b}
        /\ UNCHANGED <<used, header, stage, opening>>
        /\ handles' = [handles EXCEPT ![b] = [s \in Slot |-> None]]
        /\ base' = [base EXCEPT ![b] = None] /\ opening[b] = None
        /\ linked' = IF ModeOf[b] = "Public" THEN [linked EXCEPT ![IdOf[b]] = None] ELSE linked
        /\ \A a \in Box : opening[a] # None => Dest[opening[a].msg] # IdOf[b]
    BY Zenon DEF Shutdown, Steady, close_all_remotes, deployVars
  <1>2. \A d \in Box \ {b} : /\ base'[d] = base[d]
                             /\ ModeOf[d] = "Public" => linked'[IdOf[d]] = linked[IdOf[d]]
    <2>1. \A d \in Box \ {b} : base'[d] = base[d]
      BY Zenon, <1>1 DEF HandleInv, HandleTypes
    <2>2. \A d \in Box \ {b} : ModeOf[d] = "Public" => linked'[IdOf[d]] = linked[IdOf[d]]
      BY Zenon, <1>1, EvlMailboxAssumption DEF HandleInv, HandleTypes
    <2> QED BY Zenon, <2>1, <2>2
  <1>3. \A a \in Box, s \in Slot : handles'[a][s] = IF a = b THEN None ELSE handles[a][s]
    BY Zenon, <1>1 DEF HandleInv, HandleTypes
  <1>4. HandleTypes'
    BY Zenon, <1>1, EvlMailboxAssumption DEF HandleInv, HandleTypes
  <1>5. stage[b] = "off"
    BY Zenon, <1>1 DEF HandleInv, Rings
  <1>6. Rings'
    BY <1>1, <1>2, <1>5 DEF HandleInv, Rings
  <1>7. OpeningCurrent'
    BY <1>1, <1>2, <1>3 DEF HandleInv, OpeningCurrent, HandleOf, Published
  <1>8. HandleLeads'
    BY <1>1, <1>2, <1>3, <1>5 DEF HandleInv, HandleLeads, Published, Ready
  <1> QED BY Zenon, <1>4, <1>6, <1>7, <1>8 DEF HandleInv

LEMMA HandleCrash ==
  ASSUME HandleInv, NEW q \in Proc, Crash(q)
  PROVE HandleInv'
  <1> DEFINE B == {b \in Box : ProcOf[b] = q}
  <1>1. /\ created' = created \ B /\ UNCHANGED <<used, linked, header>>
        /\ stage' = [b \in Box |-> IF b \in B THEN "off" ELSE stage[b]]
        /\ base' = [b \in Box |-> IF b \in B THEN None ELSE base[b]]
        /\ handles' = [b \in Box |-> IF b \in B THEN [s \in Slot |-> None] ELSE handles[b]]
        /\ opening' = [b \in Box |-> IF b \in B THEN None ELSE opening[b]]
    BY Zenon DEF Crash, deployVars
  <1> HIDE DEF B
  <1>2. \A b \in Box : /\ stage'[b] = IF b \in B THEN "off" ELSE stage[b]
                       /\ base'[b] = IF b \in B THEN None ELSE base[b]
                       /\ opening'[b] = IF b \in B THEN None ELSE opening[b]
                       /\ \A s \in Slot : handles'[b][s] = IF b \in B THEN None ELSE handles[b][s]
    BY Zenon, <1>1
  <1>3. HandleTypes'
    BY Zenon, <1>1 DEF HandleInv, HandleTypes
  <1>4. Rings'
    BY Zenon, <1>1, <1>2 DEF HandleInv, Rings
  <1>5. OpeningCurrent'
    BY <1>1, <1>2 DEF HandleInv, OpeningCurrent, HandleOf, Published
  <1>6. HandleLeads'
    BY <1>1, <1>2 DEF HandleInv, HandleLeads, Published, Ready
  <1> QED BY Zenon, <1>3, <1>4, <1>5, <1>6 DEF HandleInv

LEMMA HandleSendOpen ==
  ASSUME HandleInv, ~Racing, NEW b \in Box, NEW m \in Msg, SendOpen(b, m)
  PROVE HandleInv'
  <1> DEFINE g == linked[Dest[m]]
  <1>1. PICK s : /\ handles' = [handles EXCEPT ![b][s] = None]
                 /\ \/ opening' = opening
                    \/ /\ opening' = [opening EXCEPT ![b] =
                                       [slot |-> s, seg |-> g, whole |-> g \in header, msg |-> m]]
                       /\ g # None
    BY Zenon DEF SendOpen
  <1>2. /\ opening[b] = None /\ HandleOf(b, Dest[m]) = {}
        /\ \A a \in Box : IdOf[a] = Dest[m] => stage[a] = "off"
        /\ UNCHANGED <<used, created, stage, linked, header, base>>
    BY Zenon DEF SendOpen, Sendable, shmVars, deployVars
  <1>3. Dest[m] \in Id
    BY Zenon, EvlMailboxAssumption
  <1>4. g \in Segment \cup {None}
    BY Zenon, <1>3 DEF HandleInv, HandleTypes
  <1>5. \A a \in Box, r \in Slot : handles'[a][r] = handles[a][r] \/ handles'[a][r] = None
    BY Zenon, <1>1 DEF HandleInv, HandleTypes
  <1>6. handles' \in [Box -> [Slot -> Handle \cup {None}]]
    BY Zenon, <1>1 DEF HandleInv, HandleTypes
  <1>7. Rings'
    BY Zenon, <1>2 DEF HandleInv, Rings
  <1>8. HandleLeads'
    BY <1>2, <1>5 DEF HandleInv, HandleLeads, Published, Ready
  <1>10. CASE opening' = opening
    <2>1. HandleTypes'
      BY Zenon, <1>10, <1>2, <1>6 DEF HandleInv, HandleTypes
    <2>2. OpeningCurrent'
      BY <1>10, <1>2, <1>5 DEF HandleInv, OpeningCurrent, HandleOf, Published
    <2> QED BY Zenon, <2>1, <2>2, <1>7, <1>8 DEF HandleInv
  <1>11. CASE /\ opening' = [opening EXCEPT ![b] =
                                [slot |-> s, seg |-> g, whole |-> g \in header, msg |-> m]]
              /\ g # None
    <2>1. \A a \in Box \ {b} : opening'[a] = opening[a]
      BY Zenon, <1>11 DEF HandleInv, HandleTypes
    <2>2. opening'[b].seg = g /\ opening'[b].whole = (g \in header) /\ opening'[b].msg = m
      BY Zenon, <1>11 DEF HandleInv, HandleTypes
    <2>3. opening' = [a \in Box |-> opening'[a]]
      BY Zenon, <1>11 DEF HandleInv, HandleTypes
    <2>4. HandleTypes'
      <3>1. ASSUME NEW a \in Box, opening'[a] # None
            PROVE opening'[a].seg \in Segment /\ opening'[a].whole \in BOOLEAN /\ opening'[a].msg \in Msg
        <4>1. CASE a = b
          BY <4>1, <2>2, <1>4, <1>11
        <4>2. CASE a # b
          BY Zenon, <4>2, <3>1, <2>1 DEF HandleInv, HandleTypes
        <4> QED BY Zenon, <4>1, <4>2
      <3> QED BY Zenon, <3>1, <1>2, <1>6, <2>3 DEF HandleInv, HandleTypes
    <2>5. ASSUME NEW d \in Box, Published(d, Dest[m])
          PROVE stage[d] = "off" /\ (d \in created => g \in header /\ g = base[d])
      BY Zenon, <2>5, <1>2 DEF HandleInv, Rings, Published
    <2> HIDE DEF g
    <2>6. ASSUME NEW a \in Box, opening'[a] # None
          PROVE LET o == opening'[a] IN
                /\ \A r \in Slot : handles'[a][r] # None => handles'[a][r].dest # Dest[o.msg]
                /\ \A d \in Box : Published(d, Dest[o.msg]) =>
                     stage[d] = "off" /\ (d \in created => o.whole /\ o.seg = base[d])
      <3>1. CASE a = b
        <4>1. \A r \in Slot : handles'[b][r] # None => handles'[b][r].dest # Dest[m]
          BY Zenon, <1>2, <1>5 DEF HandleOf
        <4> QED BY Zenon, <4>1, <3>1, <2>2, <2>5
      <3>2. CASE a # b
        <4>1. opening'[a] = opening[a]
          BY Zenon, <3>2, <2>1
        <4>2. \A r \in Slot : handles[a][r] # None => handles[a][r].dest # Dest[opening[a].msg]
          BY Zenon, <4>1, <2>6 DEF HandleInv, OpeningCurrent, HandleOf
        <4> QED BY SMTT(30), <4>1, <4>2, <2>6, <1>5 DEF HandleInv, OpeningCurrent
      <3> QED BY Zenon, <3>1, <3>2
    <2>7. OpeningCurrent'
      BY Zenon, <2>6, <1>2 DEF OpeningCurrent, HandleOf, Published
    <2> QED BY Zenon, <2>4, <2>7, <1>7, <1>8 DEF HandleInv
  <1> QED BY Zenon, <1>1, <1>10, <1>11

LEMMA HandleOpenRemote ==
  ASSUME HandleInv, NEW b \in Box, OpenRemote(b)
  PROVE HandleInv'
  <1> DEFINE o == opening[b]
             h == [dest |-> Dest[o.msg], seg |-> o.seg, whole |-> o.whole]
  <1>1. /\ o # None /\ opening' = [opening EXCEPT ![b] = None]
        /\ UNCHANGED <<used, created, stage, linked, header, base>>
        /\ handles' = handles \/ handles' = [handles EXCEPT ![b][o.slot] = h]
    BY Zenon DEF OpenRemote, shmVars, deployVars
  <1>2. h \in Handle /\ Dest[o.msg] \in Id
    BY Zenon, <1>1, EvlMailboxAssumption DEF HandleInv, HandleTypes, Handle
  <1>3. \A a \in Box, r \in Slot :
          \/ handles'[a][r] = handles[a][r]
          \/ a = b /\ r = o.slot /\ handles'[a][r] = h
    BY <1>1 DEF HandleInv, HandleTypes
  <1>4. handles' \in [Box -> [Slot -> Handle \cup {None}]]
    <2> HIDE DEF h
    <2>1. handles \in [Box -> [Slot -> Handle \cup {None}]]
      BY Zenon DEF HandleInv, HandleTypes
    <2>2. [handles[b] EXCEPT ![o.slot] = h] \in [Slot -> Handle \cup {None}]
      BY Zenon, <1>2, <2>1
    <2>3. [handles EXCEPT ![b] = [handles[b] EXCEPT ![o.slot] = h]] \in [Box -> [Slot -> Handle \cup {None}]]
      BY Zenon, <2>1, <2>2
    <2>4. [handles EXCEPT ![b][o.slot] = h] = [handles EXCEPT ![b] = [handles[b] EXCEPT ![o.slot] = h]]
      BY Zenon
    <2> QED BY Zenon, <1>1, <2>1, <2>3, <2>4
  <1>5. opening'[b] = None /\ \A a \in Box \ {b} : opening'[a] = opening[a]
    BY Zenon, <1>1 DEF HandleInv, HandleTypes
  <1>6. HandleTypes'
    BY Zenon, <1>1, <1>4, <1>5 DEF HandleInv, HandleTypes
  <1>7. Rings'
    BY Zenon, <1>1 DEF HandleInv, Rings
  <1>8. /\ \A r \in Slot : handles[b][r] # None => handles[b][r].dest # Dest[o.msg]
        /\ \A d \in Box : Published(d, Dest[o.msg]) =>
             stage[d] = "off" /\ (d \in created => o.whole /\ o.seg = base[d])
    BY Zenon, <1>1 DEF HandleInv, OpeningCurrent, HandleOf
  <1>9. h.dest = Dest[o.msg] /\ h.seg = o.seg /\ h.whole = o.whole
    BY Zenon
  <1> HIDE DEF h, o
  <1>10. OpeningCurrent'
    BY <1>1, <1>3, <1>5 DEF HandleInv, OpeningCurrent, HandleOf, Published
  <1>11. ASSUME NEW a \in Box, NEW s \in Slot, handles'[a][s] # None
         PROVE /\ \A r \in Slot : handles'[a][r] # None /\ handles'[a][r].dest = handles'[a][s].dest => r = s
               /\ \A d \in Box : Published(d, handles'[a][s].dest) /\ Ready(d) =>
                    handles'[a][s].whole /\ handles'[a][s].seg = base[d]
    <2>1. \A r \in Slot : handles'[a][r] # None /\ handles'[a][r].dest = handles'[a][s].dest => r = s
      BY <1>3, <1>8, <1>9, <1>11 DEF HandleInv, HandleLeads
    <2>2. \A d \in Box : Published(d, handles'[a][s].dest) /\ Ready(d) =>
                    handles'[a][s].whole /\ handles'[a][s].seg = base[d]
      BY <1>3, <1>8, <1>9, <1>11 DEF HandleInv, HandleLeads, Ready
    <2> QED BY Zenon, <2>1, <2>2
  <1>12. HandleLeads'
    BY <1>1, <1>11 DEF HandleLeads, Published, Ready
  <1> QED BY Zenon, <1>6, <1>7, <1>10, <1>12 DEF HandleInv

LEMMA HandleNext ==
  ASSUME HandleInv, [Next]_vars, ~Racing
  PROVE HandleInv'
  <1>1. ASSUME NEW b \in used.boxes, BoxStep(b) PROVE HandleInv'
    <2>0. b \in Box /\ created \subseteq Box
      BY Zenon, <1>1, EvlMailboxAssumption DEF HandleInv, HandleTypes
    <2>1. CASE InitLocal(b)
      <3>1. /\ ModeOf[b] = "Local" /\ stage[b] = "off" /\ created' = created \cup {b}
            /\ UNCHANGED <<used, stage, linked, header, base, handles, opening>>
        BY Zenon, <2>1 DEF InitLocal, Start, shmVars, cacheVars
      <3> QED BY Zenon, <3>1, <2>0, HandleQuiet
    <2>2. CASE InitNetwork(b)
      <3>1. /\ ModeOf[b] = "Network" /\ stage[b] = "off"
            /\ created' = created \/ created' = created \cup {b}
            /\ UNCHANGED <<used, stage, linked, header, base, handles, opening>>
        BY Zenon, <2>2 DEF InitNetwork, Start, shmVars, cacheVars
      <3> QED BY Zenon, <3>1, <2>0, HandleQuiet
    <2>3. CASE InitAllocate(b)
      BY Zenon, <2>0, <2>3, HandleAllocate
    <2>4. CASE InitHeader(b)
      BY Zenon, <2>0, <2>4, HandleHeader
    <2>5. CASE InitObjects(b)
      BY Zenon, <2>0, <2>5, HandleObjects
    <2>6. CASE InitXbuf(b)
      BY Zenon, <2>0, <2>6, HandleXbuf
    <2>7. CASE Shutdown(b)
      BY Zenon, <2>0, <2>7, HandleShutdown
    <2>8. CASE OpenRemote(b)
      BY Zenon, <2>0, <2>8, HandleOpenRemote
    <2>9. CASE ReceiveRing(b) \/ ReceiveNetwork(b) \/ ReceiveXbuf(b)
      <3>1. UNCHANGED <<used, created, stage, linked, header, base, handles, opening>>
        BY Zenon, <2>9 DEF ReceiveRing, ReceiveNetwork, ReceiveXbuf, shmVars, cacheVars, deployVars
      <3> QED BY Zenon, <3>1, <2>0, HandleQuiet
    <2> QED BY Zenon, <1>1, <2>1, <2>2, <2>3, <2>4, <2>5, <2>6, <2>7, <2>8, <2>9 DEF BoxStep
  <1>2. ASSUME NEW b \in used.boxes, NEW m \in used.msgs, Send(b, m) PROVE HandleInv'
    <2>0. b \in Box /\ m \in Msg /\ created \subseteq Box
      BY Zenon, <1>2, EvlMailboxAssumption DEF HandleInv, HandleTypes
    <2>1. CASE SendOpen(b, m)
      BY Zenon, <2>0, <2>1, HandleSendOpen
    <2>2. CASE SendLocal(b, m) \/ SendCached(b, m) \/ SendNetwork(b, m) \/ RouterWrites(b, m)
      <3>1. UNCHANGED <<used, created, stage, linked, header, base, handles, opening>>
        BY Zenon, <2>2 DEF SendLocal, SendCached, SendNetwork, RouterWrites, shmVars, cacheVars, deployVars
      <3> QED BY Zenon, <3>1, <2>0, HandleQuiet
    <2> QED BY Zenon, <1>2, <2>1, <2>2 DEF Send
  <1>3. ASSUME NEW p \in Proc, Crash(p) PROVE HandleInv'
    BY Zenon, <1>3, HandleCrash
  <1>4. CASE UNCHANGED vars
    <2>1. UNCHANGED <<used, created, stage, linked, header, base, handles, opening>>
      BY Zenon, <1>4 DEF vars, shmVars, cacheVars, deployVars
    <2> QED BY Zenon, <2>1, HandleQuiet DEF HandleInv, HandleTypes
  <1> QED BY Zenon, <1>1, <1>2, <1>3, <1>4 DEF Next

\* If nobody opens a mailbox while it starts or stops, a cached remote handle
\* leads to the ring that the mailbox reads as long as that lives, after any
\* number of crashes and restarts and whatever the size of the cache: the names
\* that a handle keeps in use stop the restart that would make it stale.
THEOREM MailboxHandlesCurrent == ~Racing => (Spec => []HandlesCurrent)
  <1> SUFFICES ASSUME ~Racing PROVE Spec => []HandlesCurrent
    BY Zenon
  <1>1. Init => HandleInv
    BY Zenon, HandleInit
  <1>2. HandleInv /\ [Next]_vars => HandleInv'
    BY Zenon, HandleNext
  <1>3. HandleInv => HandlesCurrent
    BY DEF HandleInv, HandleTypes, HandleLeads, HandlesCurrent, HandleOf, Published, Ready
  <1> QED BY <1>1, <1>2, <1>3, PTL DEF Spec

-----------------------------------------------------------------------------
(* RightMailbox.  A segment serves one mailbox id, from its allocation     *)
(* until nothing refers to it any more: names, mailboxes, opens under way  *)
(* and cached handles all agree on the id, even after a crash or while a   *)
(* mailbox restarts.  Only then is the segment reused, and emptied.        *)

\* The address of a datagram tells the mailbox: no two ids that the routes send
\* to one host share a port.
PortsTell ==
  \A a \in Box, m \in Msg :
    /\ ModeOf[a] = "Network" /\ net_routes(Dest[m]) # <<>> /\ HostOf[a] = Head(net_routes(Dest[m])).ip
    /\ port_for(Dest[m]) # 0 /\ port_for(IdOf[a]) = port_for(Dest[m])
    => IdOf[a] = Dest[m]

\* Something leads to segment g as the ring of mailbox id i.
Leads(g, i) ==
  \/ linked[i] = g
  \/ \E a \in Box : ModeOf[a] = "Public" /\ base[a] = g /\ IdOf[a] = i
  \/ \E a \in Box : opening[a] # None /\ opening[a].seg = g /\ Dest[opening[a].msg] = i
  \/ \E a \in Box, s \in Slot : handles[a][s] # None /\ handles[a][s].seg = g /\ handles[a][s].dest = i

\* A mailbox that starts or lives has its segment.
Mapped ==
  \A b \in Box : /\ stage[b] # "off" => ModeOf[b] = "Public" /\ b \notin created /\ base[b] \in Segment
                 /\ b \in created /\ ModeOf[b] = "Public" => base[b] \in Segment
\* What may be where
Stores ==
  /\ ring \in [Box \cup Segment -> SUBSET Msg] /\ inbound \in [Box -> SUBSET Msg]
  /\ PortsTell => \A b \in Box, m \in Msg : m \in ring[b] \/ m \in inbound[b] => Dest[m] = IdOf[b]
Addressed ==
  /\ \A g \in Segment, i, j \in Id : Leads(g, i) /\ Leads(g, j) => i = j
  /\ \A g \in Segment, i \in Id, m \in Msg : Leads(g, i) /\ m \in ring[g] => Dest[m] = i
MailInv == HandleTypes /\ Mapped /\ Stores /\ Addressed

\* A step after which nothing leads anywhere new, and one that stores messages
\* only where they belong
NoNewLeads == \A g \in Segment, i \in Id : Leads(g, i)' => Leads(g, i)
Deposits ==
  /\ ring' \in [Box \cup Segment -> SUBSET Msg] /\ inbound' \in [Box -> SUBSET Msg]
  /\ PortsTell => \A b \in Box, m \in Msg : m \in ring'[b] \/ m \in inbound'[b] =>
       m \in ring[b] \/ m \in inbound[b] \/ Dest[m] = IdOf[b]
  /\ \A g \in Segment, m \in Msg : m \in ring'[g] => m \in ring[g] \/ Leads(g, Dest[m])

LEMMA MailKept ==
  ASSUME MailInv, NoNewLeads, Deposits
  PROVE Stores' /\ Addressed'
  <1> USE DEF MailInv
  <1>1. Stores'
    BY Zenon DEF Stores, Deposits
  <1>2. ASSUME NEW g \in Segment, NEW i \in Id, NEW m \in Msg, Leads(g, i)', m \in ring'[g]
        PROVE Dest[m] = i
    <2>1. Leads(g, i) /\ Dest[m] \in Id
      BY Zenon, <1>2, EvlMailboxAssumption DEF NoNewLeads
    <2> QED BY Zenon, <1>2, <2>1 DEF Addressed, Deposits
  <1>3. ASSUME NEW g \in Segment, NEW i \in Id, NEW j \in Id, Leads(g, i)', Leads(g, j)'
        PROVE i = j
    BY Zenon, <1>3 DEF NoNewLeads, Addressed
  <1> QED BY Zenon, <1>1, <1>2, <1>3 DEF Addressed

LEMMA LeadsFrom ==
  ASSUME \A i \in Id, g \in Segment : linked'[i] = g => Leads(g, i),
         \A a \in Box, g \in Segment : ModeOf[a] = "Public" /\ base'[a] = g => Leads(g, IdOf[a]),
         \A a \in Box : opening'[a] # None => Leads(opening'[a].seg, Dest[opening'[a].msg]),
         \A a \in Box, s \in Slot : handles'[a][s] # None => Leads(handles'[a][s].seg, handles'[a][s].dest)
  PROVE NoNewLeads
  <1> SUFFICES ASSUME NEW g \in Segment, NEW i \in Id, Leads(g, i)' PROVE Leads(g, i)
    BY Zenon DEF NoNewLeads
  <1>1. CASE linked'[i] = g
    BY Zenon, <1>1
  <1>2. ASSUME NEW a \in Box, ModeOf[a] = "Public", base'[a] = g, IdOf[a] = i PROVE Leads(g, i)
    BY Zenon, <1>2
  <1>3. ASSUME NEW a \in Box, opening'[a] # None, opening'[a].seg = g, Dest[opening'[a].msg] = i
        PROVE Leads(g, i)
    BY Zenon, <1>3
  <1>4. ASSUME NEW a \in Box, NEW s \in Slot, handles'[a][s] # None, handles'[a][s].seg = g,
               handles'[a][s].dest = i
        PROVE Leads(g, i)
    BY Zenon, <1>4
  <1>5. \/ linked'[i] = g
        \/ \E a \in Box : ModeOf[a] = "Public" /\ base'[a] = g /\ IdOf[a] = i
        \/ \E a \in Box : opening'[a] # None /\ opening'[a].seg = g /\ Dest[opening'[a].msg] = i
        \/ \E a \in Box, s \in Slot :
             handles'[a][s] # None /\ handles'[a][s].seg = g /\ handles'[a][s].dest = i
    BY Zenon DEF Leads
  <1> QED BY Zenon, <1>1, <1>2, <1>3, <1>4, <1>5
\* Each name, mailbox, open and handle leads where it leads
LEMMA LeadsHere ==
  /\ \A i \in Id, g \in Segment : linked[i] = g => Leads(g, i)
  /\ \A a \in Box, g \in Segment : ModeOf[a] = "Public" /\ base[a] = g => Leads(g, IdOf[a])
  /\ \A a \in Box : opening[a] # None => Leads(opening[a].seg, Dest[opening[a].msg])
  /\ \A a \in Box, s \in Slot : handles[a][s] # None => Leads(handles[a][s].seg, handles[a][s].dest)
  <1>1. \A i \in Id, g \in Segment : linked[i] = g => Leads(g, i)
    BY Zenon DEF Leads
  <1>2. \A a \in Box, g \in Segment : ModeOf[a] = "Public" /\ base[a] = g => Leads(g, IdOf[a])
    BY Zenon DEF Leads
  <1>3. \A a \in Box : opening[a] # None => Leads(opening[a].seg, Dest[opening[a].msg])
    BY Zenon DEF Leads
  <1>4. \A a \in Box, s \in Slot : handles[a][s] # None => Leads(handles[a][s].seg, handles[a][s].dest)
    BY Zenon DEF Leads
  <1> QED BY Zenon, <1>1, <1>2, <1>3, <1>4
LEMMA SameLeads ==
  ASSUME UNCHANGED <<linked, base, opening, handles>> PROVE NoNewLeads
  BY Zenon DEF NoNewLeads, Leads

\* A store that only loses messages
LEMMA FewerMail ==
  ASSUME MailInv, ring' \in [Box \cup Segment -> SUBSET Msg], inbound' \in [Box -> SUBSET Msg],
         \A r \in Box \cup Segment : ring'[r] \subseteq ring[r],
         \A b \in Box : inbound'[b] \subseteq inbound[b]
  PROVE Deposits
  BY Zenon DEF Deposits
LEMMA SameMail == ASSUME MailInv, UNCHANGED <<ring, inbound>> PROVE Deposits
  BY Zenon DEF Deposits, MailInv, Stores

\* post() to a store that belongs to the message's destination
LEMMA PostDeposits ==
  ASSUME MailInv, UNCHANGED inbound, NEW m \in Msg, NEW r \in Box \cup Segment, Post(r, m),
         (r \in Box /\ IdOf[r] = Dest[m]) \/ (r \in Segment /\ Leads(r, Dest[m]))
  PROVE Deposits
  <1> USE DEF MailInv, Stores
  <1>1. ring' = ring \/ \E S \in SUBSET ring[r] : ring' = [ring EXCEPT ![r] = S \cup {m}]
    <2>1. ASSUME NEW w, ring' = [ring EXCEPT ![r] = (ring[r] \ {w}) \cup {m}]
          PROVE \E S \in SUBSET ring[r] : ring' = [ring EXCEPT ![r] = S \cup {m}]
      BY Zenon, <2>1
    <2> QED BY Zenon, <2>1 DEF Post, Gone
  <1>2. ring' \in [Box \cup Segment -> SUBSET Msg]
    BY <1>1
  <1>3. \A x \in Box \cup Segment, n \in Msg : n \in ring'[x] => n \in ring[x] \/ (n = m /\ x = r)
    BY <1>1
  <1>4. \A x \in Segment : x \notin Box
    BY Zenon, EvlMailboxAssumption
  <1> QED BY Zenon, <1>2, <1>3, <1>4 DEF Deposits

\* A step that leaves segments, names and handles alone
LEMMA MailQuiet ==
  ASSUME MailInv, UNCHANGED <<used, stage, linked, base, handles, opening>>,
         created' \subseteq Box, \A b \in created' \ created : ModeOf[b] # "Public", Deposits
  PROVE MailInv'
  <1>1. HandleTypes'
    BY Zenon DEF MailInv, HandleTypes
  <1>2. Mapped'
    BY Zenon DEF MailInv, HandleTypes, Mapped
  <1> QED BY Zenon, <1>1, <1>2, SameLeads, MailKept DEF MailInv

\* Sends through the process-local registry, a cached handle, a datagram or the
\* router, and receives
LEMMA MailSend ==
  ASSUME MailInv, NEW b \in Box, NEW m \in Msg,
         SendLocal(b, m) \/ SendCached(b, m) \/ SendNetwork(b, m) \/ RouterWrites(b, m)
  PROVE MailInv'
  <1>1. UNCHANGED <<used, stage, linked, base, handles, opening, created>>
    BY Zenon DEF SendLocal, SendCached, SendNetwork, RouterWrites, deployVars, shmVars, cacheVars
  <1>2. Gone(m) /\ UNCHANGED inbound => Deposits
    BY Zenon, SameMail DEF Gone
  <1>3. CASE SendLocal(b, m)
    <2>1. PICK l : l = InProcess(b, Dest[m])
      BY Zenon
    <2>2. l # None => l \in created /\ IdOf[l] = Dest[m]
      BY Zenon, <2>1 DEF InProcess
    <2>3. l # None => l \in Box
      BY Zenon, <2>2 DEF MailInv, HandleTypes
    <2>4. UNCHANGED inbound /\ ((l # None /\ Post(l, m)) \/ Gone(m))
      BY Zenon, <1>3, <2>1 DEF SendLocal
    <2>5. Deposits
      BY Zenon, <1>2, <2>2, <2>3, <2>4, PostDeposits
    <2> QED BY Zenon, <1>1, <2>5, MailQuiet DEF MailInv, HandleTypes
  <1>4. CASE SendCached(b, m)
    <2>1. PICK s \in Slot : /\ handles[b][s] # None /\ handles[b][s].dest = Dest[m]
                            /\ Post(handles[b][s].seg, m)
      BY Zenon, <1>4 DEF SendCached, HandleOf
    <2>2. handles[b][s].seg \in Segment
      BY <2>1 DEF MailInv, HandleTypes, Handle
    <2>3. Leads(handles[b][s].seg, Dest[m])
      BY Zenon, <2>1 DEF Leads
    <2>4. UNCHANGED inbound
      BY Zenon, <1>4 DEF SendCached
    <2>5. Deposits
      BY Zenon, <2>1, <2>2, <2>3, <2>4, PostDeposits
    <2> QED BY Zenon, <1>1, <2>5, MailQuiet DEF MailInv, HandleTypes
  <1>5. CASE SendNetwork(b, m)
    <2>1. ASSUME NEW a \in Box, Bound(a, Head(net_routes(Dest[m])).ip, port_for(Dest[m])),
                 net_routes(Dest[m]) # <<>>, ring' = [ring EXCEPT ![a] = ring[a] \cup {m}], UNCHANGED inbound
          PROVE Deposits
      <3>1. PortsTell => IdOf[a] = Dest[m]
        BY Zenon, <2>1 DEF Bound, PortsTell
      <3>2. a \in Box \cup Segment /\ a \notin Segment
        BY Zenon, EvlMailboxAssumption
      <3>3. ring' \in [Box \cup Segment -> SUBSET Msg]
        BY <2>1, <3>2 DEF MailInv, Stores
      <3>4. \A x \in Box \cup Segment, n \in Msg : n \in ring'[x] => n \in ring[x] \/ (n = m /\ x = a)
        BY <2>1, <3>2 DEF MailInv, Stores
      <3> QED BY Zenon, <2>1, <3>1, <3>2, <3>3, <3>4 DEF Deposits, MailInv, Stores
    <2>2. Deposits
      BY Zenon, <1>2, <1>5, <2>1 DEF SendNetwork
    <2> QED BY Zenon, <1>1, <2>2, MailQuiet DEF MailInv, HandleTypes
  <1>6. CASE RouterWrites(b, m)
    <2>1. UNCHANGED ring /\ inbound' = [inbound EXCEPT ![b] = inbound[b] \cup {m}] /\ IdOf[b] = Dest[m]
      BY Zenon, <1>6 DEF RouterWrites
    <2>2. inbound' \in [Box -> SUBSET Msg]
      BY <2>1 DEF MailInv, Stores
    <2>3. \A x \in Box, n \in Msg : n \in inbound'[x] => n \in inbound[x] \/ (n = m /\ x = b)
      BY <2>1 DEF MailInv, Stores
    <2>4. Deposits
      BY Zenon, <2>1, <2>2, <2>3 DEF Deposits, MailInv, Stores
    <2> QED BY Zenon, <1>1, <2>4, MailQuiet DEF MailInv, HandleTypes
  <1> QED BY Zenon, <1>3, <1>4, <1>5, <1>6

LEMMA MailReceive ==
  ASSUME MailInv, NEW b \in Box,
         InitLocal(b) \/ InitNetwork(b) \/ ReceiveRing(b) \/ ReceiveNetwork(b) \/ ReceiveXbuf(b)
  PROVE MailInv'
  <1>1. UNCHANGED <<used, stage, linked, base, handles, opening>>
    BY Zenon DEF InitLocal, InitNetwork, ReceiveRing, ReceiveNetwork, ReceiveXbuf, Start,
                 deployVars, shmVars, cacheVars
  <1>2. /\ created' \subseteq Box
        /\ \A a \in created' \ created : ModeOf[a] # "Public" /\ stage[a] = "off"
    <2>1. created' = created \/ (created' = created \cup {b} /\ ModeOf[b] # "Public" /\ stage[b] = "off")
      BY DEF InitLocal, InitNetwork, ReceiveRing, ReceiveNetwork, ReceiveXbuf, Start
    <2> QED BY Zenon, <2>1 DEF MailInv, HandleTypes
  <1>3. ASSUME NEW r \in Box \cup Segment, NEW S \in SUBSET ring[r], ring' = [ring EXCEPT ![r] = S],
               UNCHANGED inbound
        PROVE Deposits
    <2>1. ring' \in [Box \cup Segment -> SUBSET Msg]
      BY <1>3 DEF MailInv, Stores
    <2>2. \A x \in Box \cup Segment : ring'[x] \subseteq ring[x]
      BY <1>3 DEF MailInv, Stores
    <2> QED BY Zenon, <1>3, <2>1, <2>2, FewerMail DEF MailInv, Stores
  <1>4. Deposits
    <2>1. CASE InitLocal(b)
      BY Zenon, <2>1, <1>3 DEF InitLocal
    <2>2. CASE InitNetwork(b)
      BY Zenon, <2>2, SameMail DEF InitNetwork, mailVars
    <2>3. CASE ReceiveRing(b)
      <3>1. Own(b) \in Box \cup Segment
        BY Zenon, <2>3 DEF ReceiveRing, Own, MailInv, Mapped
      <3>2. PICK m \in ring[Own(b)] : ring' = [ring EXCEPT ![Own(b)] = ring[Own(b)] \ {m}]
        BY Zenon, <2>3 DEF ReceiveRing
      <3>3. UNCHANGED inbound
        BY Zenon, <2>3 DEF ReceiveRing
      <3> QED BY Zenon, <1>3, <3>1, <3>2, <3>3
    <2>4. CASE ReceiveNetwork(b)
      BY Zenon, <2>4, <1>3 DEF ReceiveNetwork
    <2>5. CASE ReceiveXbuf(b)
      <3>1. PICK m \in inbound[b] : inbound' = [inbound EXCEPT ![b] = inbound[b] \ {m}] /\ UNCHANGED ring
        BY Zenon, <2>5 DEF ReceiveXbuf
      <3>2. inbound' \in [Box -> SUBSET Msg] /\ \A a \in Box : inbound'[a] \subseteq inbound[a]
        BY <3>1 DEF MailInv, Stores
      <3> QED BY Zenon, <3>1, <3>2, FewerMail DEF MailInv, Stores
    <2> QED BY Zenon, <2>1, <2>2, <2>3, <2>4, <2>5
  <1> QED BY Zenon, <1>1, <1>2, <1>4, MailQuiet

\* The later steps of initialize()
LEMMA MailInitialize ==
  ASSUME MailInv, NEW b \in Box, InitHeader(b) \/ InitObjects(b) \/ InitXbuf(b)
  PROVE MailInv'
  <1>1. UNCHANGED <<used, linked, base, handles, opening, ring, inbound>> /\ stage[b] # "off"
    BY Zenon DEF InitHeader, InitObjects, InitXbuf, deployVars, cacheVars, mailVars
  <1>2. \E v \in {"off", "header", "objects"} :
          stage' = [stage EXCEPT ![b] = v] /\ (created' = created \/ (v = "off" /\ created' = created \cup {b}))
    BY Zenon DEF InitHeader, InitObjects, InitXbuf
  <1>3. HandleTypes'
    <2>1. stage' \in [Box -> {"off", "allocated", "header", "objects"}] /\ created' \subseteq Box
      BY <1>2 DEF MailInv, HandleTypes
    <2> QED BY Zenon, <1>1, <2>1 DEF MailInv, HandleTypes
  <1>4. Mapped'
    BY <1>1, <1>2 DEF MailInv, HandleTypes, Mapped
  <1> QED BY Zenon, <1>1, <1>3, <1>4, SameLeads, SameMail, MailKept DEF MailInv

\* allocate_ring(): a segment that is linked already serves the id; a new one
\* serves none before this step, and is empty after it
LEMMA MailAllocate ==
  ASSUME MailInv, NEW b \in Box, InitAllocate(b)
  PROVE MailInv'
  <1> USE DEF MailInv
  <1>1. IdOf[b] \in Id /\ ModeOf[b] = "Public" /\ b \notin created
    BY Zenon, EvlMailboxAssumption DEF InitAllocate, Start
  <1>2. /\ UNCHANGED <<used, created, handles, opening, inbound>>
        /\ stage' = [stage EXCEPT ![b] = "allocated"]
    BY Zenon DEF InitAllocate, Start, cacheVars
  <1>3. PICK g : /\ g \in Segment /\ linked' = [linked EXCEPT ![IdOf[b]] = g] /\ base' = [base EXCEPT ![b] = g]
                 /\ \/ linked[IdOf[b]] = g /\ ring' = ring
                    \/ (\A i \in Id : ~Leads(g, i)) /\ ring' = [ring EXCEPT ![g] = {}]
    <2>1. CASE linked[IdOf[b]] = None
      <3>1. PICK u : /\ u \in Segment /\ (\A i \in Id : linked[i] # u)
                     /\ \A a \in Box : /\ base[a] # u
                                       /\ opening[a] # None => opening[a].seg # u
                                       /\ \A s \in Slot : handles[a][s] # None => handles[a][s].seg # u
                     /\ linked' = [linked EXCEPT ![IdOf[b]] = u] /\ base' = [base EXCEPT ![b] = u]
                     /\ ring' = [ring EXCEPT ![u] = {}]
        <4>1. PICK U : /\ U = {g \in Segment : /\ \A i \in Id : linked[i] # g
                                               /\ \A a \in Box : /\ base[a] # g
                                                                 /\ opening[a] # None => opening[a].seg # g
                                                                 /\ \A s \in Slot : handles[a][s] # None
                                                                                      => handles[a][s].seg # g}
          BY Zenon
        <4>2. /\ U # {} /\ linked' = [linked EXCEPT ![IdOf[b]] = CHOOSE v \in U : TRUE]
              /\ base' = [base EXCEPT ![b] = CHOOSE v \in U : TRUE]
              /\ ring' = [ring EXCEPT ![CHOOSE v \in U : TRUE] = {}]
          BY Zenon, <2>1, <4>1 DEF InitAllocate
        <4>3. PICK u : u = CHOOSE v \in U : TRUE
          BY Zenon
        <4>4. u \in U
          BY Zenon, <4>2, <4>3
        <4>5. /\ linked' = [linked EXCEPT ![IdOf[b]] = u] /\ base' = [base EXCEPT ![b] = u]
              /\ ring' = [ring EXCEPT ![u] = {}]
          BY Zenon, <4>2, <4>3
        <4> QED BY Zenon, <4>1, <4>4, <4>5
      <3>2. \A i \in Id : ~Leads(u, i)
        BY Zenon, <3>1 DEF Leads
      <3> QED BY Zenon, <3>1, <3>2
    <2>2. CASE linked[IdOf[b]] # None
      <3>1. linked[IdOf[b]] \in Segment
        BY Zenon, <2>2, <1>1 DEF HandleTypes
      <3>2. /\ linked' = [linked EXCEPT ![IdOf[b]] = linked[IdOf[b]]]
            /\ base' = [base EXCEPT ![b] = linked[IdOf[b]]] /\ ring' = ring
        BY <2>2 DEF InitAllocate
      <3> QED BY Zenon, <3>1, <3>2
    <2> QED BY Zenon, <2>1, <2>2
  <1>4. HandleTypes'
    <2>1. stage' \in [Box -> {"off", "allocated", "header", "objects"}]
      BY <1>2 DEF HandleTypes
    <2>2. linked' \in [Id -> Segment \cup {None}] /\ base' \in [Box -> Segment \cup {None}]
      BY <1>1, <1>3 DEF HandleTypes
    <2> QED BY Zenon, <1>2, <2>1, <2>2 DEF HandleTypes
  <1>5. Mapped'
    BY <1>1, <1>2, <1>3 DEF HandleTypes, Mapped
  <1>6. /\ \A i \in Id : linked'[i] = (IF i = IdOf[b] THEN g ELSE linked[i])
        /\ \A a \in Box : base'[a] = (IF a = b THEN g ELSE base[a])
    BY <1>1, <1>3 DEF HandleTypes
  <1>7. ASSUME NEW h \in Segment, NEW i \in Id, Leads(h, i)'
        PROVE Leads(h, i) \/ (h = g /\ i = IdOf[b])
    BY Zenon, <1>1, <1>2, <1>6, <1>7 DEF Leads
  <1>8. CASE linked[IdOf[b]] = g /\ ring' = ring
    <2>1. Leads(g, IdOf[b])
      BY Zenon, <1>8 DEF Leads
    <2>2. NoNewLeads
      BY Zenon, <2>1, <1>7 DEF NoNewLeads
    <2> QED BY Zenon, <2>2, <1>2, <1>4, <1>5, <1>8, SameMail, MailKept
  <1>9. CASE (\A i \in Id : ~Leads(g, i)) /\ ring' = [ring EXCEPT ![g] = {}]
    <2>1. g \notin Box /\ g \in Box \cup Segment
      BY Zenon, <1>3, EvlMailboxAssumption
    <2>2. /\ ring' \in [Box \cup Segment -> SUBSET Msg]
          /\ \A x \in Box \cup Segment : ring'[x] \subseteq ring[x]
      BY <1>9, <2>1 DEF Stores
    <2>3. ring'[g] = {}
      BY Zenon, <1>9, <2>1 DEF Stores
    <2>4. Stores'
      BY Zenon, <1>2, <2>2 DEF Stores
    <2>5. ASSUME NEW h \in Segment, NEW i \in Id, NEW m \in Msg, Leads(h, i)', m \in ring'[h]
          PROVE Dest[m] = i
      BY Zenon, <2>2, <2>3, <2>5, <1>7 DEF Addressed
    <2>6. ASSUME NEW h \in Segment, NEW i \in Id, NEW j \in Id, Leads(h, i)', Leads(h, j)'
          PROVE i = j
      <3>1. (Leads(h, i) \/ (h = g /\ i = IdOf[b])) /\ (Leads(h, j) \/ (h = g /\ j = IdOf[b]))
        BY Zenon, <1>7, <2>6
      <3>2. h = g => i = IdOf[b] /\ j = IdOf[b]
        BY Zenon, <3>1, <1>9
      <3> QED BY Zenon, <3>1, <3>2 DEF Addressed
    <2> QED BY Zenon, <1>4, <1>5, <2>4, <2>5, <2>6 DEF Addressed
  <1> QED BY Zenon, <1>3, <1>8, <1>9

\* shutdown() and the end of a process
LEMMA MailDiscard ==
  ASSUME MailInv, NEW B, Discard(B) PROVE Deposits
  <1>1. ring' \in [Box \cup Segment -> SUBSET Msg] /\ inbound' \in [Box -> SUBSET Msg]
    BY DEF Discard, MailInv, Stores
  <1>2. /\ \A r \in Box \cup Segment : ring'[r] \subseteq ring[r]
        /\ \A b \in Box : inbound'[b] \subseteq inbound[b]
    BY DEF Discard, MailInv, Stores
  <1> QED BY Zenon, <1>1, <1>2, FewerMail
LEMMA MailShutdown ==
  ASSUME MailInv, NEW b \in Box, Shutdown(b)
  PROVE MailInv'
  <1> USE DEF MailInv
  <1>1. /\ UNCHANGED <<used, opening, stage>> /\ b \in created /\ created' = created \ {b}
        /\ base' = [base EXCEPT ![b] = None] /\ handles' = [handles EXCEPT ![b] = [s \in Slot |-> None]]
        /\ Discard({b}) /\ (linked' = linked \/ linked' = [linked EXCEPT ![IdOf[b]] = None])
    BY Zenon DEF Shutdown, close_all_remotes, deployVars
  <1>2. /\ linked' \in [Id -> Segment \cup {None}] /\ base' \in [Box -> Segment \cup {None}]
        /\ \A i \in Id : linked'[i] = linked[i] \/ linked'[i] = None
        /\ \A a \in Box : base'[a] = (IF a = b THEN None ELSE base[a])
    BY <1>1 DEF HandleTypes
  <1>3. /\ handles' \in [Box -> [Slot -> Handle \cup {None}]]
        /\ \A a \in Box, s \in Slot : handles'[a][s] = handles[a][s] \/ handles'[a][s] = None
    BY <1>1 DEF HandleTypes
  <1>4. HandleTypes'
    BY Zenon, <1>1, <1>2, <1>3 DEF HandleTypes
  <1>5. Mapped'
    BY Zenon, <1>1, <1>2 DEF Mapped
  <1>6. None \notin Segment
    BY Zenon, EvlMailboxAssumption
  <1>7. \A a \in Box, g \in Segment : base'[a] = g => base[a] = g
    BY Zenon, <1>2, <1>6
  <1>8. NoNewLeads
    <2>1. \A i \in Id, g \in Segment : linked'[i] = g => Leads(g, i)
      BY Zenon, <1>2, <1>6, LeadsHere
    <2>2. \A a \in Box, g \in Segment : ModeOf[a] = "Public" /\ base'[a] = g => Leads(g, IdOf[a])
      BY Zenon, <1>7, LeadsHere
    <2>3. \A a \in Box : opening'[a] # None => Leads(opening'[a].seg, Dest[opening'[a].msg])
      BY Zenon, <1>1, LeadsHere
    <2>4. \A a \in Box, s \in Slot : handles'[a][s] # None => Leads(handles'[a][s].seg, handles'[a][s].dest)
      BY Zenon, <1>3, LeadsHere
    <2> QED BY Zenon, <2>1, <2>2, <2>3, <2>4, LeadsFrom
  <1> QED BY Zenon, <1>1, <1>4, <1>5, <1>8, MailDiscard, MailKept
LEMMA MailCrash ==
  ASSUME MailInv, NEW p \in Proc, Crash(p)
  PROVE MailInv'
  <1> USE DEF MailInv
  <1>1. PICK B : B = {b \in Box : ProcOf[b] = p}
    BY Zenon
  <1>2. /\ UNCHANGED <<used, linked>> /\ created' = created \ B /\ Discard(B)
        /\ stage' = [b \in Box |-> IF b \in B THEN "off" ELSE stage[b]]
        /\ base' = [b \in Box |-> IF b \in B THEN None ELSE base[b]]
        /\ handles' = [b \in Box |-> IF b \in B THEN [s \in Slot |-> None] ELSE handles[b]]
        /\ opening' = [b \in Box |-> IF b \in B THEN None ELSE opening[b]]
    BY Zenon, <1>1 DEF Crash, deployVars
  <1>3. /\ stage' \in [Box -> {"off", "allocated", "header", "objects"}]
        /\ base' \in [Box -> Segment \cup {None}]
    BY <1>2 DEF HandleTypes
  <1>4. \A b \in Box : /\ stage'[b] = (IF b \in B THEN "off" ELSE stage[b])
                       /\ base'[b] = (IF b \in B THEN None ELSE base[b])
                       /\ opening'[b] = (IF b \in B THEN None ELSE opening[b])
    BY Zenon, <1>2
  <1>5. /\ handles' \in [Box -> [Slot -> Handle \cup {None}]]
        /\ \A a \in Box, s \in Slot : handles'[a][s] = handles[a][s] \/ handles'[a][s] = None
    BY <1>2 DEF HandleTypes
  <1>6. opening' = [b \in Box |-> opening'[b]]
    BY <1>2
  <1>7. HandleTypes'
    BY Zenon, <1>2, <1>3, <1>4, <1>5, <1>6 DEF HandleTypes
  <1>8. Mapped'
    BY Zenon, <1>2, <1>4 DEF Mapped
  <1>9. None \notin Segment
    BY Zenon, EvlMailboxAssumption
  <1>10. /\ \A a \in Box, g \in Segment : base'[a] = g => base[a] = g
         /\ \A a \in Box : opening'[a] # None => opening'[a] = opening[a]
    BY Zenon, <1>4, <1>9
  <1>11. NoNewLeads
    <2>1. \A i \in Id, g \in Segment : linked'[i] = g => Leads(g, i)
      BY Zenon, <1>2, LeadsHere
    <2>2. \A a \in Box, g \in Segment : ModeOf[a] = "Public" /\ base'[a] = g => Leads(g, IdOf[a])
      BY Zenon, <1>10, LeadsHere
    <2>3. \A a \in Box : opening'[a] # None => Leads(opening'[a].seg, Dest[opening'[a].msg])
      BY Zenon, <1>10, LeadsHere
    <2>4. \A a \in Box, s \in Slot : handles'[a][s] # None => Leads(handles'[a][s].seg, handles'[a][s].dest)
      BY Zenon, <1>5, LeadsHere
    <2> QED BY Zenon, <2>1, <2>2, <2>3, <2>4, LeadsFrom
  <1> QED BY Zenon, <1>2, <1>7, <1>8, <1>11, MailDiscard, MailKept

\* open_remote(): the name led to the segment, then the open does, then the handle
LEMMA MailOpen ==
  ASSUME MailInv, NEW b \in Box, NEW m \in Msg, SendOpen(b, m)
  PROVE MailInv'
  <1> USE DEF MailInv
  <1>1. UNCHANGED <<used, created, stage, linked, base, inbound, ring>>
    BY Zenon DEF SendOpen, deployVars, shmVars, Gone
  <1>2. PICK k : /\ handles' = [handles EXCEPT ![b][k] = None]
                 /\ \/ UNCHANGED opening
                    \/ /\ linked[Dest[m]] # None
                       /\ opening' = [opening EXCEPT ![b] =
                            [slot |-> k, seg |-> linked[Dest[m]], whole |-> linked[Dest[m]] \in header, msg |-> m]]
    BY Zenon DEF SendOpen
  <1>3. Dest[m] \in Id /\ (linked[Dest[m]] # None => linked[Dest[m]] \in Segment)
    BY Zenon, EvlMailboxAssumption DEF HandleTypes
  <1>4. /\ handles' \in [Box -> [Slot -> Handle \cup {None}]]
        /\ \A a \in Box, r \in Slot : handles'[a][r] = handles[a][r] \/ handles'[a][r] = None
    <2>1. \A a \in Box, r \in Slot : handles'[a][r] = handles[a][r] \/ handles'[a][r] = None
      BY Zenon, <1>2 DEF HandleTypes
    <2>2. handles' \in [Box -> [Slot -> Handle \cup {None}]]
      BY Zenon, <1>2 DEF HandleTypes
    <2> QED BY Zenon, <2>1, <2>2
  <1>5. /\ opening' = [a \in Box |-> opening'[a]]
        /\ \A a \in Box : \/ opening'[a] = opening[a]
                          \/ /\ linked[Dest[m]] # None
                             /\ opening'[a].seg = linked[Dest[m]] /\ opening'[a].msg = m
                             /\ opening'[a].whole = (linked[Dest[m]] \in header)
    BY <1>2 DEF HandleTypes
  <1>6. HandleTypes'
    <2>1. ASSUME NEW a \in Box, opening'[a] # None
          PROVE opening'[a].seg \in Segment /\ opening'[a].whole \in BOOLEAN /\ opening'[a].msg \in Msg
      <3>1. CASE opening'[a] = opening[a]
        BY Zenon, <3>1, <2>1 DEF HandleTypes
      <3>2. CASE opening'[a] # opening[a]
        <4>1. opening'[a].whole = (linked[Dest[m]] \in header)
          BY Zenon, <3>2, <1>5
        <4>2. opening'[a].seg \in Segment /\ opening'[a].msg \in Msg
          BY Zenon, <3>2, <1>3, <1>5
        <4>3. opening'[a].whole \in BOOLEAN
          BY ONLY <4>1
        <4> QED BY Zenon, <4>2, <4>3
      <3> QED BY Zenon, <3>1, <3>2
    <2> QED BY Zenon, <1>1, <1>4, <1>5, <2>1 DEF HandleTypes
  <1>7. Mapped'
    BY Zenon, <1>1 DEF Mapped
  <1>8. NoNewLeads
    <2>1. \A i \in Id, g \in Segment : linked'[i] = g => Leads(g, i)
      BY Zenon, <1>1, LeadsHere
    <2>2. \A a \in Box, g \in Segment : ModeOf[a] = "Public" /\ base'[a] = g => Leads(g, IdOf[a])
      BY Zenon, <1>1, LeadsHere
    <2>3. \A a \in Box : opening'[a] # None => Leads(opening'[a].seg, Dest[opening'[a].msg])
      BY Zenon, <1>3, <1>5, LeadsHere
    <2>4. \A a \in Box, s \in Slot : handles'[a][s] # None => Leads(handles'[a][s].seg, handles'[a][s].dest)
      BY Zenon, <1>4, LeadsHere
    <2> QED BY Zenon, <2>1, <2>2, <2>3, <2>4, LeadsFrom
  <1> QED BY Zenon, <1>1, <1>6, <1>7, <1>8, SameMail, MailKept
LEMMA MailOpened ==
  ASSUME MailInv, NEW b \in Box, OpenRemote(b)
  PROVE MailInv'
  <1> USE DEF MailInv
  <1>1. UNCHANGED <<used, created, stage, linked, base, inbound>>
    BY Zenon DEF OpenRemote, deployVars, shmVars
  <1>2. PICK o : o = opening[b] /\ o # None /\ opening' = [opening EXCEPT ![b] = None]
    BY Zenon DEF OpenRemote
  <1>3. /\ o.seg \in Segment /\ o.msg \in Msg /\ Dest[o.msg] \in Id /\ Leads(o.seg, Dest[o.msg])
    BY Zenon, <1>2, EvlMailboxAssumption DEF HandleTypes, Leads
  <1>4. \/ /\ handles' = [handles EXCEPT ![b][o.slot] =
                            [dest |-> Dest[o.msg], seg |-> o.seg, whole |-> o.whole]]
           /\ Post(o.seg, o.msg)
        \/ handles' = handles /\ UNCHANGED ring
    BY Zenon, <1>2 DEF OpenRemote, Gone
  <1>5. /\ opening' = [a \in Box |-> opening'[a]]
        /\ \A a \in Box : opening'[a] = opening[a] \/ opening'[a] = None
    <2>1. \A a \in Box : opening'[a] = opening[a] \/ opening'[a] = None
      BY Zenon, <1>2 DEF HandleTypes
    <2>2. opening' = [a \in Box |-> opening'[a]]
      BY Zenon, <1>2 DEF HandleTypes
    <2> QED BY Zenon, <2>1, <2>2
  <1>6. /\ handles' \in [Box -> [Slot -> Handle \cup {None}]]
        /\ \A a \in Box, r \in Slot : \/ handles'[a][r] = handles[a][r]
                                      \/ handles'[a][r].seg = o.seg /\ handles'[a][r].dest = Dest[o.msg]
    <2>1. o.whole \in BOOLEAN
      BY Zenon, <1>2 DEF HandleTypes
    <2>2. [dest |-> Dest[o.msg], seg |-> o.seg, whole |-> o.whole] \in Handle
      BY <2>1, <1>3 DEF Handle
    <2>3. PICK h : h = [dest |-> Dest[o.msg], seg |-> o.seg, whole |-> o.whole]
      BY Zenon
    <2>4. h \in Handle /\ h.seg = o.seg /\ h.dest = Dest[o.msg]
      BY Zenon, <2>2, <2>3
    <2>5. CASE handles' = handles
      BY Zenon, <2>5 DEF HandleTypes
    <2>6. CASE handles' = [handles EXCEPT ![b] = [handles[b] EXCEPT ![o.slot] = h]]
      <3>1. handles[b] \in [Slot -> Handle \cup {None}]
        BY Zenon DEF HandleTypes
      <3>2. PICK row : row = [handles[b] EXCEPT ![o.slot] = h]
        BY Zenon
      <3>3. row \in [Slot -> Handle \cup {None}] /\ \A r \in Slot : row[r] = handles[b][r] \/ row[r] = h
        <4>1. row \in [Slot -> Handle \cup {None}]
          BY Zenon, <3>1, <3>2, <2>4
        <4>2. \A r \in Slot : row[r] = handles[b][r] \/ row[r] = h
          BY Zenon, <3>1, <3>2
        <4> QED BY Zenon, <4>1, <4>2
      <3>4. handles' \in [Box -> [Slot -> Handle \cup {None}]]
        BY Zenon, <3>2, <3>3, <2>6 DEF HandleTypes
      <3>5. \A a \in Box : handles'[a] = (IF a = b THEN row ELSE handles[a])
        BY Zenon, <3>2, <2>6 DEF HandleTypes
      <3>6. \A a \in Box, r \in Slot : handles'[a][r] = handles[a][r] \/ handles'[a][r] = h
        BY Zenon, <3>3, <3>5
      <3> QED BY Zenon, <3>4, <3>6, <2>4
    <2>7. [handles EXCEPT ![b][o.slot] = h] = [handles EXCEPT ![b] = [handles[b] EXCEPT ![o.slot] = h]]
      BY Zenon
    <2> QED BY Zenon, <1>4, <2>3, <2>5, <2>6, <2>7
  <1>7. HandleTypes'
    BY Zenon, <1>1, <1>3, <1>5, <1>6 DEF HandleTypes
  <1>8. Mapped'
    BY Zenon, <1>1 DEF Mapped
  <1>9. NoNewLeads
    <2>1. \A i \in Id, g \in Segment : linked'[i] = g => Leads(g, i)
      BY Zenon, <1>1, LeadsHere
    <2>2. \A a \in Box, g \in Segment : ModeOf[a] = "Public" /\ base'[a] = g => Leads(g, IdOf[a])
      BY Zenon, <1>1, LeadsHere
    <2>3. \A a \in Box : opening'[a] # None => Leads(opening'[a].seg, Dest[opening'[a].msg])
      BY Zenon, <1>5, LeadsHere
    <2>4. \A a \in Box, s \in Slot : handles'[a][s] # None => Leads(handles'[a][s].seg, handles'[a][s].dest)
      BY Zenon, <1>3, <1>6, LeadsHere
    <2> QED BY Zenon, <2>1, <2>2, <2>3, <2>4, LeadsFrom
  <1>10. Deposits
    BY Zenon, <1>1, <1>3, <1>4, PostDeposits, SameMail
  <1> QED BY Zenon, <1>7, <1>8, <1>9, <1>10, MailKept

LEMMA MailStart == Init => MailInv
  <1> SUFFICES ASSUME Init PROVE MailInv
    BY Zenon
  <1>1. HandleTypes
    BY Zenon DEF Init, HandleTypes
  <1>2. Mapped
    BY Zenon DEF Init, Mapped
  <1>3. Stores
    BY Zenon DEF Init, Stores
  <1>4. None \notin Segment
    BY Zenon, EvlMailboxAssumption
  <1>5. ASSUME NEW g \in Segment, NEW i \in Id PROVE ~Leads(g, i)
    BY Zenon, <1>4 DEF Init, Leads
  <1> QED BY Zenon, <1>1, <1>2, <1>3, <1>5 DEF MailInv, Addressed

LEMMA MailNext ==
  ASSUME MailInv, [Next]_vars PROVE MailInv'
  <1>1. CASE UNCHANGED vars
    <2>1. UNCHANGED <<used, created, stage, linked, base, handles, opening, ring, inbound>>
      BY Zenon, <1>1 DEF vars, deployVars, shmVars, cacheVars, mailVars
    <2> QED BY Zenon, <2>1, SameMail, MailQuiet DEF MailInv, HandleTypes
  <1>2. used.boxes \subseteq Box /\ used.msgs \subseteq Msg
    BY EvlMailboxAssumption DEF MailInv, HandleTypes
  <1>3. ASSUME NEW b \in Box, BoxStep(b) PROVE MailInv'
    BY Zenon, <1>3, MailReceive, MailInitialize, MailAllocate, MailShutdown, MailOpened DEF BoxStep
  <1>4. ASSUME NEW b \in Box, NEW m \in Msg, Send(b, m) PROVE MailInv'
    BY Zenon, <1>4, MailSend, MailOpen DEF Send
  <1> QED BY Zenon, <1>1, <1>2, <1>3, <1>4, MailCrash DEF Next

\* RightMailbox: what a mailbox can read is addressed to it, through the rings
\* of its process, the shared-memory rings, the xbuf and datagrams.  Opens may
\* overlap with the life cycle of their target in any way here.
THEOREM MailReachesItsMailbox == PortsTell => (Spec => []RightMailbox)
  <1> SUFFICES ASSUME PortsTell PROVE Spec => []RightMailbox
    BY Zenon
  <1>1. MailInv => RightMailbox
    <2> SUFFICES ASSUME MailInv, NEW b \in created, NEW m \in ring[Own(b)] \cup inbound[b]
                 PROVE Dest[m] = IdOf[b]
      BY Zenon DEF RightMailbox
    <2>1. b \in Box /\ IdOf[b] \in Id
      BY Zenon, EvlMailboxAssumption DEF MailInv, HandleTypes
    <2>2. CASE ModeOf[b] = "Public" /\ m \in ring[base[b]]
      <3>1. base[b] \in Segment /\ Leads(base[b], IdOf[b])
        BY Zenon, <2>1, <2>2 DEF MailInv, Mapped, Leads
      <3>2. m \in Msg
        BY Zenon, <2>2, <3>1 DEF MailInv, Stores
      <3> QED BY Zenon, <2>1, <2>2, <3>1, <3>2 DEF MailInv, Addressed
    <2>3. CASE m \in ring[b] \/ m \in inbound[b]
      <3>1. m \in Msg
        BY Zenon, <2>1, <2>3 DEF MailInv, Stores
      <3> QED BY Zenon, <2>1, <2>3, <3>1 DEF MailInv, Stores
    <2> QED BY Zenon, <2>2, <2>3 DEF Own
  <1> QED BY <1>1, MailStart, MailNext, PTL DEF Spec

-----------------------------------------------------------------------------
(* CleanRestart.  A name that no crash and no failed start left behind is  *)
(* the name of a mailbox that lives or starts, so a restart gets a new     *)
(* segment; and while it starts nobody can send to that.                   *)

\* A sender has segment g open, or is about to
Reached(g) ==
  \/ \E a \in Box : opening[a] # None /\ opening[a].seg = g
  \/ \E a \in Box, s \in Slot : handles[a][s] # None /\ handles[a][s].seg = g
Starting(b) == stage[b] # "off" /\ IdOf[b] \notin leftover

NamesOwned ==
  \A i \in Id : linked[i] # None =>
    i \in leftover \/ \E d \in Box : Published(d, i) /\ (d \in created \/ stage[d] # "off")
StartsEmpty == \A b \in Box : Starting(b) => ring[base[b]] = {} /\ ~Reached(base[b])
RestartInv == MailInv /\ NamesOwned /\ StartsEmpty

\* A step that starts no mailbox, reaches no new segment, and stores messages
\* only in segments that are reached
NoNewStart ==
  \A b \in Box : Starting(b)' => Starting(b) /\ base'[b] = base[b]
LEMMA StartsKept ==
  ASSUME RestartInv, NoNewStart,
         \A g \in Segment : Reached(g)' => Reached(g),
         \A g \in Segment : ring[g] = {} => ring'[g] = {} \/ Reached(g)
  PROVE StartsEmpty'
  <1> SUFFICES ASSUME NEW b \in Box, Starting(b)' PROVE ring'[base'[b]] = {} /\ ~Reached(base[b])'
    BY Zenon DEF StartsEmpty
  <1>1. Starting(b) /\ base'[b] = base[b]
    BY Zenon DEF NoNewStart
  <1>2. base[b] \in Segment
    BY Zenon, <1>1 DEF Starting, RestartInv, MailInv, Mapped
  <1>3. ring[base[b]] = {} /\ ~Reached(base[b])
    BY Zenon, <1>1 DEF RestartInv, StartsEmpty
  <1>4. ring'[base[b]] = {}
    BY Zenon, <1>2, <1>3
  <1>5. ~Reached(base[b])'
    <2>1. PICK g : g = base[b]
      BY Zenon
    <2>2. ~Reached(g)'
      BY Zenon, <1>2, <1>3, <2>1
    <2>3. base'[b] = g
      BY Zenon, <1>1, <2>1
    <2> QED BY Zenon, <2>2, <2>3 DEF Reached
  <1> QED BY Zenon, <1>1, <1>4, <1>5

\* A step that leaves names, stages and handles alone
LEMMA RestartQuiet ==
  ASSUME RestartInv, MailInv', UNCHANGED <<stage, linked, base, leftover, handles, opening>>,
         created \subseteq created',
         \A g \in Segment : ring[g] = {} => ring'[g] = {} \/ Reached(g)
  PROVE RestartInv'
  <1>1. NamesOwned'
    BY Zenon DEF RestartInv, NamesOwned, Published
  <1>2. NoNewStart
    BY Zenon DEF NoNewStart, Starting
  <1>3. \A g \in Segment : Reached(g)' => Reached(g)
    BY Zenon DEF Reached
  <1> QED BY Zenon, <1>1, <1>2, <1>3, StartsKept DEF RestartInv

LEMMA PostElsewhere ==
  ASSUME MailInv, NEW m, NEW r, Post(r, m), NEW g \in Segment, g # r
  PROVE ring'[g] = ring[g]
  <1>1. ring' = ring \/ \E S : ring' = [ring EXCEPT ![r] = S]
    BY Zenon DEF Post, Gone
  <1>2. g \in Box \cup Segment /\ ring \in [Box \cup Segment -> SUBSET Msg]
    BY Zenon DEF MailInv, Stores
  <1> QED BY Zenon, <1>1, <1>2

LEMMA RestartSend ==
  ASSUME RestartInv, MailInv', NEW b \in Box, NEW m \in Msg,
         SendLocal(b, m) \/ SendCached(b, m) \/ SendNetwork(b, m) \/ RouterWrites(b, m)
  PROVE RestartInv' /\ created' = created
  <1>1. UNCHANGED <<stage, linked, base, leftover, handles, opening, created>>
    BY Zenon DEF SendLocal, SendCached, SendNetwork, RouterWrites, shmVars, cacheVars
  <1>2. ASSUME NEW g \in Segment PROVE ring'[g] = ring[g] \/ Reached(g)
    <2>1. g \notin Box /\ g # None /\ g \in Box \cup Segment /\ ring \in [Box \cup Segment -> SUBSET Msg]
      BY Zenon, EvlMailboxAssumption DEF RestartInv, MailInv, Stores
    <2>2. CASE SendLocal(b, m)
      <3>1. PICK l : l = InProcess(b, Dest[m])
        BY Zenon
      <3>2. l # None => l \in Box
        BY Zenon, <3>1 DEF InProcess, RestartInv, MailInv, HandleTypes
      <3>3. (l # None /\ Post(l, m)) \/ ring' = ring
        BY Zenon, <2>2, <3>1 DEF SendLocal, Gone
      <3> QED BY Zenon, <2>1, <3>2, <3>3, PostElsewhere DEF RestartInv
    <2>3. CASE SendCached(b, m)
      <3>1. PICK s \in Slot : handles[b][s] # None /\ Post(handles[b][s].seg, m)
        BY Zenon, <2>3 DEF SendCached, HandleOf
      <3> QED BY Zenon, <3>1, PostElsewhere DEF RestartInv, Reached
    <2>4. CASE SendNetwork(b, m)
      <3>1. ring' = ring \/ \E a \in Box : ring' = [ring EXCEPT ![a] = ring[a] \cup {m}]
        BY Zenon, <2>4 DEF SendNetwork, Gone
      <3> QED BY Zenon, <2>1, <3>1
    <2>5. CASE RouterWrites(b, m)
      BY Zenon, <2>5 DEF RouterWrites
    <2> QED BY Zenon, <2>2, <2>3, <2>4, <2>5
  <1> QED BY Zenon, <1>1, <1>2, RestartQuiet

LEMMA RestartReceive ==
  ASSUME RestartInv, MailInv', NEW b \in Box,
         InitLocal(b) \/ InitNetwork(b) \/ ReceiveRing(b) \/ ReceiveNetwork(b) \/ ReceiveXbuf(b)
  PROVE RestartInv' /\ \A d \in created' \ created : ModeOf[d] # "Public"
  <1>1. UNCHANGED <<stage, linked, base, leftover, handles, opening>>
    BY Zenon DEF InitLocal, InitNetwork, ReceiveRing, ReceiveNetwork, ReceiveXbuf, shmVars, cacheVars
  <1>2. created' = created \/ (created' = created \cup {b} /\ ModeOf[b] # "Public")
    BY DEF InitLocal, InitNetwork, ReceiveRing, ReceiveNetwork, ReceiveXbuf, Start
  <1>3. ring' = ring \/ \E r : \E S \in SUBSET ring[r] : ring' = [ring EXCEPT ![r] = S]
    <2>1. CASE InitLocal(b)
      BY Zenon, <2>1 DEF InitLocal
    <2>2. CASE InitNetwork(b) \/ ReceiveXbuf(b)
      BY Zenon, <2>2 DEF InitNetwork, ReceiveXbuf, mailVars
    <2>3. CASE ReceiveRing(b)
      BY Zenon, <2>3 DEF ReceiveRing
    <2>4. CASE ReceiveNetwork(b)
      BY Zenon, <2>4 DEF ReceiveNetwork
    <2> QED BY Zenon, <2>1, <2>2, <2>3, <2>4
  <1>4. ring \in [Box \cup Segment -> SUBSET Msg]
    BY Zenon DEF RestartInv, MailInv, Stores
  <1>5. ASSUME NEW g \in Segment, ring[g] = {} PROVE ring'[g] = {}
    BY <1>3, <1>4, <1>5
  <1> QED BY Zenon, <1>1, <1>2, <1>5, RestartQuiet

LEMMA RestartOpened ==
  ASSUME RestartInv, MailInv', NEW b \in Box, OpenRemote(b)
  PROVE RestartInv' /\ created' = created
  <1>1. UNCHANGED <<stage, linked, base, leftover, created>>
    BY Zenon DEF OpenRemote, shmVars
  <1>2. PICK o : o = opening[b] /\ o # None /\ opening' = [opening EXCEPT ![b] = None]
    BY Zenon DEF OpenRemote
  <1>3. PICK h : h.seg = o.seg /\ h = [dest |-> Dest[o.msg], seg |-> o.seg, whole |-> o.whole]
    BY Zenon
  <1>4. \/ handles' = [handles EXCEPT ![b][o.slot] = h] /\ Post(o.seg, o.msg)
        \/ handles' = handles /\ UNCHANGED ring
    BY Zenon, <1>2, <1>3 DEF OpenRemote, Gone
  <1>5. Reached(o.seg)
    BY Zenon, <1>2 DEF Reached
  <1>6. \A a \in Box, s \in Slot : handles'[a][s] = handles[a][s] \/ handles'[a][s] = h
    <2>1. handles \in [Box -> [Slot -> Handle \cup {None}]]
      BY Zenon DEF RestartInv, MailInv, HandleTypes
    <2> HIDE DEF RestartInv
    <2>2. CASE handles' = [handles EXCEPT ![b][o.slot] = h]
      BY Zenon, <2>1, <2>2
    <2> QED BY Zenon, <1>4, <2>2
  <1>7. \A a \in Box : opening'[a] = opening[a] \/ opening'[a] = None
    BY Zenon, <1>2 DEF RestartInv, MailInv, HandleTypes
  <1>8. ASSUME NEW g \in Segment, Reached(g)' PROVE Reached(g)
    <2>1. CASE \E a \in Box : opening'[a] # None /\ opening'[a].seg = g
      BY Zenon, <2>1, <1>7 DEF Reached
    <2>2. CASE \E a \in Box, s \in Slot : handles'[a][s] # None /\ handles'[a][s].seg = g
      BY Zenon, <2>2, <1>3, <1>5, <1>6 DEF Reached
    <2> QED BY Zenon, <1>8, <2>1, <2>2 DEF Reached
  <1>9. ASSUME NEW g \in Segment, ring[g] = {} PROVE ring'[g] = {} \/ Reached(g)
    BY Zenon, <1>4, <1>5, <1>9, PostElsewhere DEF RestartInv
  <1>10. NamesOwned'
    BY Zenon, <1>1 DEF RestartInv, NamesOwned, Published
  <1>11. NoNewStart
    BY Zenon, <1>1 DEF NoNewStart, Starting
  <1> QED BY Zenon, <1>1, <1>8, <1>9, <1>10, <1>11, StartsKept DEF RestartInv

\* An open begins with a name whose mailbox is not starting
LEMMA RestartOpen ==
  ASSUME RestartInv, MailInv', ~Racing, NEW b \in Box, NEW m \in Msg, SendOpen(b, m)
  PROVE RestartInv' /\ created' = created
  <1>1. /\ UNCHANGED <<stage, linked, base, leftover, created, ring>>
        /\ \A a \in Box : IdOf[a] = Dest[m] => stage[a] = "off"
    BY Zenon DEF SendOpen, shmVars, Gone
  <1>2. PICK k : /\ handles' = [handles EXCEPT ![b][k] = None]
                 /\ \/ UNCHANGED opening
                    \/ /\ linked[Dest[m]] # None
                       /\ opening' = [opening EXCEPT ![b] =
                            [slot |-> k, seg |-> linked[Dest[m]], whole |-> linked[Dest[m]] \in header, msg |-> m]]
    BY Zenon DEF SendOpen
  <1>3. \A a \in Box, r \in Slot : handles'[a][r] = handles[a][r] \/ handles'[a][r] = None
    BY Zenon, <1>2 DEF RestartInv, MailInv, HandleTypes
  <1>4. \A a \in Box : opening'[a] = opening[a] \/ opening'[a].seg = linked[Dest[m]]
    BY <1>2 DEF RestartInv, MailInv, HandleTypes
  <1>5. ASSUME NEW g \in Segment, Reached(g)' PROVE Reached(g) \/ g = linked[Dest[m]]
    <2>1. CASE \E a \in Box : opening'[a] # None /\ opening'[a].seg = g
      BY Zenon, <2>1, <1>4 DEF Reached
    <2>2. CASE \E a \in Box, s \in Slot : handles'[a][s] # None /\ handles'[a][s].seg = g
      BY Zenon, <2>2, <1>3 DEF Reached
    <2> QED BY Zenon, <1>5, <2>1, <2>2 DEF Reached
  <1>6. ASSUME NEW a \in Box, Starting(a) PROVE base[a] \in Segment /\ base[a] # linked[Dest[m]]
    <2>1. base[a] \in Segment /\ ModeOf[a] = "Public" /\ IdOf[a] \in Id /\ Dest[m] \in Id
      BY Zenon, <1>6, EvlMailboxAssumption DEF RestartInv, MailInv, Mapped, Starting
    <2>2. Leads(base[a], IdOf[a])
      BY Zenon, <2>1 DEF Leads
    <2>3. base[a] = linked[Dest[m]] => Leads(base[a], Dest[m])
      BY Zenon DEF Leads
    <2>4. IdOf[a] # Dest[m]
      BY Zenon, <1>1, <1>6 DEF Starting
    <2> QED BY Zenon, <2>1, <2>2, <2>3, <2>4 DEF RestartInv, MailInv, Addressed
  <1>7. StartsEmpty'
    <2> SUFFICES ASSUME NEW a \in Box, Starting(a)' PROVE ring'[base'[a]] = {} /\ ~Reached(base[a])'
      BY Zenon DEF StartsEmpty
    <2>1. Starting(a) /\ base'[a] = base[a]
      BY Zenon, <1>1 DEF Starting
    <2>2. ring[base[a]] = {} /\ ~Reached(base[a])
      BY Zenon, <2>1 DEF RestartInv, StartsEmpty
    <2>3. PICK g : g = base[a] /\ g \in Segment /\ g # linked[Dest[m]]
      BY Zenon, <1>6, <2>1
    <2>4. ~Reached(g)'
      BY Zenon, <1>5, <2>2, <2>3
    <2> QED BY Zenon, <1>1, <2>1, <2>2, <2>3, <2>4 DEF Reached
  <1>8. NamesOwned'
    BY Zenon, <1>1 DEF RestartInv, NamesOwned, Published
  <1> QED BY Zenon, <1>1, <1>7, <1>8 DEF RestartInv

\* The later steps of initialize(): a failure leaves the name behind
LEMMA RestartInitialize ==
  ASSUME RestartInv, MailInv', NEW b \in Box, InitHeader(b) \/ InitObjects(b) \/ InitXbuf(b)
  PROVE /\ RestartInv'
        /\ \A d \in created' \ created : IdOf[d] \notin leftover => ring[base[d]] = {}
  <1>1. UNCHANGED <<linked, base, handles, opening, ring>> /\ stage[b] # "off"
    BY Zenon DEF InitHeader, InitObjects, InitXbuf, cacheVars, mailVars
  <1>2. PICK v : /\ stage' = [stage EXCEPT ![b] = v]
                 /\ \/ leftover' = leftover /\ created' = created /\ v # "off"
                    \/ leftover' = leftover \cup {IdOf[b]} /\ created' = created /\ v = "off"
                    \/ leftover' = leftover \ {IdOf[b]} /\ created' = created \cup {b} /\ v = "off"
    BY DEF InitHeader, InitObjects, InitXbuf
  <1>3. \A a \in Box : stage'[a] = (IF a = b THEN v ELSE stage[a])
    BY Zenon, <1>2 DEF RestartInv, MailInv, HandleTypes
  <1>4. \A a \in Box : stage[a] # "off" /\ IdOf[a] = IdOf[b] => a = b
    BY Zenon, <1>1, EvlMailboxAssumption DEF RestartInv, MailInv, Mapped
  <1>5. NoNewStart
    <2> SUFFICES ASSUME NEW a \in Box, Starting(a)' PROVE Starting(a) /\ base'[a] = base[a]
      BY Zenon DEF NoNewStart
    <2>1. stage[a] # "off"
      BY Zenon, <1>1, <1>3 DEF Starting
    <2>2. IdOf[a] \notin leftover
      <3>1. CASE leftover \subseteq leftover'
        BY Zenon, <3>1 DEF Starting
      <3>2. CASE leftover' = leftover \ {IdOf[b]} /\ v = "off"
        BY Zenon, <3>2, <1>3, <1>4, <2>1 DEF Starting
      <3> QED BY Zenon, <1>2, <3>1, <3>2
    <2> QED BY Zenon, <2>1, <2>2, <1>1 DEF Starting
  <1>6. \A g \in Segment : Reached(g)' => Reached(g)
    BY Zenon, <1>1 DEF Reached
  <1>7. NamesOwned'
    <2> SUFFICES ASSUME NEW i \in Id, linked[i] # None, i \notin leftover'
                 PROVE \E d \in Box : Published(d, i) /\ (d \in created' \/ stage'[d] # "off")
      BY Zenon, <1>1 DEF NamesOwned, Published
    <2>1. CASE i = IdOf[b]
      <3>1. Published(b, i)
        BY Zenon, <2>1, <1>1 DEF Published, RestartInv, MailInv, Mapped
      <3>2. b \in created' \/ stage'[b] # "off"
        BY Zenon, <2>1, <1>2, <1>3
      <3> QED BY Zenon, <3>1, <3>2
    <2>2. CASE i # IdOf[b]
      <3>1. i \notin leftover
        BY Zenon, <2>2, <1>2
      <3>2. PICK d \in Box : Published(d, i) /\ (d \in created \/ stage[d] # "off")
        BY Zenon, <3>1 DEF RestartInv, NamesOwned
      <3>3. d # b
        BY Zenon, <2>2, <3>2 DEF Published
      <3> QED BY Zenon, <3>2, <3>3, <1>2, <1>3
    <2> QED BY Zenon, <2>1, <2>2
  <1>8. ASSUME NEW d \in created' \ created, IdOf[d] \notin leftover PROVE ring[base[d]] = {}
    <2>1. d = b
      BY Zenon, <1>2
    <2> QED BY Zenon, <2>1, <1>1, <1>8 DEF RestartInv, StartsEmpty, Starting
  <1> QED BY Zenon, <1>1, <1>5, <1>6, <1>7, <1>8, StartsKept DEF RestartInv

\* allocate_ring() of a name that nobody left behind makes a new segment
LEMMA RestartAllocate ==
  ASSUME RestartInv, MailInv', NEW b \in Box, InitAllocate(b)
  PROVE RestartInv' /\ created' = created
  <1>1. /\ IdOf[b] \in Id /\ ModeOf[b] = "Public" /\ b \notin created /\ stage[b] = "off"
        /\ UNCHANGED <<created, leftover, handles, opening>>
        /\ stage' = [stage EXCEPT ![b] = "allocated"]
    BY Zenon, EvlMailboxAssumption DEF InitAllocate, Start, cacheVars
  <1>2. linked[IdOf[b]] # None => IdOf[b] \in leftover
    <2> SUFFICES ASSUME linked[IdOf[b]] # None, IdOf[b] \notin leftover PROVE FALSE
      BY Zenon
    <2>1. PICK d \in Box : Published(d, IdOf[b]) /\ (d \in created \/ stage[d] # "off")
      BY Zenon, <1>1 DEF RestartInv, NamesOwned
    <2>2. d = b
      BY Zenon, <1>1, <2>1, EvlMailboxAssumption DEF Published
    <2> QED BY Zenon, <1>1, <2>1, <2>2
  <1>3. PICK g : /\ linked' = [linked EXCEPT ![IdOf[b]] = g] /\ base' = [base EXCEPT ![b] = g]
                 /\ \/ IdOf[b] \in leftover /\ ring' = ring
                    \/ /\ g \in Segment /\ ~Reached(g)
                       /\ ring' = [ring EXCEPT ![g] = {}]
    <2>1. CASE linked[IdOf[b]] = None
      <3>1. PICK U : /\ U = {g \in Segment : /\ \A i \in Id : linked[i] # g
                                             /\ \A a \in Box : /\ base[a] # g
                                                               /\ opening[a] # None => opening[a].seg # g
                                                               /\ \A s \in Slot : handles[a][s] # None
                                                                                    => handles[a][s].seg # g}
        BY Zenon
      <3>2. /\ U # {} /\ linked' = [linked EXCEPT ![IdOf[b]] = CHOOSE v \in U : TRUE]
            /\ base' = [base EXCEPT ![b] = CHOOSE v \in U : TRUE]
            /\ ring' = [ring EXCEPT ![CHOOSE v \in U : TRUE] = {}]
        BY Zenon, <2>1, <3>1 DEF InitAllocate
      <3>3. PICK u : u = CHOOSE v \in U : TRUE
        BY Zenon
      <3>4. u \in U
        BY Zenon, <3>2, <3>3
      <3>5. u \in Segment /\ ~Reached(u)
        BY Zenon, <3>1, <3>4 DEF Reached
      <3> QED BY Zenon, <3>2, <3>3, <3>5
    <2>2. CASE linked[IdOf[b]] # None
      <3>1. /\ linked' = [linked EXCEPT ![IdOf[b]] = linked[IdOf[b]]]
            /\ base' = [base EXCEPT ![b] = linked[IdOf[b]]] /\ ring' = ring
        BY <2>2 DEF InitAllocate
      <3> QED BY Zenon, <3>1, <1>2, <2>2
    <2> QED BY Zenon, <2>1, <2>2
  <1>4. /\ \A i \in Id : linked'[i] = (IF i = IdOf[b] THEN g ELSE linked[i])
        /\ \A a \in Box : base'[a] = (IF a = b THEN g ELSE base[a])
        /\ \A a \in Box : stage'[a] = (IF a = b THEN "allocated" ELSE stage[a])
    BY Zenon, <1>1, <1>3 DEF RestartInv, MailInv, HandleTypes
  <1>5. NamesOwned'
    <2> SUFFICES ASSUME NEW i \in Id, linked'[i] # None, i \notin leftover
                 PROVE \E d \in Box : Published(d, i) /\ (d \in created \/ stage'[d] # "off")
      BY Zenon, <1>1 DEF NamesOwned, Published
    <2>1. CASE i = IdOf[b]
      <3>1. stage'[b] # "off" /\ Published(b, i)
        BY <2>1, <1>1, <1>4 DEF Published
      <3> QED BY Zenon, <3>1
    <2>2. CASE i # IdOf[b]
      <3>1. PICK d \in Box : Published(d, i) /\ (d \in created \/ stage[d] # "off")
        BY Zenon, <2>2, <1>4 DEF RestartInv, NamesOwned
      <3> QED BY ZenonT(40), <3>1, <1>1, <1>4
    <2> QED BY Zenon, <2>1, <2>2
  <1>6. StartsEmpty'
    <2> SUFFICES ASSUME NEW a \in Box, Starting(a)' PROVE ring'[base'[a]] = {} /\ ~Reached(base[a])'
      BY Zenon DEF StartsEmpty
    <2>1. ring \in [Box \cup Segment -> SUBSET Msg]
      BY Zenon DEF RestartInv, MailInv, Stores
    <2>2. IdOf[a] \notin leftover
      BY Zenon, <1>1 DEF Starting
    <2>3. CASE a = b
      <3>1. g \in Segment /\ ~Reached(g) /\ ring' = [ring EXCEPT ![g] = {}]
        BY Zenon, <1>3, <2>2, <2>3
      <3>2. base'[a] = g /\ ring'[g] = {}
        BY Zenon, <2>1, <2>3, <3>1, <1>4
      <3> QED BY Zenon, <3>1, <3>2, <1>1 DEF Reached
    <2>4. CASE a # b
      <3>1. Starting(a) /\ base'[a] = base[a]
        BY Zenon, <2>2, <2>4, <1>4 DEF Starting
      <3>2. base[a] \in Box \cup Segment /\ ring[base[a]] = {} /\ ~Reached(base[a])
        BY Zenon, <3>1 DEF Starting, RestartInv, MailInv, Mapped, StartsEmpty
      <3>3. ring'[base[a]] = {}
        BY <1>3, <2>1, <3>2
      <3> QED BY Zenon, <3>1, <3>2, <3>3, <1>1 DEF Reached
    <2> QED BY Zenon, <2>3, <2>4
  <1> QED BY Zenon, <1>1, <1>5, <1>6 DEF RestartInv

\* shutdown() takes the name away; a crash is remembered as the one who left it
LEMMA RestartShutdown ==
  ASSUME RestartInv, MailInv', NEW b \in Box, Shutdown(b)
  PROVE RestartInv' /\ created' \subseteq created
  <1>1. /\ UNCHANGED <<opening, stage, leftover>> /\ b \in created /\ created' = created \ {b}
        /\ base' = [base EXCEPT ![b] = None] /\ handles' = [handles EXCEPT ![b] = [s \in Slot |-> None]]
        /\ Discard({b})
        /\ linked' = IF ModeOf[b] = "Public" THEN [linked EXCEPT ![IdOf[b]] = None] ELSE linked
    BY Zenon DEF Shutdown, close_all_remotes
  <1>2. /\ \A a \in Box : base'[a] = (IF a = b THEN None ELSE base[a])
        /\ \A i \in Id : /\ linked'[i] # None => linked[i] # None
                         /\ linked'[i] # None => ~Published(b, i)
    BY <1>1, EvlMailboxAssumption DEF RestartInv, MailInv, HandleTypes, Published
  <1>3. \A a \in Box, s \in Slot : handles'[a][s] = handles[a][s] \/ handles'[a][s] = None
    BY Zenon, <1>1 DEF RestartInv, MailInv, HandleTypes
  <1>4. NamesOwned'
    <2> SUFFICES ASSUME NEW i \in Id, linked'[i] # None, i \notin leftover
                 PROVE \E d \in Box : Published(d, i) /\ (d \in created' \/ stage[d] # "off")
      BY Zenon, <1>1 DEF NamesOwned, Published
    <2>1. PICK d \in Box : Published(d, i) /\ (d \in created \/ stage[d] # "off")
      BY Zenon, <1>2 DEF RestartInv, NamesOwned
    <2> QED BY Zenon, <2>1, <1>1, <1>2
  <1>5. stage[b] = "off"
    BY Zenon, <1>1 DEF RestartInv, MailInv, Mapped
  <1>6. NoNewStart
    BY Zenon, <1>1, <1>2, <1>5 DEF NoNewStart, Starting
  <1>7. \A g \in Segment : Reached(g)' => Reached(g)
    BY Zenon, <1>1, <1>3 DEF Reached
  <1>8. \A g \in Segment : ring[g] = {} => ring'[g] = {}
    BY Zenon, <1>1 DEF Discard
  <1> QED BY Zenon, <1>1, <1>4, <1>6, <1>7, <1>8, StartsKept DEF RestartInv
LEMMA RestartCrash ==
  ASSUME RestartInv, MailInv', NEW p \in Proc, Crash(p)
  PROVE RestartInv' /\ created' \subseteq created
  <1>1. PICK B : B = {b \in Box : ProcOf[b] = p}
    BY Zenon
  <1>2. /\ UNCHANGED linked /\ created' = created \ B /\ Discard(B)
        /\ stage' = [b \in Box |-> IF b \in B THEN "off" ELSE stage[b]]
        /\ base' = [b \in Box |-> IF b \in B THEN None ELSE base[b]]
        /\ handles' = [b \in Box |-> IF b \in B THEN [s \in Slot |-> None] ELSE handles[b]]
        /\ opening' = [b \in Box |-> IF b \in B THEN None ELSE opening[b]]
        /\ leftover' = leftover \cup {i \in Id : \E b \in B : IdOf[b] = i /\ base[b] # None}
    BY Zenon, <1>1 DEF Crash
  <1>3. \A b \in Box : /\ stage'[b] = (IF b \in B THEN "off" ELSE stage[b])
                       /\ base'[b] = (IF b \in B THEN None ELSE base[b])
                       /\ opening'[b] = (IF b \in B THEN None ELSE opening[b])
    BY Zenon, <1>2
  <1>4. \A a \in Box, s \in Slot : handles'[a][s] = handles[a][s] \/ handles'[a][s] = None
    BY Zenon, <1>2
  <1>5. NamesOwned'
    <2> SUFFICES ASSUME NEW i \in Id, linked[i] # None, i \notin leftover'
                 PROVE \E d \in Box : Published(d, i) /\ (d \in created' \/ stage'[d] # "off")
      BY Zenon, <1>2 DEF NamesOwned, Published
    <2>1. PICK d \in Box : Published(d, i) /\ (d \in created \/ stage[d] # "off")
      BY Zenon, <1>2 DEF RestartInv, NamesOwned
    <2>2. base[d] \in Segment
      BY Zenon, <2>1 DEF Published, RestartInv, MailInv, Mapped
    <2>3. None \notin Segment
      BY Zenon, EvlMailboxAssumption
    <2>4. d \notin B
      BY Zenon, <2>1, <2>2, <2>3, <1>2 DEF Published
    <2> QED BY Zenon, <2>1, <2>4, <1>2, <1>3
  <1>6. NoNewStart
    BY Zenon, <1>2, <1>3 DEF NoNewStart, Starting
  <1>7. \A g \in Segment : Reached(g)' => Reached(g)
    BY Zenon, <1>3, <1>4 DEF Reached
  <1>8. \A g \in Segment : ring[g] = {} => ring'[g] = {}
    BY Zenon, <1>2 DEF Discard
  <1> QED BY Zenon, <1>2, <1>5, <1>6, <1>7, <1>8, StartsKept DEF RestartInv

\* CleanRestart: a Public mailbox that starts after a shutdown() finds no message
\* meant for its predecessor (shm_unlink() in free_ring(), and the segment that
\* shm_open(O_CREAT) makes), when no open_remote() overlaps with the start.
THEOREM RestartsClean == ~Racing => (Spec => CleanRestart)
  <1> SUFFICES ASSUME ~Racing PROVE Spec => CleanRestart
    BY Zenon
  <1> DEFINE Clean == \A b \in created' \ created :
                        ModeOf[b] = "Public" /\ IdOf[b] \notin leftover => ring[base[b]] = {}
  <1>1. Init => RestartInv
    <2> SUFFICES ASSUME Init PROVE RestartInv
      BY Zenon
    <2>1. NamesOwned /\ StartsEmpty
      BY Zenon DEF Init, NamesOwned, StartsEmpty, Starting
    <2> QED BY Zenon, <2>1, MailStart DEF RestartInv
  <1>2. ASSUME RestartInv, [Next]_vars PROVE RestartInv' /\ Clean
    <2>1. MailInv'
      BY Zenon, <1>2, MailNext DEF RestartInv
    <2>2. CASE UNCHANGED vars
      <3>1. UNCHANGED <<created, stage, linked, base, leftover, handles, opening, ring>>
        BY Zenon, <2>2 DEF vars, shmVars, cacheVars, mailVars
      <3> QED BY Zenon, <1>2, <2>1, <3>1, RestartQuiet
    <2>3. used.boxes \subseteq Box /\ used.msgs \subseteq Msg
      BY <1>2, EvlMailboxAssumption DEF RestartInv, MailInv, HandleTypes
    <2>4. ASSUME NEW b \in Box, BoxStep(b) PROVE RestartInv' /\ Clean
      BY Zenon, <1>2, <2>1, <2>4, RestartReceive, RestartInitialize, RestartAllocate, RestartShutdown,
         RestartOpened DEF BoxStep
    <2>5. ASSUME NEW b \in Box, NEW m \in Msg, Send(b, m) PROVE RestartInv' /\ Clean
      BY Zenon, <1>2, <2>1, <2>5, RestartSend, RestartOpen DEF Send
    <2>6. ASSUME NEW p \in Proc, Crash(p) PROVE RestartInv' /\ Clean
      BY Zenon, <1>2, <2>1, <2>6, RestartCrash
    <2> QED BY Zenon, <1>2, <2>2, <2>3, <2>4, <2>5, <2>6 DEF Next
  <1> QED BY <1>1, <1>2, PTL DEF Spec, CleanRestart

-----------------------------------------------------------------------------
(* Deposited follows from the invariants of the registry and of the remote *)
(* handles: whatever way send_raw() finds, it leads to the mailbox.        *)

\* No id is that of a Public and of a Network mailbox
ModesApart ==
  \A a, d \in Box : ModeOf[a] = "Network" /\ ModeOf[d] = "Public" => IdOf[a] # IdOf[d]

Fates == fate \in [Msg -> {"unsent", "stored", "gone"}]
DepositInv == MailInv /\ HandleInv /\ RegInv /\ Fates
\* Where the live Public mailbox d, or a Local one of its id in the process of
\* the sender, finds message m after a step
Within(m, d) ==
  \/ m \in ring'[base[d]] \cup inbound'[d]
  \/ \E l \in created : /\ ModeOf[l] = "Local" /\ IdOf[l] = Dest[m]
                        /\ ProcOf[l] = ProcOf[Src[m]] /\ m \in ring'[l]
Accepted(m) == fate[m] = "unsent" /\ fate'[m] = "stored"
Arrives ==
  \A m \in Msg : Accepted(m) =>
    \A d \in created : ModeOf[d] = "Public" /\ IdOf[d] = Dest[m] => Within(m, d)

LEMMA PostAccepts ==
  ASSUME DepositInv, NEW r \in Box \cup Segment, NEW n \in Msg, Post(r, n)
  PROVE Fates' /\ \A m \in Msg : Accepted(m) => m = n /\ m \in ring'[r]
  <1>1. ring \in [Box \cup Segment -> SUBSET Msg] /\ Fates
    BY Zenon DEF DepositInv, MailInv, Stores
  <1>2. CASE ring' = [ring EXCEPT ![r] = ring[r] \cup {n}] /\ fate' = [fate EXCEPT ![n] = "stored"]
    BY <1>1, <1>2 DEF Fates, Accepted
  <1>3. ASSUME NEW w \in ring[r], ring' = [ring EXCEPT ![r] = (ring[r] \ {w}) \cup {n}],
               fate' = [fate EXCEPT ![n] = "stored", ![w] = "gone"]
        PROVE Fates' /\ \A m \in Msg : Accepted(m) => m = n /\ m \in ring'[r]
    BY <1>1, <1>3 DEF Fates, Accepted
  <1>4. CASE fate' = [fate EXCEPT ![n] = "gone"]
    BY <1>1, <1>4 DEF Fates, Accepted
  <1> QED BY Zenon, <1>2, <1>3, <1>4 DEF Post, Gone

LEMMA GoneAccepts ==
  ASSUME Fates, NEW n \in Msg, fate' = [fate EXCEPT ![n] = "gone"]
  PROVE Fates' /\ Arrives
  <1>1. Fates' /\ \A m \in Msg : ~Accepted(m)
    BY DEF Fates, Accepted
  <1> QED BY Zenon, <1>1 DEF Arrives

LEMMA DepositSendLocal ==
  ASSUME DepositInv, NEW b \in Box, NEW n \in Msg, SendLocal(b, n)
  PROVE Fates' /\ Arrives
  <1>1. PICK l : l = registry_find(tbl[ProcOf[b]], Dest[n])
    BY Zenon
  <1>2. Src[n] = b /\ Dest[n] \in Id /\ ProcOf[b] \in Proc
    BY Zenon, EvlMailboxAssumption DEF SendLocal, Sendable
  <1>3. \/ l # None /\ l \in created /\ IdOf[l] = Dest[n] /\ Post(l, n)
        \/ fate' = [fate EXCEPT ![n] = "gone"]
    BY Zenon, <1>1 DEF SendLocal, InProcess, Gone
  <1>4. CASE l # None /\ l \in created /\ IdOf[l] = Dest[n] /\ Post(l, n)
    <2>1. ModeOf[l] = "Local" /\ ProcOf[l] = ProcOf[b]
      <3>1. l = latest[ProcOf[b]][Dest[n]]
        BY Zenon, <1>1, <1>2 DEF DepositInv, RegInv
      <3> QED BY Zenon, <3>1, <1>2, <1>4 DEF DepositInv, RegInv
    <2>2. l \in Box \cup Segment
      BY Zenon, <1>4 DEF DepositInv, RegInv
    <2>3. Fates' /\ \A m \in Msg : Accepted(m) => m = n /\ m \in ring'[l]
      BY Zenon, <1>4, <2>2, PostAccepts
    <2> QED BY Zenon, <1>2, <1>4, <2>1, <2>3 DEF Arrives, Within
  <1> QED BY Zenon, <1>3, <1>4, GoneAccepts DEF DepositInv

LEMMA DepositSendCached ==
  ASSUME DepositInv, NEW b \in Box, NEW n \in Msg, SendCached(b, n)
  PROVE Fates' /\ Arrives
  <1>1. PICK s \in Slot : /\ handles[b][s] # None /\ handles[b][s].dest = Dest[n]
                          /\ Post(handles[b][s].seg, n)
    BY Zenon DEF SendCached, HandleOf
  <1>2. PICK g : g = handles[b][s].seg
    BY Zenon
  <1>3. g \in Segment
    BY <1>1, <1>2 DEF DepositInv, MailInv, HandleTypes, Handle
  <1>4. ASSUME NEW d \in created, ModeOf[d] = "Public", IdOf[d] = Dest[n] PROVE base[d] = g
    <2>1. d \in Box
      BY Zenon, <1>4 DEF DepositInv, MailInv, HandleTypes
    <2>2. Published(d, handles[b][s].dest) /\ Ready(d)
      BY Zenon, <1>1, <1>4 DEF Published, Ready
    <2>3. HandleLeads
      BY Zenon DEF DepositInv, HandleInv
    <2>4. \A c \in Box : Published(c, handles[b][s].dest) /\ Ready(c) => handles[b][s].seg = base[c]
      BY <1>1, <2>3 DEF HandleLeads
    <2>5. handles[b][s].seg = base[d]
      BY Zenon, <2>1, <2>2, <2>4
    <2> QED BY Zenon, <1>2, <2>5
  <1>5. Fates' /\ \A m \in Msg : Accepted(m) => m = n /\ m \in ring'[g]
    BY Zenon, <1>1, <1>2, <1>3, PostAccepts
  <1> QED BY Zenon, <1>4, <1>5 DEF Arrives, Within

LEMMA DepositOpenRemote ==
  ASSUME DepositInv, NEW b \in Box, OpenRemote(b)
  PROVE Fates' /\ Arrives
  <1>1. PICK o : o = opening[b] /\ o # None
    BY Zenon DEF OpenRemote
  <1>2. o.seg \in Segment /\ o.msg \in Msg
    BY Zenon, <1>1 DEF DepositInv, MailInv, HandleTypes
  <1>3. Post(o.seg, o.msg) \/ fate' = [fate EXCEPT ![o.msg] = "gone"]
    BY Zenon, <1>1 DEF OpenRemote, Gone
  <1>4. ASSUME NEW d \in created, ModeOf[d] = "Public", IdOf[d] = Dest[o.msg] PROVE base[d] = o.seg
    <2>1. d \in Box
      BY Zenon, <1>4 DEF DepositInv, MailInv, HandleTypes
    <2> QED BY Zenon, <1>1, <1>4, <2>1 DEF DepositInv, HandleInv, OpeningCurrent, Published
  <1>5. CASE Post(o.seg, o.msg)
    <2>1. Fates' /\ \A m \in Msg : Accepted(m) => m = o.msg /\ m \in ring'[o.seg]
      BY Zenon, <1>2, <1>5, PostAccepts
    <2> QED BY Zenon, <1>4, <2>1 DEF Arrives, Within
  <1> QED BY Zenon, <1>2, <1>3, <1>5, GoneAccepts DEF DepositInv

LEMMA DepositSendNetwork ==
  ASSUME DepositInv, PortsTell, ModesApart, NEW b \in Box, NEW n \in Msg, SendNetwork(b, n)
  PROVE Fates' /\ Arrives
  <1>1. CASE fate' = [fate EXCEPT ![n] = "gone"]
    BY Zenon, <1>1, GoneAccepts DEF DepositInv
  <1>2. ASSUME NEW a \in Box, Bound(a, Head(net_routes(Dest[n])).ip, port_for(Dest[n])),
               net_routes(Dest[n]) # <<>>, fate' = [fate EXCEPT ![n] = "stored"]
        PROVE Fates' /\ Arrives
    <2>1. IdOf[a] = Dest[n] /\ ModeOf[a] = "Network"
      BY Zenon, <1>2 DEF Bound, PortsTell
    <2>2. \A d \in created : ~(ModeOf[d] = "Public" /\ IdOf[d] = Dest[n])
      BY Zenon, <2>1 DEF ModesApart, DepositInv, MailInv, HandleTypes
    <2>3. Fates' /\ \A m \in Msg : Accepted(m) => m = n
      BY <1>2 DEF DepositInv, Fates, Accepted
    <2> QED BY Zenon, <2>2, <2>3 DEF Arrives
  <1> QED BY Zenon, <1>1, <1>2 DEF SendNetwork, Gone

LEMMA DepositRouterWrites ==
  ASSUME DepositInv, NEW b \in Box, NEW n \in Msg, RouterWrites(b, n)
  PROVE Fates' /\ Arrives
  <1>1. /\ IdOf[b] = Dest[n] /\ ModeOf[b] = "Public" /\ fate' = [fate EXCEPT ![n] = "stored"]
        /\ inbound' = [inbound EXCEPT ![b] = inbound[b] \cup {n}]
    BY Zenon DEF RouterWrites
  <1>2. n \in inbound'[b]
    BY <1>1 DEF DepositInv, MailInv, Stores
  <1>3. Fates' /\ \A m \in Msg : Accepted(m) => m = n
    BY <1>1 DEF DepositInv, Fates, Accepted
  <1>4. ASSUME NEW d \in created, ModeOf[d] = "Public", IdOf[d] = Dest[n] PROVE d = b
    <2>1. d \in Box
      BY Zenon, <1>4 DEF DepositInv, MailInv, HandleTypes
    <2> QED BY Zenon, <1>1, <1>4, <2>1, EvlMailboxAssumption
  <1> QED BY Zenon, <1>2, <1>3, <1>4 DEF Arrives, Within

\* Every other step accepts no message
LEMMA DepositElse ==
  ASSUME Fates, \/ fate' = fate
                \/ \E n \in Msg : fate' = [fate EXCEPT ![n] = "gone"]
                \/ \E S : fate' = [m \in Msg |-> IF m \in S THEN "gone" ELSE fate[m]]
  PROVE Fates' /\ Arrives
  <1>1. CASE fate' = fate
    <2>1. \A m \in Msg : ~Accepted(m)
      BY <1>1 DEF Accepted
    <2> QED BY Zenon, <1>1, <2>1 DEF Fates, Arrives
  <1>2. ASSUME NEW S, fate' = [m \in Msg |-> IF m \in S THEN "gone" ELSE fate[m]]
        PROVE Fates' /\ Arrives
    <2>1. Fates' /\ \A m \in Msg : ~Accepted(m)
      BY <1>2 DEF Fates, Accepted
    <2> QED BY Zenon, <2>1 DEF Arrives
  <1> QED BY Zenon, <1>1, <1>2, GoneAccepts
LEMMA DepositDiscard ==
  ASSUME Fates, NEW B, Discard(B) PROVE Fates' /\ Arrives
  <1> DEFINE S == {m \in Msg : \E b \in B : m \in ring[b] \cup inbound[b]}
  <1>1. fate' = [m \in Msg |-> IF m \in S THEN "gone" ELSE fate[m]]
    BY Zenon DEF Discard
  <1> QED BY Zenon, <1>1, DepositElse
LEMMA DepositBoxStep ==
  ASSUME DepositInv, NEW b \in Box, BoxStep(b)
  PROVE Fates' /\ Arrives
  <1> Fates
    BY Zenon DEF DepositInv
  <1>1. CASE InitLocal(b) \/ InitHeader(b) \/ InitObjects(b) \/ InitXbuf(b) \/ InitNetwork(b)
    <2>1. fate' = fate
      BY Zenon, <1>1 DEF InitLocal, InitHeader, InitObjects, InitXbuf, InitNetwork, mailVars
    <2> QED BY Zenon, <2>1, DepositElse
  <1>2. CASE InitAllocate(b)
    <2>1. fate' = fate \/ \E g : fate' = [m \in Msg |-> IF m \in ring[g] THEN "gone" ELSE fate[m]]
      BY Zenon, <1>2 DEF InitAllocate
    <2> QED BY Zenon, <2>1, DepositElse
  <1>3. CASE ReceiveRing(b) \/ ReceiveNetwork(b) \/ ReceiveXbuf(b)
    <2>1. ring \in [Box \cup Segment -> SUBSET Msg] /\ inbound \in [Box -> SUBSET Msg]
      BY Zenon DEF DepositInv, MailInv, Stores
    <2>2. ReceiveRing(b) => Own(b) \in Box \cup Segment
      BY Zenon DEF ReceiveRing, Own, DepositInv, MailInv, Mapped
    <2>3. \E n \in Msg : fate' = [fate EXCEPT ![n] = "gone"]
      BY Zenon, <1>3, <2>1, <2>2 DEF ReceiveRing, ReceiveNetwork, ReceiveXbuf
    <2> QED BY Zenon, <2>3, DepositElse
  <1>4. CASE Shutdown(b)
    BY Zenon, <1>4, DepositDiscard DEF Shutdown
  <1> QED BY Zenon, <1>1, <1>2, <1>3, <1>4, DepositOpenRemote DEF BoxStep

\* Deposited: a message that send_raw() accepts for a Public mailbox that lives
\* is where that mailbox, or a Local one of its id in the process of the sender,
\* reads it.  The registry has room for the ids, no open_remote() overlaps with
\* the life cycle of its target, and datagrams have addresses of their own.
THEOREM MailIsDeposited ==
  ~Racing /\ Cardinality(Id) <= kRegistryCapacity /\ PortsTell /\ ModesApart => (Spec => Deposited)
  <1> SUFFICES ASSUME ~Racing, Cardinality(Id) <= kRegistryCapacity, PortsTell, ModesApart
               PROVE Spec => Deposited
    BY Zenon
  <1>1. Init => DepositInv
    BY Zenon, MailStart, HandleInit, RegInit DEF DepositInv, Fates, Init
  <1>2. ASSUME DepositInv, [Next]_vars PROVE DepositInv' /\ Arrives
    <2>1. MailInv' /\ HandleInv' /\ RegInv'
      BY Zenon, <1>2, MailNext, HandleNext, RegNext DEF DepositInv
    <2>2. CASE UNCHANGED vars
      <3>1. fate' = fate
        BY Zenon, <2>2 DEF vars, mailVars
      <3> QED BY Zenon, <1>2, <2>1, <3>1, DepositElse DEF DepositInv
    <2>3. used.boxes \subseteq Box /\ used.msgs \subseteq Msg
      BY <1>2, EvlMailboxAssumption DEF DepositInv, RegInv
    <2>4. ASSUME NEW b \in Box, NEW m \in Msg, Send(b, m) PROVE Fates' /\ Arrives
      <3>1. CASE SendOpen(b, m)
        <4>1. fate' = fate \/ fate' = [fate EXCEPT ![m] = "gone"]
          BY Zenon, <3>1 DEF SendOpen, Gone
        <4> QED BY Zenon, <4>1, <1>2, DepositElse DEF DepositInv
      <3> QED BY Zenon, <1>2, <2>4, <3>1, DepositSendLocal, DepositSendCached, DepositSendNetwork,
                 DepositRouterWrites DEF Send
    <2>5. ASSUME NEW p \in Proc, Crash(p) PROVE Fates' /\ Arrives
      BY Zenon, <1>2, <2>5, DepositDiscard DEF Crash, DepositInv
    <2>6. Fates' /\ Arrives
      BY Zenon, <1>2, <2>2, <2>3, <2>4, <2>5, DepositBoxStep DEF Next, DepositInv
    <2> QED BY Zenon, <2>1, <2>6 DEF DepositInv
  <1>3. Arrives => \A m \in Msg : fate[m] = "unsent" /\ fate'[m] = "stored" =>
          \A d \in created : ModeOf[d] = "Public" /\ IdOf[d] = Dest[m] =>
            \/ m \in ring'[base[d]] \cup inbound'[d]
            \/ \E l \in created : /\ ModeOf[l] = "Local" /\ IdOf[l] = Dest[m]
                                  /\ ProcOf[l] = ProcOf[Src[m]] /\ m \in ring'[l]
    BY Zenon DEF Arrives, Accepted, Within
  <1> QED BY <1>1, <1>2, <1>3, PTL DEF Spec, Deposited

-----------------------------------------------------------------------------
(* TypeOK.  What is not in the invariants above: names, tables and fates,  *)
(* and that last_used orders the slots in use, each of them once.          *)

Ordered(q) == \A i, j \in 1 .. Len(q) : q[i] = q[j] => i = j
SlotsIn(q) == {q[i] : i \in 1 .. Len(q)}

\* A slot that is in the order is found once, and the rest keeps its order.
LEMMA RemoveSlot ==
  ASSUME NEW q \in Seq(Slot), Ordered(q), NEW s
  PROVE Without(q, s) \in Seq(Slot) /\ Ordered(Without(q, s)) /\ SlotsIn(Without(q, s)) = SlotsIn(q) \ {s}
  <1>0. DOMAIN q = 1 .. Len(q)
    OBVIOUS
  <1>1. CASE ~ \E i \in 1 .. Len(q) : q[i] = s
    <2>1. Without(q, s) = q
      BY Zenon, <1>0, <1>1 DEF Without
    <2>2. SlotsIn(q) \ {s} = SlotsIn(q)
      BY Zenon, <1>1 DEF SlotsIn
    <2> QED BY Zenon, <2>1, <2>2
  <1>2. ASSUME NEW k \in 1 .. Len(q), q[k] = s
        PROVE Without(q, s) \in Seq(Slot) /\ Ordered(Without(q, s)) /\ SlotsIn(Without(q, s)) = SlotsIn(q) \ {s}
    <2>1. k = CHOOSE i \in DOMAIN q : q[i] = s
      BY Zenon, <1>0, <1>2 DEF Ordered
    <2>5. Without(q, s) = SubSeq(q, 1, k - 1) \o SubSeq(q, k + 1, Len(q))
      BY Zenon, <1>0, <1>2, <2>1 DEF Without
    <2>6. PICK u, v, r : u = SubSeq(q, 1, k - 1) /\ v = SubSeq(q, k + 1, Len(q)) /\ r = u \o v
      BY Zenon
    <2>7. u \in Seq(Slot) /\ Len(u) = k - 1 /\ \A i \in 1 .. k - 1 : u[i] = q[i]
      BY <1>2, <2>6
    <2>8. v \in Seq(Slot) /\ Len(v) = Len(q) - k /\ \A i \in 1 .. Len(q) - k : v[i] = q[k + i]
      BY <1>2, <2>6
    <2>a. r \in Seq(Slot) /\ Len(r) = Len(u) + Len(v)
      BY <2>6, <2>7, <2>8
    <2>b. ASSUME NEW i \in 1 .. Len(q) - 1 PROVE r[i] = q[IF i < k THEN i ELSE i + 1]
      <3>1. r = u \o v /\ u \in Seq(Slot) /\ v \in Seq(Slot) /\ Len(u) = k - 1 /\ Len(v) = Len(q) - k /\ Len(q) \in Nat
        BY <2>6, <2>7, <2>8
      <3>2. CASE i < k
        <4>1. r[i] = u[i]
          BY ONLY <3>1, <3>2, i \in 1 .. Len(q) - 1, k \in 1 .. Len(q)
        <4>2. u[i] = q[i]
          BY ONLY <2>7, <3>1, <3>2, i \in 1 .. Len(q) - 1, k \in 1 .. Len(q)
        <4> QED BY Zenon, <3>2, <4>1, <4>2
      <3>3. CASE ~(i < k)
        <4>1. r[i] = v[i - k + 1]
          BY ONLY <3>1, <3>3, i \in 1 .. Len(q) - 1, k \in 1 .. Len(q)
        <4>2. v[i - k + 1] = q[i + 1]
          <5>1. i - k + 1 \in 1 .. Len(q) - k /\ k + (i - k + 1) = i + 1
            BY ONLY <3>1, <3>3, i \in 1 .. Len(q) - 1, k \in 1 .. Len(q)
          <5> QED BY <2>8, <5>1
        <4> QED BY Zenon, <3>3, <4>1, <4>2
      <3> QED BY Zenon, <3>2, <3>3
    <2>9. /\ r \in Seq(Slot) /\ Len(r) = Len(q) - 1
          /\ \A i \in 1 .. Len(q) - 1 : r[i] = q[IF i < k THEN i ELSE i + 1]
      BY <1>2, <2>7, <2>8, <2>a, <2>b
    <2>10. Ordered(r)
      <3> SUFFICES ASSUME NEW i \in 1 .. Len(r), NEW j \in 1 .. Len(r), r[i] = r[j] PROVE i = j
        BY Zenon DEF Ordered
      <3>0. Len(q) \in Nat /\ i \in 1 .. Len(q) - 1 /\ j \in 1 .. Len(q) - 1
        <4>1. Len(q) \in Nat
          OBVIOUS
        <4> QED BY Zenon, <4>1, <2>9
      <3>1. PICK m : m = IF i < k THEN i ELSE i + 1
        BY Zenon
      <3>2. PICK n : n = IF j < k THEN j ELSE j + 1
        BY Zenon
      <3>3. m \in 1 .. Len(q) /\ n \in 1 .. Len(q)
        BY ONLY <3>0, <3>1, <3>2, k \in 1 .. Len(q)
      <3>4. q[m] = q[n]
        BY Zenon, <2>9, <3>0, <3>1, <3>2
      <3>5. m = n
        BY Zenon, <3>3, <3>4 DEF Ordered
      <3> QED BY ONLY <3>0, <3>1, <3>2, <3>5, k \in 1 .. Len(q)
    <2>11. ASSUME NEW i \in 1 .. Len(r) PROVE r[i] \in SlotsIn(q) /\ r[i] # s
      BY <1>2, <2>9 DEF Ordered, SlotsIn
    <2>12. ASSUME NEW i \in 1 .. Len(q), q[i] # s PROVE \E j \in 1 .. Len(r) : r[j] = q[i]
      <3>1. CASE i < k
        BY <1>2, <2>9, <3>1
      <3>2. CASE k < i
        <4>0. PICK j \in Int : j = i - 1
          OBVIOUS
        <4>1. j \in 1 .. Len(q) - 1 /\ ~(j < k) /\ j + 1 = i
          BY <1>2, <3>2, <4>0
        <4>2. r[j] = q[j + 1] /\ j \in 1 .. Len(r)
          BY Zenon, <2>9, <4>1
        <4>3. r[j] = q[i]
          BY Zenon, <4>1, <4>2
        <4> QED BY Zenon, <4>2, <4>3
      <3>3. i # k
        BY Zenon, <1>2, <2>12
      <3>4. i < k \/ k < i
        BY <3>3
      <3> QED BY Zenon, <3>1, <3>2, <3>4
    <2>13. SlotsIn(r) = SlotsIn(q) \ {s}
      <3>1. \A x \in SlotsIn(r) : x \in SlotsIn(q) \ {s}
        BY <2>11 DEF SlotsIn
      <3>2. \A x \in SlotsIn(q) \ {s} : x \in SlotsIn(r)
        BY <2>12 DEF SlotsIn
      <3> QED BY Zenon, <3>1, <3>2
    <2> QED BY Zenon, <2>5, <2>6, <2>9, <2>10, <2>13
  <1> QED BY Zenon, <1>1, <1>2

\* A handle used last
LEMMA UseSlot ==
  ASSUME NEW q \in Seq(Slot), Ordered(q), NEW s \in Slot
  PROVE Used(q, s) \in Seq(Slot) /\ Ordered(Used(q, s)) /\ SlotsIn(Used(q, s)) = SlotsIn(q) \cup {s}
  <1>1. PICK r : r = Without(q, s)
    BY Zenon
  <1>2. r \in Seq(Slot) /\ Ordered(r) /\ SlotsIn(r) = SlotsIn(q) \ {s}
    BY Zenon, <1>1, RemoveSlot
  <1>3. \A i \in 1 .. Len(r) : r[i] # s
    BY Zenon, <1>2 DEF SlotsIn
  <1>4. PICK u : u = Append(r, s)
    BY Zenon
  <1>5. u \in Seq(Slot) /\ Len(u) = Len(r) + 1 /\ u[Len(r) + 1] = s /\ \A i \in 1 .. Len(r) : u[i] = r[i]
    BY <1>2, <1>4
  <1>6. Ordered(u)
    BY <1>2, <1>3, <1>5 DEF Ordered
  <1>7. SlotsIn(u) = SlotsIn(r) \cup {s}
    BY <1>2, <1>5 DEF SlotsIn
  <1>8. SlotsIn(u) = SlotsIn(q) \cup {s}
    BY Zenon, <1>2, <1>7
  <1> QED BY Zenon, <1>1, <1>4, <1>5, <1>6, <1>8 DEF Used
Names ==
  /\ created \subseteq used.boxes /\ objects \subseteq Box /\ header \subseteq Segment
  /\ leftover \subseteq Id /\ inits \in 0 .. MaxInits
Tables ==
  /\ tbl \in [Proc -> [Bucket -> Entry]] /\ latest \in [Proc -> [Id -> Box \cup {None}]]
\* last_used orders the slots with a handle
Recency ==
  /\ \A b \in Box : opening[b] # None => opening[b] \in [slot : Slot, seg : Segment, whole : BOOLEAN, msg : Msg]
  /\ recent \in [Box -> Seq(Slot)]
  /\ \A b \in Box : Ordered(recent[b]) /\ SlotsIn(recent[b]) = {s \in Slot : handles[b][s] # None}
TypeInv == MailInv /\ Names /\ Tables /\ Recency /\ Fates

LEMMA TypesFollow == TypeInv => TypeOK
  <1> SUFFICES ASSUME TypeInv PROVE TypeOK
    BY Zenon
  <1>1. \A b \in Box : DOMAIN recent[b] = 1 .. Len(recent[b])
    BY DEF TypeInv, Recency
  <1>2. ASSUME NEW b \in Box
        PROVE /\ recent[b] \in Seq(Slot)
              /\ \A i, j \in DOMAIN recent[b] : recent[b][i] = recent[b][j] => i = j
              /\ {recent[b][i] : i \in DOMAIN recent[b]} = {s \in Slot : handles[b][s] # None}
    BY Zenon, <1>1 DEF TypeInv, Recency, Ordered, SlotsIn
  <1>3. opening \in [Box -> [slot : Slot, seg : Segment, whole : BOOLEAN, msg : Msg] \cup {None}]
    BY Zenon DEF TypeInv, Recency, MailInv, HandleTypes
  <1>4. /\ used \in Deployment /\ stage \in [Box -> {"off", "allocated", "header", "objects"}]
        /\ linked \in [Id -> Segment \cup {None}] /\ base \in [Box -> Segment \cup {None}]
        /\ handles \in [Box -> [Slot -> [dest : Id, seg : Segment, whole : BOOLEAN] \cup {None}]]
        /\ ring \in [Box \cup Segment -> SUBSET Msg] /\ inbound \in [Box -> SUBSET Msg]
    BY Zenon DEF TypeInv, MailInv, HandleTypes, Stores, Handle
  <1>5. /\ tbl \in [Proc -> [Bucket -> [id : Id \cup {0}, ptr : Box \cup {None}]]]
        /\ latest \in [Proc -> [Id -> Box \cup {None}]]
        /\ fate \in [Msg -> {"unsent", "stored", "gone"}]
    BY Zenon DEF TypeInv, Tables, Entry, Fates
  <1>6. Names
    BY Zenon DEF TypeInv
  <1> QED BY Zenon, <1>2, <1>3, <1>4, <1>5, <1>6 DEF TypeOK, Names

LEMMA TypesInit == Init => TypeInv
  <1> SUFFICES ASSUME Init PROVE TypeInv
    BY Zenon
  <1>1. Names
    BY EvlMailboxAssumption DEF Init, Names
  <1>2. Tables
    BY Zenon, RegInit DEF RegInv, Tables
  <1>3. recent \in [Box -> Seq(Slot)] /\ \A b \in Box : Ordered(recent[b]) /\ SlotsIn(recent[b]) = {}
    BY DEF Init, Ordered, SlotsIn
  <1>4. Recency
    BY Zenon, <1>3 DEF Init, Recency
  <1> QED BY Zenon, <1>1, <1>2, <1>4, MailStart DEF TypeInv, Fates, Init

LEMMA NamesNext ==
  ASSUME MailInv, Names, [Next]_vars
  PROVE Names'
  <1>0. used.boxes \subseteq Box /\ IdOf \in [Box -> Id]
    BY EvlMailboxAssumption DEF MailInv, HandleTypes
  <1>1. ASSUME UNCHANGED <<used, objects, header, leftover, inits>>, created' \subseteq used.boxes PROVE Names'
    BY Zenon, <1>1 DEF Names
  <1>2. ASSUME NEW b \in used.boxes, BoxStep(b) PROVE Names'
    <2>0. b \in Box /\ IdOf[b] \in Id
      BY Zenon, <1>0
    <2>1. ASSUME inits < MaxInits, inits' = inits + 1 PROVE inits' \in 0 .. MaxInits
      BY <2>1, EvlMailboxAssumption DEF Names
    <2>2. CASE InitLocal(b)
      <3>1. /\ inits < MaxInits /\ inits' = inits + 1 /\ UNCHANGED <<used, objects, header, leftover>>
            /\ created' = created \cup {b}
        BY Zenon, <2>2 DEF InitLocal, Start, shmVars
      <3> QED BY Zenon, <3>1, <2>1 DEF Names
    <2>3. CASE InitNetwork(b)
      <3>1. /\ inits < MaxInits /\ inits' = inits + 1 /\ UNCHANGED <<used, objects, header, leftover>>
            /\ created' \subseteq created \cup {b}
        BY Zenon, <2>3 DEF InitNetwork, Start, shmVars
      <3> QED BY Zenon, <3>1, <2>1 DEF Names
    <2>4. CASE InitAllocate(b)
      <3>1. /\ inits < MaxInits /\ inits' = inits + 1 /\ UNCHANGED <<used, objects, created, leftover>>
            /\ header' \subseteq header
        BY Zenon, <2>4 DEF InitAllocate, Start
      <3> QED BY Zenon, <3>1, <2>1 DEF Names
    <2>5. CASE InitHeader(b)
      <3>1. stage[b] = "allocated" /\ header' = header \cup {base[b]} /\ UNCHANGED <<used, inits, objects, created, leftover>>
        BY Zenon, <2>5 DEF InitHeader, deployVars
      <3>2. stage[b] # "off"
        BY <3>1
      <3>3. base[b] \in Segment
        BY Zenon, <2>0, <3>2 DEF MailInv, Mapped
      <3> QED BY Zenon, <3>1, <3>3 DEF Names
    <2>6. CASE InitObjects(b)
      <3>1. /\ UNCHANGED <<used, inits, header, created>>
            /\ objects' \subseteq objects \cup {b} /\ leftover' \subseteq leftover \cup {IdOf[b]}
        BY Zenon, <2>6 DEF InitObjects, deployVars
      <3> QED BY Zenon, <2>0, <3>1 DEF Names
    <2>7. CASE InitXbuf(b)
      <3>1. /\ UNCHANGED <<used, inits, header, objects>>
            /\ created' \subseteq created \cup {b} /\ leftover' \subseteq leftover \cup {IdOf[b]}
        BY Zenon, <2>7 DEF InitXbuf, deployVars
      <3> QED BY Zenon, <2>0, <3>1 DEF Names
    <2>8. CASE Shutdown(b)
      <3>1. /\ UNCHANGED <<used, inits, header, leftover>>
            /\ created' \subseteq created /\ objects' \subseteq objects
        BY Zenon, <2>8 DEF Shutdown, deployVars
      <3> QED BY Zenon, <3>1 DEF Names
    <2>9. CASE OpenRemote(b) \/ ReceiveRing(b) \/ ReceiveNetwork(b) \/ ReceiveXbuf(b)
      <3>1. UNCHANGED <<used, objects, header, leftover, inits, created>>
        BY Zenon, <2>9 DEF OpenRemote, ReceiveRing, ReceiveNetwork, ReceiveXbuf, shmVars, deployVars
      <3> QED BY Zenon, <3>1, <1>1 DEF Names
    <2> QED BY Zenon, <1>2, <2>2, <2>3, <2>4, <2>5, <2>6, <2>7, <2>8, <2>9 DEF BoxStep
  <1>3. ASSUME NEW b, NEW m, Send(b, m) PROVE Names'
    <2>1. UNCHANGED <<used, objects, header, leftover, inits, created>>
      BY Zenon, <1>3 DEF Send, SendLocal, SendCached, SendOpen, SendNetwork, RouterWrites, shmVars, deployVars
    <2> QED BY Zenon, <2>1, <1>1 DEF Names
  <1>4. ASSUME NEW p \in Proc, Crash(p) PROVE Names'
    <2>1. /\ UNCHANGED <<used, inits, header>> /\ created' \subseteq created /\ objects' \subseteq objects
          /\ leftover' \subseteq leftover \cup Id
      BY Zenon, <1>4 DEF Crash, deployVars
    <2> QED BY Zenon, <2>1 DEF Names
  <1>5. CASE UNCHANGED vars
    <2>1. UNCHANGED <<used, objects, header, leftover, inits, created>>
      BY Zenon, <1>5 DEF vars, shmVars, deployVars
    <2> QED BY Zenon, <2>1, <1>1 DEF Names
  <1> QED BY Zenon, <1>2, <1>3, <1>4, <1>5 DEF Next
LEMMA TablesNext ==
  ASSUME MailInv, Tables, [Next]_vars
  PROVE Tables'
  <1>0. used.boxes \subseteq Box
    BY EvlMailboxAssumption DEF MailInv, HandleTypes
  <1>1. ASSUME UNCHANGED <<tbl, latest>> PROVE Tables'
    BY Zenon, <1>1 DEF Tables
  <1>e. [id |-> 0, ptr |-> None] \in Entry /\ \A i \in Id : \A b \in Box \cup {None} : [id |-> i, ptr |-> b] \in Entry
    BY Zenon DEF Entry
  <1>2. ASSUME NEW p \in Proc, NEW t, t \in [Bucket -> Entry], tbl' = [tbl EXCEPT ![p] = t],
               NEW f, f \in [Id -> Box \cup {None}], latest' = [latest EXCEPT ![p] = f]
        PROVE Tables'
    BY Zenon, <1>2 DEF Tables
  <1>3. ASSUME NEW b \in Box, InitLocal(b) PROVE Tables'
    <2>1. ProcOf[b] \in Proc /\ IdOf[b] \in Id
      BY Zenon, EvlMailboxAssumption
    <2>2. registry_insert(tbl[ProcOf[b]], IdOf[b], b) \in [Bucket -> Entry]
      BY Zenon, <1>e, <2>1 DEF Tables, registry_insert
    <2>3. [latest[ProcOf[b]] EXCEPT ![IdOf[b]] = b] \in [Id -> Box \cup {None}]
      BY Zenon, <2>1 DEF Tables
    <2> QED BY Zenon, <1>2, <1>3, <2>1, <2>2, <2>3 DEF InitLocal
  <1>4. ASSUME NEW b \in Box, Shutdown(b) PROVE Tables'
    <2>1. ProcOf[b] \in Proc /\ IdOf[b] \in Id
      BY Zenon, EvlMailboxAssumption
    <2>2. registry_remove(tbl[ProcOf[b]], IdOf[b]) \in [Bucket -> Entry]
      BY Zenon, <1>e, <2>1 DEF Tables, registry_remove
    <2>3. [latest[ProcOf[b]] EXCEPT ![IdOf[b]] = None] \in [Id -> Box \cup {None}]
      BY Zenon, <2>1 DEF Tables
    <2>4. \/ UNCHANGED <<tbl, latest>>
          \/ /\ tbl' = [tbl EXCEPT ![ProcOf[b]] = registry_remove(tbl[ProcOf[b]], IdOf[b])]
             /\ latest' = [latest EXCEPT ![ProcOf[b]][IdOf[b]] = None]
      BY Zenon, <1>4 DEF Shutdown, Unregister, tableVars
    <2> QED BY Zenon, <1>1, <1>2, <2>1, <2>2, <2>3, <2>4
  <1>5. ASSUME NEW p \in Proc, Crash(p) PROVE Tables'
    <2>1. [k \in Bucket |-> NoEntry] \in [Bucket -> Entry] /\ [i \in Id |-> None] \in [Id -> Box \cup {None}]
      BY Zenon, <1>e DEF NoEntry
    <2> QED BY Zenon, <1>2, <1>5, <2>1 DEF Crash
  <1>6. ASSUME NEW b \in Box, BoxStep(b) PROVE Tables'
    <2>1. CASE \/ InitAllocate(b) \/ InitHeader(b) \/ InitObjects(b) \/ InitXbuf(b) \/ InitNetwork(b)
               \/ OpenRemote(b) \/ ReceiveRing(b) \/ ReceiveNetwork(b) \/ ReceiveXbuf(b)
      <3>1. UNCHANGED <<tbl, latest>>
        BY Zenon, <2>1 DEF InitAllocate, InitHeader, InitObjects, InitXbuf, InitNetwork, OpenRemote, ReceiveRing,
                    ReceiveNetwork, ReceiveXbuf, tableVars
      <3> QED BY Zenon, <3>1, <1>1
    <2> QED BY Zenon, <1>3, <1>4, <1>6, <2>1 DEF BoxStep
  <1>7. ASSUME NEW b, NEW m, Send(b, m) PROVE Tables'
    <2>1. UNCHANGED <<tbl, latest>>
      BY Zenon, <1>7 DEF Send, SendLocal, SendCached, SendOpen, SendNetwork, RouterWrites, tableVars
    <2> QED BY Zenon, <2>1, <1>1
  <1>8. CASE UNCHANGED vars
    BY Zenon, <1>1, <1>8 DEF vars, tableVars
  <1> QED BY Zenon, <1>0, <1>5, <1>6, <1>7, <1>8 DEF Next

\* What a message may come to
LEMMA PostFates ==
  ASSUME Fates, ring \in [Box \cup Segment -> SUBSET Msg], NEW r \in Box \cup Segment, NEW n \in Msg, Post(r, n)
  PROVE Fates'
  <1>1. CASE fate' = [fate EXCEPT ![n] = "stored"]
    BY Zenon, <1>1 DEF Fates
  <1>2. ASSUME NEW w \in ring[r], fate' = [fate EXCEPT ![n] = "stored", ![w] = "gone"] PROVE Fates'
    BY Zenon, <1>2 DEF Fates
  <1>3. CASE fate' = [fate EXCEPT ![n] = "gone"]
    BY Zenon, <1>3 DEF Fates
  <1> QED BY Zenon, <1>1, <1>2, <1>3 DEF Post, Gone

LEMMA FatesNext ==
  ASSUME MailInv, Fates, [Next]_vars
  PROVE Fates'
  <1>0. /\ used.boxes \subseteq Box /\ used.msgs \subseteq Msg
        /\ ring \in [Box \cup Segment -> SUBSET Msg] /\ inbound \in [Box -> SUBSET Msg]
    BY EvlMailboxAssumption DEF MailInv, HandleTypes, Stores
  <1>1. ASSUME \/ fate' = fate
               \/ \E n \in Msg : fate' = [fate EXCEPT ![n] = "gone"] \/ fate' = [fate EXCEPT ![n] = "stored"]
               \/ \E S : fate' = [m \in Msg |-> IF m \in S THEN "gone" ELSE fate[m]]
        PROVE Fates'
    BY <1>1 DEF Fates
  <1>2. ASSUME NEW B, Discard(B) PROVE Fates'
    BY Zenon, <1>2, DepositDiscard
  <1>3. ASSUME NEW b \in Box, BoxStep(b) PROVE Fates'
    <2>1. CASE InitLocal(b) \/ InitHeader(b) \/ InitObjects(b) \/ InitXbuf(b) \/ InitNetwork(b)
      <3>1. fate' = fate
        BY Zenon, <2>1 DEF InitLocal, InitHeader, InitObjects, InitXbuf, InitNetwork, mailVars
      <3> QED BY Zenon, <3>1, <1>1
    <2>2. CASE InitAllocate(b)
      <3>1. fate' = fate \/ \E g : fate' = [m \in Msg |-> IF m \in ring[g] THEN "gone" ELSE fate[m]]
        BY Zenon, <2>2 DEF InitAllocate
      <3> QED BY Zenon, <3>1, <1>1
    <2>3. CASE ReceiveRing(b) \/ ReceiveNetwork(b) \/ ReceiveXbuf(b)
      <3>1. ReceiveRing(b) => Own(b) \in Box \cup Segment
        BY Zenon DEF ReceiveRing, Own, MailInv, Mapped
      <3>2. \E n \in Msg : fate' = [fate EXCEPT ![n] = "gone"]
        BY Zenon, <1>0, <2>3, <3>1 DEF ReceiveRing, ReceiveNetwork, ReceiveXbuf
      <3> QED BY Zenon, <3>2, <1>1
    <2>4. CASE Shutdown(b)
      BY Zenon, <1>2, <2>4 DEF Shutdown
    <2>5. CASE OpenRemote(b)
      <3>1. PICK o : o = opening[b] /\ o # None
        BY Zenon, <2>5 DEF OpenRemote
      <3>2. o.seg \in Segment /\ o.msg \in Msg
        BY Zenon, <3>1 DEF MailInv, HandleTypes
      <3>3. Post(o.seg, o.msg) \/ fate' = [fate EXCEPT ![o.msg] = "gone"]
        BY Zenon, <2>5, <3>1 DEF OpenRemote, Gone
      <3> QED BY Zenon, <1>0, <1>1, <3>2, <3>3, PostFates
    <2> QED BY Zenon, <1>3, <2>1, <2>2, <2>3, <2>4, <2>5 DEF BoxStep
  <1>4. ASSUME NEW b \in Box, NEW m \in Msg, Send(b, m) PROVE Fates'
    <2>1. CASE SendOpen(b, m)
      <3>1. fate' = fate \/ fate' = [fate EXCEPT ![m] = "gone"]
        BY Zenon, <2>1 DEF SendOpen, Gone
      <3> QED BY Zenon, <3>1, <1>1
    <2>2. CASE SendLocal(b, m)
      <3>1. (\E l \in created : Post(l, m)) \/ fate' = [fate EXCEPT ![m] = "gone"]
        BY Zenon, <2>2 DEF SendLocal, InProcess, Gone
      <3>2. created \subseteq Box \cup Segment
        BY Zenon DEF MailInv, HandleTypes
      <3> QED BY Zenon, <1>0, <1>1, <3>1, <3>2, PostFates
    <2>3. CASE SendCached(b, m)
      <3>1. PICK s \in Slot : handles[b][s] # None /\ Post(handles[b][s].seg, m)
        BY Zenon, <2>3 DEF SendCached, HandleOf
      <3>2. handles[b][s].seg \in Segment
        BY <3>1 DEF MailInv, HandleTypes, Handle
      <3> QED BY Zenon, <1>0, <3>1, <3>2, PostFates
    <2>4. CASE SendNetwork(b, m) \/ RouterWrites(b, m)
      <3>1. fate' = [fate EXCEPT ![m] = "gone"] \/ fate' = [fate EXCEPT ![m] = "stored"]
        BY Zenon, <2>4 DEF SendNetwork, RouterWrites, Gone
      <3> QED BY Zenon, <3>1, <1>1
    <2> QED BY Zenon, <1>4, <2>1, <2>2, <2>3, <2>4 DEF Send
  <1>5. ASSUME NEW p \in Proc, Crash(p) PROVE Fates'
    BY Zenon, <1>2, <1>5 DEF Crash
  <1>6. CASE UNCHANGED vars
    BY Zenon, <1>1, <1>6 DEF vars, mailVars
  <1> QED BY Zenon, <1>0, <1>3, <1>4, <1>5, <1>6 DEF Next
\* One of a set of slots is the first.
LEMMA FirstSlot ==
  ASSUME NEW F \in SUBSET Slot, F # {}
  PROVE (CHOOSE s \in F : \A t \in F : s <= t) \in F
  <1>1. F \subseteq Nat
    BY DEF Slot
  <1>2. PICK n \in F : \A j \in F : ~ (<<j, n>> \in OpToRel(<, Nat))
    BY Zenon, <1>1, NatLessThanWellFounded, WFMin
  <1>3. ASSUME NEW j \in F PROVE ~(j < n)
    BY Zenon, <1>1, <1>2 DEF OpToRel
  <1>4. \A j \in F : n <= j
    BY <1>1, <1>3
  <1> QED BY Zenon, <1>4

Opening == [slot : Slot, seg : Segment, whole : BOOLEAN, msg : Msg]
LEMMA RecencyKept ==
  ASSUME MailInv, MailInv', Recency, NEW b \in Box, NEW q, recent' = [recent EXCEPT ![b] = q],
         q \in Seq(Slot), Ordered(q), SlotsIn(q) = {s \in Slot : handles'[b][s] # None},
         \A a \in Box \ {b} : handles'[a] = handles[a],
         \A a \in Box : opening'[a] \in {opening[a], None} \cup Opening
  PROVE Recency'
  <1>1. recent' \in [Box -> Seq(Slot)] /\ recent'[b] = q /\ \A a \in Box \ {b} : recent'[a] = recent[a]
    BY Zenon DEF Recency
  <1>2. ASSUME NEW a \in Box PROVE Ordered(recent'[a]) /\ SlotsIn(recent'[a]) = {s \in Slot : handles'[a][s] # None}
    <2>1. CASE a = b
      BY Zenon, <1>1, <2>1
    <2>2. CASE a # b
      <3>1. recent'[a] = recent[a] /\ handles'[a] = handles[a]
        BY Zenon, <1>1, <2>2
      <3> QED BY Zenon, <3>1 DEF Recency
    <2> QED BY Zenon, <2>1, <2>2
  <1>3. \A a \in Box : opening'[a] # None => opening'[a] \in Opening
    BY Zenon DEF Recency, Opening
  <1> QED BY Zenon, <1>1, <1>2, <1>3 DEF Recency, Opening

LEMMA RecencySame ==
  ASSUME Recency, UNCHANGED <<handles, recent, opening>> PROVE Recency'
  BY Zenon DEF Recency

LEMMA RecencyCached ==
  ASSUME MailInv, MailInv', Recency, NEW b \in Box, NEW m \in Msg, SendCached(b, m)
  PROVE Recency'
  <1>1. PICK s \in Slot : handles[b][s] # None /\ recent' = [recent EXCEPT ![b] = Used(recent[b], s)]
    BY Zenon DEF SendCached, HandleOf
  <1>2. UNCHANGED <<handles, opening>>
    BY Zenon DEF SendCached
  <1>3. recent[b] \in Seq(Slot) /\ Ordered(recent[b]) /\ SlotsIn(recent[b]) = {t \in Slot : handles[b][t] # None}
    BY Zenon DEF Recency
  <1>4. Used(recent[b], s) \in Seq(Slot) /\ Ordered(Used(recent[b], s)) /\ SlotsIn(Used(recent[b], s)) = SlotsIn(recent[b]) \cup {s}
    BY Zenon, <1>3, UseSlot
  <1>5. SlotsIn(Used(recent[b], s)) = {t \in Slot : handles'[b][t] # None}
    BY Zenon, <1>1, <1>2, <1>3, <1>4
  <1> QED BY Zenon, <1>1, <1>2, <1>4, <1>5, RecencyKept

LEMMA RecencyOpen ==
  ASSUME MailInv, MailInv', Recency, NEW b \in Box, NEW m \in Msg, SendOpen(b, m)
  PROVE Recency'
  <1>1. PICK free : free = {t \in Slot : handles[b][t] = None}
    BY Zenon
  <1>2. PICK s : s = SlotFor(b)
    BY Zenon
  <1>3. PICK g : g = linked[Dest[m]]
    BY Zenon
  <1>4. /\ handles' = [handles EXCEPT ![b][s] = None]
        /\ recent' = [recent EXCEPT ![b] = Without(recent[b], s)]
        /\ \/ opening' = opening
           \/ g # None /\ opening' = [opening EXCEPT ![b] = [slot |-> s, seg |-> g, whole |-> g \in header, msg |-> m]]
    BY Zenon, <1>2, <1>3 DEF SendOpen
  <1>5. recent[b] \in Seq(Slot) /\ Ordered(recent[b]) /\ SlotsIn(recent[b]) = {t \in Slot : handles[b][t] # None}
    BY Zenon DEF Recency
  <1>6. handles \in [Box -> [Slot -> Handle \cup {None}]] /\ linked \in [Id -> Segment \cup {None}]
    BY Zenon DEF MailInv, HandleTypes
  <1>7. s \in Slot
    <2>1. CASE free # {}
      <3>1. free \in SUBSET Slot
        BY Zenon, <1>1
      <3>2. s = CHOOSE x \in free : \A t \in free : x <= t
        BY Zenon, <1>1, <1>2, <2>1 DEF SlotFor
      <3> QED BY Zenon, <2>1, <3>1, <3>2, FirstSlot
    <2>2. CASE free = {}
      <3>1. 1 \in Slot
        BY EvlMailboxAssumption DEF Slot
      <3>2. 1 \in SlotsIn(recent[b])
        BY Zenon, <1>1, <1>5, <2>2, <3>1
      <3>3. recent[b] # <<>>
        BY <3>2 DEF SlotsIn
      <3>4. Head(recent[b]) \in Slot
        BY <1>5, <3>3
      <3>5. s = Head(recent[b])
        BY Zenon, <1>1, <1>2, <2>2 DEF SlotFor
      <3> QED BY Zenon, <3>4, <3>5
    <2> QED BY Zenon, <2>1, <2>2
  <1>8. PICK q : q = Without(recent[b], s)
    BY Zenon
  <1>9. q \in Seq(Slot) /\ Ordered(q) /\ SlotsIn(q) = SlotsIn(recent[b]) \ {s}
    BY Zenon, <1>5, <1>8, RemoveSlot
  <1>10. /\ handles'[b][s] = None /\ \A t \in Slot \ {s} : handles'[b][t] = handles[b][t]
         /\ \A a \in Box \ {b} : handles'[a] = handles[a]
    BY Zenon, <1>4, <1>6, <1>7
  <1>11. SlotsIn(q) = {t \in Slot : handles'[b][t] # None}
    BY Zenon, <1>5, <1>9, <1>10
  <1>12. Dest[m] \in Id
    BY Zenon, EvlMailboxAssumption
  <1>13. g # None => [slot |-> s, seg |-> g, whole |-> g \in header, msg |-> m] \in Opening
    BY <1>3, <1>6, <1>7, <1>12 DEF Opening
  <1>14. \A a \in Box : opening'[a] \in {opening[a], None} \cup Opening
    BY Zenon, <1>4, <1>13 DEF MailInv, HandleTypes
  <1> QED BY Zenon, <1>4, <1>8, <1>9, <1>10, <1>11, <1>14, RecencyKept

LEMMA RecencyOpened ==
  ASSUME MailInv, MailInv', Recency, NEW b \in Box, OpenRemote(b)
  PROVE Recency'
  <1>1. PICK o : o = opening[b] /\ o # None
    BY Zenon DEF OpenRemote
  <1>2. PICK h : h = [dest |-> Dest[o.msg], seg |-> o.seg, whole |-> o.whole]
    BY Zenon
  <1>3. /\ opening' = [opening EXCEPT ![b] = None]
        /\ \/ UNCHANGED <<handles, recent>>
           \/ /\ handles' = [handles EXCEPT ![b][o.slot] = h]
              /\ recent' = [recent EXCEPT ![b] = Used(recent[b], o.slot)]
    BY Zenon, <1>1, <1>2 DEF OpenRemote
  <1>4. o.slot \in Slot
    BY <1>1 DEF Recency
  <1>5. h # None
    <2>1. h \in Handle
      BY Zenon, <1>1, <1>2, EvlMailboxAssumption DEF MailInv, HandleTypes, Handle
    <2> QED BY Zenon, <2>1, EvlMailboxAssumption DEF Handle
  <1>6. recent[b] \in Seq(Slot) /\ Ordered(recent[b]) /\ SlotsIn(recent[b]) = {t \in Slot : handles[b][t] # None}
    BY Zenon DEF Recency
  <1>7. \A a \in Box : opening'[a] \in {opening[a], None} \cup Opening
    BY Zenon, <1>3 DEF MailInv, HandleTypes
  <1>8. CASE UNCHANGED <<handles, recent>>
    BY Zenon, <1>7, <1>8 DEF Recency, Opening
  <1>9. CASE /\ handles' = [handles EXCEPT ![b][o.slot] = h]
             /\ recent' = [recent EXCEPT ![b] = Used(recent[b], o.slot)]
    <2>1. PICK q : q = Used(recent[b], o.slot)
      BY Zenon
    <2>2. q \in Seq(Slot) /\ Ordered(q) /\ SlotsIn(q) = SlotsIn(recent[b]) \cup {o.slot}
      BY Zenon, <1>4, <1>6, <2>1, UseSlot
    <2>3. /\ handles'[b][o.slot] = h /\ \A t \in Slot \ {o.slot} : handles'[b][t] = handles[b][t]
          /\ \A a \in Box \ {b} : handles'[a] = handles[a]
      BY Zenon, <1>4, <1>9 DEF MailInv, HandleTypes
    <2>4. SlotsIn(q) = {t \in Slot : handles'[b][t] # None}
      BY Zenon, <1>4, <1>5, <1>6, <2>2, <2>3
    <2> QED BY Zenon, <1>7, <1>9, <2>1, <2>2, <2>3, <2>4, RecencyKept
  <1> QED BY Zenon, <1>3, <1>8, <1>9
LEMMA RecencyEmpty ==
  ASSUME NEW q, q = <<>>
  PROVE q \in Seq(Slot) /\ Ordered(q) /\ SlotsIn(q) = {}
  BY DEF Ordered, SlotsIn

LEMMA RecencyShutdown ==
  ASSUME MailInv, MailInv', Recency, NEW b \in Box, Shutdown(b)
  PROVE Recency'
  <1>1. /\ handles' = [handles EXCEPT ![b] = [s \in Slot |-> None]]
        /\ recent' = [recent EXCEPT ![b] = <<>>] /\ opening' = opening
    BY Zenon DEF Shutdown, close_all_remotes
  <1>2. (\A s \in Slot : handles'[b][s] = None) /\ \A a \in Box \ {b} : handles'[a] = handles[a]
    BY Zenon, <1>1 DEF MailInv, HandleTypes
  <1>3. PICK q : q = <<>>
    BY Zenon
  <1>4. q \in Seq(Slot) /\ Ordered(q) /\ SlotsIn(q) = {}
    BY Zenon, <1>3, RecencyEmpty
  <1>5. SlotsIn(q) = {s \in Slot : handles'[b][s] # None}
    BY Zenon, <1>2, <1>4
  <1> QED BY Zenon, <1>1, <1>2, <1>3, <1>4, <1>5, RecencyKept

LEMMA RecencyCrash ==
  ASSUME Recency, NEW p \in Proc, Crash(p)
  PROVE Recency'
  <1>1. PICK B : B = {b \in Box : ProcOf[b] = p}
    BY Zenon
  <1>2. /\ handles' = [b \in Box |-> IF b \in B THEN [s \in Slot |-> None] ELSE handles[b]]
        /\ recent' = [b \in Box |-> IF b \in B THEN <<>> ELSE recent[b]]
        /\ opening' = [b \in Box |-> IF b \in B THEN None ELSE opening[b]]
    BY Zenon, <1>1 DEF Crash
  <1>3. ASSUME NEW b \in Box
        PROVE /\ recent'[b] \in Seq(Slot) /\ Ordered(recent'[b])
              /\ SlotsIn(recent'[b]) = {s \in Slot : handles'[b][s] # None}
              /\ opening'[b] # None => opening'[b] \in Opening
    <2>1. CASE b \in B
      <3>1. recent'[b] = <<>> /\ opening'[b] = None /\ \A s \in Slot : handles'[b][s] = None
        BY Zenon, <1>2, <2>1
      <3>2. recent'[b] \in Seq(Slot) /\ Ordered(recent'[b]) /\ SlotsIn(recent'[b]) = {}
        BY Zenon, <3>1, RecencyEmpty
      <3> QED BY Zenon, <3>1, <3>2
    <2>2. CASE b \notin B
      <3>1. recent'[b] = recent[b] /\ handles'[b] = handles[b] /\ opening'[b] = opening[b]
        BY Zenon, <1>2, <2>2
      <3> QED BY Zenon, <3>1 DEF Recency, Opening
    <2> QED BY Zenon, <2>1, <2>2
  <1>4. recent' \in [Box -> Seq(Slot)]
    BY Zenon, <1>2, <1>3
  <1> QED BY Zenon, <1>3, <1>4 DEF Recency, Opening

LEMMA RecencyNext ==
  ASSUME MailInv, MailInv', Recency, [Next]_vars
  PROVE Recency'
  <1>0. used.boxes \subseteq Box /\ used.msgs \subseteq Msg
    BY EvlMailboxAssumption DEF MailInv, HandleTypes
  <1>1. ASSUME NEW b \in Box, BoxStep(b) PROVE Recency'
    <2>1. CASE \/ InitLocal(b) \/ InitAllocate(b) \/ InitHeader(b) \/ InitObjects(b) \/ InitXbuf(b) \/ InitNetwork(b)
               \/ ReceiveRing(b) \/ ReceiveNetwork(b) \/ ReceiveXbuf(b)
      <3>1. UNCHANGED <<handles, recent, opening>>
        BY Zenon, <2>1 DEF InitLocal, InitAllocate, InitHeader, InitObjects, InitXbuf, InitNetwork, ReceiveRing,
                    ReceiveNetwork, ReceiveXbuf, cacheVars
      <3> QED BY Zenon, <3>1, RecencySame
    <2> QED BY Zenon, <1>1, <2>1, RecencyShutdown, RecencyOpened DEF BoxStep
  <1>2. ASSUME NEW b \in Box, NEW m \in Msg, Send(b, m) PROVE Recency'
    <2>1. CASE SendLocal(b, m) \/ SendNetwork(b, m) \/ RouterWrites(b, m)
      <3>1. UNCHANGED <<handles, recent, opening>>
        BY Zenon, <2>1 DEF SendLocal, SendNetwork, RouterWrites, cacheVars
      <3> QED BY Zenon, <3>1, RecencySame
    <2> QED BY Zenon, <1>2, <2>1, RecencyCached, RecencyOpen DEF Send
  <1>3. CASE UNCHANGED vars
    BY Zenon, <1>3, RecencySame DEF vars, cacheVars
  <1> QED BY Zenon, <1>0, <1>1, <1>2, <1>3, RecencyCrash DEF Next

\* TypeOK: mailboxes, registries, segments and messages keep their types for
\* every deployment, and last_used orders exactly the slots that hold a handle,
\* each once, so that the slot get_or_open_remote() evicts exists and is in use.
THEOREM MailboxTypes == Spec => []TypeOK
  <1>1. ASSUME TypeInv, [Next]_vars PROVE TypeInv'
    BY Zenon, <1>1, MailNext, NamesNext, TablesNext, FatesNext, RecencyNext DEF TypeInv
  <1> QED BY <1>1, TypesInit, TypesFollow, PTL DEF Spec
=============================================================================
