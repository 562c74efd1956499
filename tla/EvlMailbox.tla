----------------------------- MODULE EvlMailbox -----------------------------
(***************************************************************************)
(* EvlMailbox objects (ipc/evl/evl_backend.hpp) of several processes: how  *)
(* they come and go, and how a message finds the mailbox it is for.        *)
(*   - Local mailboxes are found through the process-local registry, an    *)
(*     open-addressing hash table;                                         *)
(*   - Public ones have their ring in a named shared-memory segment and a  *)
(*     named EVL mutex and event, which senders of other processes open    *)
(*     and cache in remote handles; what has no such mailbox is given to   *)
(*     the router through the xbuf;                                        *)
(*   - Network ones exchange datagrams.                                    *)
(* A ring is the bounded priority buffer of PriorityMailbox, which EvlRing *)
(* implements, so a post() or a receive is one step here.                  *)
(***************************************************************************)
EXTENDS Integers, Sequences, FiniteSets

CONSTANTS
  Box, Proc, Id,        \* mailbox objects, processes, mailbox ids
  ProcOf, IdOf, ModeOf, \* of each mailbox
  Deployment,           \* scenarios [boxes, msgs]: mailboxes used together, messages sent
  kRegistryCapacity,    \* slots of the registry
  registry_hash,        \* slot of each id
  Segment,              \* shared-memory segments that may exist at a time
  max_remote_handles, kSlots,
  Host, HostOf,         \* hosts on the network, host of each mailbox
  Routes,               \* route table: sequence of [system_id, ip], ip None if not valid
  Msg, Src, Dest, Prio, \* messages: mailbox (or None: the router) that sends, id, priority
  Racing,               \* whether open_remote() may overlap with the life cycle of its target
  MaxInits,             \* bound: initialize() calls
  None

Bucket == 0 .. kRegistryCapacity - 1
Slot == 1 .. max_remote_handles

ASSUME EvlMailboxAssumption ==
  /\ Id \subseteq Nat \ {0} /\ IsFiniteSet(Id)
  /\ kRegistryCapacity \in Nat \ {0} /\ registry_hash \in [Id -> Bucket]
  /\ ProcOf \in [Box -> Proc] /\ IdOf \in [Box -> Id]
  /\ ModeOf \in [Box -> {"Local", "Public", "Network"}]
  /\ \A a, b \in Box : ModeOf[a] = "Public" /\ ModeOf[b] = "Public" /\ IdOf[a] = IdOf[b] => a = b
  /\ HostOf \in [Box -> Host] /\ Src \in [Msg -> Box \cup {None}] /\ Dest \in [Msg -> Id]
  /\ None \notin Box \cup Segment \cup Host \cup Msg \cup [dest : Id, seg : Segment, whole : BOOLEAN]
  /\ Box \cap Segment = {}
  /\ Deployment \subseteq [boxes : SUBSET Box, msgs : SUBSET Msg] /\ Racing \in BOOLEAN
  /\ max_remote_handles \in Nat \ {0} /\ kSlots \in Nat /\ MaxInits \in Nat

VARIABLES
  used,      \* the scenario, which does not change
  created,   \* created_
  stage,     \* how far initialize() of a Public mailbox has come
  tbl,       \* registry_table() of each process
  linked,    \* shared-memory name of each id -> segment or None
  header,    \* segments whose ShmLayout has been written
  base,      \* segment each Public mailbox has mapped
  objects,   \* Public mailboxes that hold their EVL mutex and event
  handles,   \* remote_handles_: slot -> [dest, seg, whole] or None
  recent,    \* slots in the order of last_used
  opening,   \* open_remote() under way: [slot, seg, whole, msg] or None
  ring,      \* messages in a segment, or in the heap ring or socket of a mailbox
  inbound,   \* messages in the xbuf of a mailbox
  fate,      \* history: each message is unsent, stored where it can be received, or gone:
             \* received, evicted, refused, lost, or given to the router
  latest,    \* history: the Local mailbox that last registered an id
  leftover,  \* history: ids that a crash or a failed initialize() left behind
  inits

deployVars == <<used, inits>>
shmVars == <<linked, header, base, objects, stage, leftover>>
cacheVars == <<handles, recent, opening>>
tableVars == <<tbl, latest>>
mailVars == <<ring, inbound, fate>>
vars == <<created, deployVars, shmVars, cacheVars, tableVars, mailVars>>

NoEntry == [id |-> 0, ptr |-> None]
Init ==
  /\ used \in Deployment
  /\ created = {} /\ stage = [b \in Box |-> "off"] /\ inits = 0
  /\ tbl = [p \in Proc |-> [k \in Bucket |-> NoEntry]]
  /\ latest = [p \in Proc |-> [i \in Id |-> None]]
  /\ linked = [i \in Id |-> None] /\ header = {} /\ leftover = {}
  /\ base = [b \in Box |-> None] /\ objects = {}
  /\ handles = [b \in Box |-> [s \in Slot |-> None]]
  /\ recent = [b \in Box |-> <<>>] /\ opening = [b \in Box |-> None]
  /\ ring = [r \in Box \cup Segment |-> {}] /\ inbound = [b \in Box |-> {}]
  /\ fate = [m \in Msg |-> "unsent"]

-----------------------------------------------------------------------------
(* The process-local registry.                                             *)

\* (h + i) & (kRegistryCapacity - 1)
Probe(id, i) ==
  LET k == registry_hash[id] + i IN IF k < kRegistryCapacity THEN k ELSE k - kRegistryCapacity
\* The first probe that meets the id or a bucket never used, if any
Stop(t, id, i) == t[Probe(id, i)].id \in {0, id} /\ \A j \in 0 .. i - 1 : t[Probe(id, j)].id \notin {0, id}

registry_insert(t, id, b) ==
  [k \in Bucket |-> IF \E i \in Bucket : Stop(t, id, i) /\ k = Probe(id, i)
                    THEN [id |-> id, ptr |-> b] ELSE t[k]]
\* Mutant: a removed entry is emptied
Mut_registry_remove(t, id) ==
  [k \in Bucket |-> IF t[k].id = id THEN NoEntry ELSE t[k]]
\* A removed entry keeps its id, as a tombstone
registry_remove(t, id) ==
  [k \in Bucket |-> IF t[k].id = id /\ \E i \in Bucket : Stop(t, id, i) /\ k = Probe(id, i)
                    THEN [id |-> id, ptr |-> None] ELSE t[k]]
registry_find(t, id) ==
  IF \E i \in Bucket : Stop(t, id, i)
  THEN t[Probe(id, CHOOSE i \in Bucket : Stop(t, id, i))].ptr ELSE None

-----------------------------------------------------------------------------
(* initialize().                                                           *)

Steady(i) == ~Racing => \A b \in Box : opening[b] # None => Dest[opening[b].msg] # i

Start(b, mode) ==
  /\ ModeOf[b] = mode /\ b \notin created /\ stage[b] = "off" /\ inits < MaxInits
  /\ inits' = inits + 1 /\ UNCHANGED used

InitLocal(b) ==
  /\ Start(b, "Local")
  /\ created' = created \cup {b}
  /\ ring' = [ring EXCEPT ![b] = {}]
  /\ tbl' = [tbl EXCEPT ![ProcOf[b]] = registry_insert(@, IdOf[b], b)]
  /\ latest' = [latest EXCEPT ![ProcOf[b]][IdOf[b]] = b]
  /\ UNCHANGED <<shmVars, cacheVars, inbound, fate>>

\* allocate_ring(): shm_open(O_CREAT), ftruncate() and mmap(); a segment that
\* is linked already keeps what is in it
InitAllocate(b) ==
  /\ Start(b, "Public") /\ Steady(IdOf[b])
  /\ LET fresh == linked[IdOf[b]] = None
         unused == {g \in Segment : /\ \A i \in Id : linked[i] # g
                                    /\ \A a \in Box : /\ base[a] # g
                                                      /\ opening[a] # None => opening[a].seg # g
                                                      /\ \A s \in Slot : handles[a][s] # None
                                                                           => handles[a][s].seg # g}
         g == IF fresh THEN CHOOSE u \in unused : TRUE ELSE linked[IdOf[b]]
     IN  /\ fresh => unused # {}
         /\ linked' = [linked EXCEPT ![IdOf[b]] = g]
         /\ header' = IF fresh THEN header \ {g} ELSE header
         /\ base' = [base EXCEPT ![b] = g]
         /\ ring' = IF fresh THEN [ring EXCEPT ![g] = {}] ELSE ring
         /\ fate' = IF fresh THEN [m \in Msg |-> IF m \in ring[g] THEN "gone" ELSE fate[m]] ELSE fate
  /\ stage' = [stage EXCEPT ![b] = "allocated"]
  /\ UNCHANGED <<created, objects, leftover, cacheVars, tableVars, inbound>>

\* The layout header, then the named mutex and event: a name in use fails, and
\* ERROR_INIT leaves the segment behind
Named(i) == \/ \E b \in objects : IdOf[b] = i
            \/ \E b \in Box, s \in Slot : handles[b][s] # None /\ handles[b][s].dest = i
InitHeader(b) ==
  /\ stage[b] = "allocated" /\ Steady(IdOf[b])
  /\ header' = header \cup {base[b]}
  /\ stage' = [stage EXCEPT ![b] = "header"]
  /\ UNCHANGED <<created, deployVars, linked, base, objects, leftover, cacheVars, tableVars, mailVars>>

\* Mutant: objects of an earlier instance are taken over
Mut_InitObjects(b) ==
  /\ stage[b] = "header" /\ Steady(IdOf[b])
  /\ objects' = objects \cup {b}
  /\ stage' = [stage EXCEPT ![b] = "objects"]
  /\ UNCHANGED <<created, deployVars, linked, header, base, leftover, cacheVars, tableVars, mailVars>>
InitObjects(b) ==
  /\ stage[b] = "header" /\ Steady(IdOf[b])
  /\ IF Named(IdOf[b])
     THEN /\ stage' = [stage EXCEPT ![b] = "off"]
          /\ leftover' = leftover \cup {IdOf[b]}
          /\ UNCHANGED objects
     ELSE /\ stage' = [stage EXCEPT ![b] = "objects"]
          /\ objects' = objects \cup {b}
          /\ UNCHANGED leftover
  /\ UNCHANGED <<created, deployVars, linked, header, base, cacheVars, tableVars, mailVars>>

\* create_xbuf(), which may fail: then mutex and event are left open as well
InitXbuf(b) ==
  /\ stage[b] = "objects" /\ Steady(IdOf[b])
  /\ stage' = [stage EXCEPT ![b] = "off"]
  /\ \/ created' = created \cup {b} /\ leftover' = leftover \ {IdOf[b]}
     \/ leftover' = leftover \cup {IdOf[b]} /\ UNCHANGED created
  /\ UNCHANGED <<deployVars, linked, header, base, objects, cacheVars, tableVars, mailVars>>

system_id_of(i) == (i \div 2^24) % 2^8
\* Mutant: the instance byte is left out of the port
Mut_port_for(i) == (42000 + (i % 2^8)) % 2^16
port_for(i) == (42000 + (i % 2^15)) % 2^16

\* create_oob_socket(): a port that is taken on this host fails; port 0 stands
\* for one that the kernel chooses
Bound(b, h, p) == b \in created /\ ModeOf[b] = "Network" /\ HostOf[b] = h /\ p # 0 /\ port_for(IdOf[b]) = p
InitNetwork(b) ==
  /\ Start(b, "Network")
  /\ created' = IF \E a \in Box : Bound(a, HostOf[b], port_for(IdOf[b])) THEN created
                ELSE created \cup {b}
  /\ UNCHANGED <<shmVars, cacheVars, tableVars, mailVars>>

-----------------------------------------------------------------------------
(* shutdown(), and the end of a process.                                   *)

\* registry_remove() only if this mailbox is the one that is registered
Unregister(b) ==
  LET p == ProcOf[b] IN
  IF registry_find(tbl[p], IdOf[b]) = b
  THEN /\ tbl' = [tbl EXCEPT ![p] = registry_remove(@, IdOf[b])]
       /\ latest' = [latest EXCEPT ![p][IdOf[b]] = None]
  ELSE UNCHANGED tableVars

\* Messages in the stores of B are gone for good
Discard(B) ==
  /\ ring' = [r \in Box \cup Segment |-> IF r \in B THEN {} ELSE ring[r]]
  /\ inbound' = [b \in Box |-> IF b \in B THEN {} ELSE inbound[b]]
  /\ fate' = [m \in Msg |-> IF \E b \in B : m \in ring[b] \cup inbound[b] THEN "gone" ELSE fate[m]]

close_all_remotes(b) ==
  /\ handles' = [handles EXCEPT ![b] = [s \in Slot |-> None]]
  /\ recent' = [recent EXCEPT ![b] = <<>>]

\* Mutant: the shared-memory name stays
Mut_Shutdown(b) ==
  /\ b \in created /\ opening[b] = None /\ Steady(IdOf[b])
  /\ created' = created \ {b} /\ Discard({b})
  /\ IF ModeOf[b] = "Local" THEN Unregister(b) ELSE UNCHANGED tableVars
  /\ close_all_remotes(b)
  /\ base' = [base EXCEPT ![b] = None] /\ objects' = objects \ {b}
  /\ UNCHANGED <<deployVars, header, linked, opening, stage, leftover>>
\* close_all_remotes(), the xbuf, mutex and event, then free_ring(), which
\* unlinks the name; a mailbox that is not created does nothing
Shutdown(b) ==
  /\ b \in created /\ opening[b] = None /\ Steady(IdOf[b])
  /\ created' = created \ {b} /\ Discard({b})
  /\ IF ModeOf[b] = "Local" THEN Unregister(b) ELSE UNCHANGED tableVars
  /\ close_all_remotes(b)
  /\ base' = [base EXCEPT ![b] = None] /\ objects' = objects \ {b}
  /\ linked' = IF ModeOf[b] = "Public" THEN [linked EXCEPT ![IdOf[b]] = None] ELSE linked
  /\ UNCHANGED <<deployVars, header, opening, stage, leftover>>

\* The process dies: what the kernel holds for it is closed, the shared-memory
\* names stay
Crash(p) ==
  LET B == {b \in Box : ProcOf[b] = p} IN
  /\ \E b \in B : b \in created \/ stage[b] # "off" \/ b \in objects
  /\ created' = created \ B /\ objects' = objects \ B /\ Discard(B)
  /\ stage' = [b \in Box |-> IF b \in B THEN "off" ELSE stage[b]]
  /\ base' = [b \in Box |-> IF b \in B THEN None ELSE base[b]]
  /\ handles' = [b \in Box |-> IF b \in B THEN [s \in Slot |-> None] ELSE handles[b]]
  /\ recent' = [b \in Box |-> IF b \in B THEN <<>> ELSE recent[b]]
  /\ opening' = [b \in Box |-> IF b \in B THEN None ELSE opening[b]]
  /\ tbl' = [tbl EXCEPT ![p] = [k \in Bucket |-> NoEntry]]
  /\ latest' = [latest EXCEPT ![p] = [i \in Id |-> None]]
  /\ leftover' = leftover \cup {i \in Id : \E b \in B : IdOf[b] = i /\ base[b] # None}
  /\ UNCHANGED <<deployVars, linked, header>>

-----------------------------------------------------------------------------
(* send_raw().                                                             *)

Sendable(b, m) == b \in created /\ opening[b] = None /\ Src[m] = b /\ fate[m] = "unsent"

Gone(m) == fate' = [fate EXCEPT ![m] = "gone"] /\ UNCHANGED ring

\* A segment whose header was never written says that it has no slots
capacity(r) == IF r \in Segment \ header THEN 0 ELSE kSlots
\* post(), post_to_remote(): a free slot; else the lowest priority gives way;
\* else ERROR_SEND
Post(r, m) ==
  LET low == {w \in ring[r] : \A v \in ring[r] : Prio[w] <= Prio[v]} IN
  \/ /\ Cardinality(ring[r]) < capacity(r)
     /\ ring' = [ring EXCEPT ![r] = @ \cup {m}]
     /\ fate' = [fate EXCEPT ![m] = "stored"]
  \/ /\ Cardinality(ring[r]) = capacity(r)
     /\ \E w \in low :
          /\ Prio[w] <= Prio[m]
          /\ ring' = [ring EXCEPT ![r] = (@ \ {w}) \cup {m}]
          /\ fate' = [fate EXCEPT ![m] = "stored", ![w] = "gone"]
  \/ /\ Cardinality(ring[r]) = capacity(r) /\ \A w \in low : Prio[w] > Prio[m]
     /\ Gone(m)

\* Local and Public: the registry of this process first
InProcess(b, i) ==
  LET l == registry_find(tbl[ProcOf[b]], i) IN
  IF l # None /\ l \in created /\ IdOf[l] = i THEN l ELSE None
SendLocal(b, m) ==
  LET l == InProcess(b, Dest[m]) IN
  /\ ModeOf[b] # "Network" /\ Sendable(b, m)
  /\ IF l # None THEN Post(l, m) ELSE ModeOf[b] = "Local" /\ Gone(m)
  /\ UNCHANGED <<created, deployVars, shmVars, cacheVars, tableVars, inbound>>

\* The order of the last_used times, without slot s
Without(q, s) ==
  IF \A i \in DOMAIN q : q[i] # s THEN q
  ELSE LET k == CHOOSE i \in DOMAIN q : q[i] = s IN SubSeq(q, 1, k - 1) \o SubSeq(q, k + 1, Len(q))
\* Mutant: a handle used again keeps its old time of use as well
Mut_Used(q, s) == Append(q, s)
Used(q, s) == Append(Without(q, s), s)
HandleOf(b, i) == {s \in Slot : handles[b][s] # None /\ handles[b][s].dest = i}

\* Mutant: a valid handle is taken without a look at its dest_id
Mut_SendCached(b, m) ==
  /\ ModeOf[b] = "Public" /\ Sendable(b, m)
  /\ InProcess(b, Dest[m]) = None
  /\ \E s \in Slot : /\ handles[b][s] # None
                     /\ recent' = [recent EXCEPT ![b] = Used(@, s)]
                     /\ Post(handles[b][s].seg, m)
  /\ UNCHANGED <<created, deployVars, shmVars, handles, opening, tableVars, inbound>>
\* get_or_open_remote(), a cached handle
SendCached(b, m) ==
  /\ ModeOf[b] = "Public" /\ Sendable(b, m)
  /\ InProcess(b, Dest[m]) = None
  /\ \E s \in HandleOf(b, Dest[m]) :
       /\ recent' = [recent EXCEPT ![b] = Used(@, s)]
       /\ Post(handles[b][s].seg, m)
  /\ UNCHANGED <<created, deployVars, shmVars, handles, opening, tableVars, inbound>>

\* The first empty slot, or the one least recently used
SlotFor(b) ==
  LET free == {s \in Slot : handles[b][s] = None} IN
  IF free # {} THEN CHOOSE s \in free : \A t \in free : s <= t ELSE Head(recent[b])
\* No handle: that slot is closed, then open_remote() opens the segment and
\* reads its header. With no segment the message goes to the router through the
\* xbuf.
SendOpen(b, m) ==
  LET s == SlotFor(b)
      g == linked[Dest[m]]
  IN
  /\ ModeOf[b] = "Public" /\ Sendable(b, m)
  /\ InProcess(b, Dest[m]) = None /\ HandleOf(b, Dest[m]) = {}
  /\ ~Racing => \A a \in Box : IdOf[a] = Dest[m] => stage[a] = "off"
  /\ handles' = [handles EXCEPT ![b][s] = None]
  /\ recent' = [recent EXCEPT ![b] = Without(@, s)]
  /\ IF g = None THEN Gone(m) /\ UNCHANGED opening
     ELSE /\ opening' = [opening EXCEPT ![b] = [slot |-> s, seg |-> g, whole |-> g \in header, msg |-> m]]
          /\ UNCHANGED <<ring, fate>>
  /\ UNCHANGED <<created, deployVars, shmVars, tableVars, inbound>>

\* open_remote(): the mutex and the event; then post_to_remote()
OpenRemote(b) ==
  LET o == opening[b] IN
  /\ o # None
  /\ opening' = [opening EXCEPT ![b] = None]
  /\ IF Named(Dest[o.msg])
     THEN /\ handles' = [handles EXCEPT ![b][o.slot] =
                           [dest |-> Dest[o.msg], seg |-> o.seg, whole |-> o.whole]]
          /\ recent' = [recent EXCEPT ![b] = Used(@, o.slot)]
          /\ Post(o.seg, o.msg)
     ELSE Gone(o.msg) /\ UNCHANGED <<handles, recent>>
  /\ UNCHANGED <<created, deployVars, shmVars, tableVars, inbound>>

\* The first route with a valid address for the system id of the destination
net_routes(i) == SelectSeq(Routes, LAMBDA r : r.ip # None /\ r.system_id = system_id_of(i))
\* send_oob_udp(); the datagram is lost, or reaches whoever has the port
SendNetwork(b, m) ==
  /\ ModeOf[b] = "Network" /\ Sendable(b, m)
  /\ IF net_routes(Dest[m]) = <<>> THEN Gone(m)
     ELSE \/ Gone(m)
          \/ \E a \in Box : /\ Bound(a, Head(net_routes(Dest[m])).ip, port_for(Dest[m]))
                            /\ ring' = [ring EXCEPT ![a] = @ \cup {m}]
                            /\ fate' = [fate EXCEPT ![m] = "stored"]
  /\ UNCHANGED <<created, deployVars, shmVars, cacheVars, tableVars, inbound>>

\* The router writes to the xbuf of the Public mailbox a message is for
RouterWrites(b, m) ==
  /\ Src[m] = None /\ fate[m] = "unsent" /\ IdOf[b] = Dest[m] /\ ModeOf[b] = "Public" /\ b \in created
  /\ inbound' = [inbound EXCEPT ![b] = @ \cup {m}]
  /\ fate' = [fate EXCEPT ![m] = "stored"]
  /\ UNCHANGED <<created, deployVars, shmVars, cacheVars, tableVars, ring>>

-----------------------------------------------------------------------------
(* receive_impl().                                                         *)

Own(b) == IF ModeOf[b] = "Public" THEN base[b] ELSE b
\* A message of the highest priority
ReceiveRing(b) ==
  /\ b \in created /\ ModeOf[b] # "Network"
  /\ \E m \in ring[Own(b)] :
       /\ \A w \in ring[Own(b)] : Prio[w] <= Prio[m]
       /\ ring' = [ring EXCEPT ![Own(b)] = @ \ {m}]
       /\ fate' = [fate EXCEPT ![m] = "gone"]
  /\ UNCHANGED <<created, deployVars, shmVars, cacheVars, tableVars, inbound>>
\* receive_oob_udp(): any datagram
ReceiveNetwork(b) ==
  /\ b \in created /\ ModeOf[b] = "Network"
  /\ \E m \in ring[b] :
       /\ ring' = [ring EXCEPT ![b] = @ \ {m}]
       /\ fate' = [fate EXCEPT ![m] = "gone"]
  /\ UNCHANGED <<created, deployVars, shmVars, cacheVars, tableVars, inbound>>
\* Public: evl_poll() reported the xbuf
ReceiveXbuf(b) ==
  /\ b \in created
  /\ \E m \in inbound[b] :
       /\ inbound' = [inbound EXCEPT ![b] = @ \ {m}]
       /\ fate' = [fate EXCEPT ![m] = "gone"]
  /\ UNCHANGED <<created, deployVars, shmVars, cacheVars, tableVars, ring>>

BoxStep(b) ==
  \/ InitLocal(b) \/ InitAllocate(b) \/ InitHeader(b) \/ InitObjects(b) \/ InitXbuf(b)
  \/ InitNetwork(b) \/ Shutdown(b) \/ OpenRemote(b) \/ ReceiveRing(b)
  \/ ReceiveNetwork(b) \/ ReceiveXbuf(b)
Send(b, m) ==
  SendLocal(b, m) \/ SendCached(b, m) \/ SendOpen(b, m) \/ SendNetwork(b, m) \/ RouterWrites(b, m)
Next ==
  \/ \E b \in used.boxes : BoxStep(b) \/ \E m \in used.msgs : Send(b, m)
  \/ \E p \in Proc : Crash(p)
Spec == Init /\ [][Next]_vars

-----------------------------------------------------------------------------
(* Properties.                                                             *)

\* The state of mailboxes, registries, segments and handles has its types, and
\* last_used orders the valid handles of a mailbox.
TypeOK ==
  /\ used \in Deployment /\ created \subseteq used.boxes /\ objects \subseteq Box /\ header \subseteq Segment
  /\ stage \in [Box -> {"off", "allocated", "header", "objects"}]
  /\ tbl \in [Proc -> [Bucket -> [id : Id \cup {0}, ptr : Box \cup {None}]]]
  /\ linked \in [Id -> Segment \cup {None}] /\ base \in [Box -> Segment \cup {None}]
  /\ latest \in [Proc -> [Id -> Box \cup {None}]] /\ leftover \subseteq Id
  /\ handles \in [Box -> [Slot -> [dest : Id, seg : Segment, whole : BOOLEAN] \cup {None}]]
  /\ opening \in [Box -> [slot : Slot, seg : Segment, whole : BOOLEAN, msg : Msg] \cup {None}]
  /\ \A b \in Box :
       /\ recent[b] \in Seq(Slot) /\ \A i, j \in DOMAIN recent[b] : recent[b][i] = recent[b][j] => i = j
       /\ {recent[b][i] : i \in DOMAIN recent[b]} = {s \in Slot : handles[b][s] # None}
  /\ ring \in [Box \cup Segment -> SUBSET Msg] /\ inbound \in [Box -> SUBSET Msg]
  /\ fate \in [Msg -> {"unsent", "stored", "gone"}]
  /\ inits \in 0 .. MaxInits

\* registry_find() gives the Local mailbox of the process that registered the
\* id last, as long as that one lives, and nothing otherwise: whatever order
\* mailboxes come and go in, a tombstone never hides another entry and no
\* pointer outlives its mailbox (the probe loops of insert, remove and find).
FindsLatest ==
  Cardinality(Id) <= kRegistryCapacity =>
    \A p \in Proc, i \in Id :
      LET l == registry_find(tbl[p], i) IN
      l = latest[p][i] /\ (l # None => l \in created /\ IdOf[l] = i /\ ProcOf[l] = p)

\* A mailbox has one cached handle for a destination; while the destination
\* lives, the handle leads to the ring the destination reads and maps all of it,
\* whatever crashes and restarts there were: the names of mutex and event, which
\* a cached handle keeps in use, stop a restart in front of a stale handle.
HandlesCurrent ==
  \A b \in Box, s \in Slot : handles[b][s] # None =>
    LET h == handles[b][s] IN
    /\ HandleOf(b, h.dest) = {s}
    /\ \A d \in created : ModeOf[d] = "Public" /\ IdOf[d] = h.dest => h.whole /\ base[d] = h.seg

\* A message that send_raw() accepts for a Public mailbox that lives is put
\* where that mailbox, or a Local one of the same id in the sender's process,
\* will read it.
Deposited ==
  [][\A m \in Msg : fate[m] = "unsent" /\ fate'[m] = "stored" =>
       \A d \in created : ModeOf[d] = "Public" /\ IdOf[d] = Dest[m] =>
         \/ m \in ring'[base[d]] \cup inbound'[d]
         \/ \E l \in created : /\ ModeOf[l] = "Local" /\ IdOf[l] = Dest[m]
                               /\ ProcOf[l] = ProcOf[Src[m]] /\ m \in ring'[l]]_vars

\* What a mailbox can read is addressed to it, over rings, xbuf and datagrams,
\* when the ids of the Network mailboxes of a host differ in their port.
RightMailbox ==
  \A b \in created : \A m \in ring[Own(b)] \cup inbound[b] : Dest[m] = IdOf[b]

\* A Public mailbox that starts after a shutdown() finds no message meant for
\* its predecessor; only a crash or an initialize() that failed half-way leaves
\* a segment with messages behind.
CleanRestart ==
  [][\A b \in created' \ created : ModeOf[b] = "Public" /\ IdOf[b] \notin leftover
                                     => ring[base[b]] = {}]_vars
=============================================================================
