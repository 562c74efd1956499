---------------------------- MODULE EvlRingProofs ----------------------------
(***************************************************************************)
(* Proofs about EvlRing for every set of senders, receivers and messages,  *)
(* every priority assignment and every capacity.  The inductive invariant  *)
(* says who may stand where while ring_mutex_ is held, what a thread's idx *)
(* and victim mean in the middle of post() and receive_impl(), and that    *)
(* each stored message is in exactly one place.                            *)
(***************************************************************************)
EXTENDS EvlRing, FiniteSetTheorems, TLAPS

-----------------------------------------------------------------------------
(* Slot scans                                                              *)

\* A non-empty set of natural numbers has a least element.
LEMMA NatMin ==
  ASSUME NEW S \in SUBSET Nat, S # {}
  PROVE \E x \in S : \A y \in S : x <= y
  <1> DEFINE R == {ss \in Nat \X Nat : ss[1] < ss[2]}
  <1>1. OpToRel(<, Nat) = R
    BY Zenon DEF OpToRel
  <1>2. IsWellFoundedOn(R, Nat)
    BY <1>1, NatLessThanWellFounded, Zenon
  <1>3. \A x, y \in Nat : <<y, x>> \in R <=> y < x
    BY Zenon
  <1> HIDE DEF R
  <1>4. PICK x \in S : \A y \in S : ~ (<<y, x>> \in R)
    BY Zenon, <1>2, WFMin
  <1>5. ASSUME NEW y \in S PROVE x <= y
    <2>1. x \in Nat /\ y \in Nat /\ ~ (<<y, x>> \in R)
      BY Zenon, <1>4
    <2>2. ~ (y < x)
      BY <1>3, <2>1, Zenon
    <2> QED BY <2>1, <2>2
  <1> QED BY Zenon, <1>5

\* What a scan for the first slot of a set returns.
LEMMA FirstOfMember ==
  ASSUME NEW S \in SUBSET Slot
  PROVE (S = {} /\ FirstOf(S) = -1) \/ (FirstOf(S) \in S /\ FirstOf(S) # -1)
  <1>1. CASE S # {}
    <2>1. \E x \in S : \A y \in S : x <= y
      BY <1>1, NatMin DEF Slot
    <2>2. Min(S) \in S
      BY <2>1, Zenon DEF Min
    <2> QED BY <1>1, <2>2, RingAssumption DEF FirstOf, Slot
  <1> QED BY Zenon, <1>1 DEF FirstOf

\* -1, what the slot searches return for "none", is no slot.
LEMMA MinusOne == -1 \notin Slot
  BY RingAssumption DEF Slot

\* find_free_slot() returns a free slot, or -1 when every slot is in use.
LEMMA FindFree ==
  \/ find_free_slot = -1 /\ InUse = Slot
  \/ find_free_slot \in Slot \ InUse /\ find_free_slot # -1
  <1>1. InUse \subseteq Slot
    BY Zenon DEF InUse
  <1> QED BY Zenon, <1>1, FirstOfMember DEF find_free_slot

\* find_highest_priority_slot() returns a slot no other slot outranks, or -1.
LEMMA FindHighest ==
  \/ find_highest_priority_slot = -1
  \/ /\ find_highest_priority_slot \in InUse
     /\ \A j \in InUse : slot_meta[j].priority <= slot_meta[find_highest_priority_slot].priority
  <1> DEFINE T == {i \in InUse : /\ slot_meta[i].priority > INT8_MIN
                                 /\ \A j \in InUse : slot_meta[j].priority <= slot_meta[i].priority}
  <1>1. T \in SUBSET Slot
    BY Zenon DEF InUse
  <1>2. find_highest_priority_slot = FirstOf(T)
    BY Zenon DEF find_highest_priority_slot
  <1>3. find_highest_priority_slot = -1 \/ find_highest_priority_slot \in T
    <2> HIDE DEF T
    <2> QED BY Zenon, <1>1, <1>2, FirstOfMember
  <1> QED BY Zenon, <1>3

\* The scan of evict_lowest() returns a slot that outranks no other, or -1.
LEMMA FindLowest ==
  \/ lowest_priority_slot = -1
  \/ /\ lowest_priority_slot \in InUse
     /\ \A j \in InUse : slot_meta[j].priority >= slot_meta[lowest_priority_slot].priority
  <1> DEFINE T == {i \in InUse : /\ slot_meta[i].priority < INT8_MAX
                                 /\ \A j \in InUse : slot_meta[j].priority >= slot_meta[i].priority}
  <1>1. T \in SUBSET Slot
    BY Zenon DEF InUse
  <1>2. lowest_priority_slot = FirstOf(T)
    BY Zenon DEF lowest_priority_slot
  <1>3. lowest_priority_slot = -1 \/ lowest_priority_slot \in T
    <2> HIDE DEF T
    <2> QED BY Zenon, <1>1, <1>2, FirstOfMember
  <1> QED BY Zenon, <1>3

\* The scan of evict_lowest() fails only on an empty ring or on INT8_MAX.
LEMMA FindLowestExists ==
  ASSUME TypeOK, InUse # {}, \A i \in InUse : slot_meta[i].priority # INT8_MAX
  PROVE lowest_priority_slot # -1
  <1> DEFINE T == {i \in InUse : /\ slot_meta[i].priority < INT8_MAX
                                 /\ \A j \in InUse : slot_meta[j].priority >= slot_meta[i].priority}
             P == {slot_meta[i].priority + 128 : i \in InUse}
  <1>1. InUse \subseteq Slot /\ \A i \in InUse : slot_meta[i].priority \in -128 .. 127
    BY Zenon DEF TypeOK, SlotMeta, InUse, INT8_MIN, INT8_MAX
  <1>2. P \in SUBSET Nat /\ P # {}
    BY <1>1
  <1>3. PICK p \in P : \A q \in P : p <= q
    <2> HIDE DEF P
    <2> QED BY Zenon, <1>2, NatMin
  <1>4. PICK i \in InUse : p = slot_meta[i].priority + 128
    BY Zenon
  <1>5. \A j \in InUse : slot_meta[i].priority + 128 <= slot_meta[j].priority + 128
    BY <1>3, <1>4
  <1>6. i \in T
    <2>1. slot_meta[i].priority < INT8_MAX
      BY <1>1 DEF INT8_MAX
    <2>2. ASSUME NEW j \in InUse PROVE slot_meta[j].priority >= slot_meta[i].priority
      <3>1. /\ slot_meta[i].priority \in Int /\ slot_meta[j].priority \in Int
            /\ slot_meta[i].priority + 128 <= slot_meta[j].priority + 128
        BY <1>1, <1>5, SMTT(30)
      <3> HIDE DEF P
      <3> QED BY <3>1
    <2> QED BY Zenon, <2>1, <2>2
  <1>7. T \in SUBSET Slot /\ lowest_priority_slot = FirstOf(T)
    BY Zenon, <1>1 DEF lowest_priority_slot
  <1> HIDE DEF T
  <1> QED BY Zenon, <1>6, <1>7, FirstOfMember

-----------------------------------------------------------------------------
(* The inductive invariant                                                 *)

Critical == {"find", "copy", "meta", "signal", "check", "read", "free"}

\* A thread between lock and unlock owns ring_mutex_.
Exclusive == \A t \in Thread : pc[t] \in Critical => ring_mutex = t

\* A sender in post(): its message is new, its slot is free, and what it
\* displaces is a lowest message of a ring with no other free slot.
Sending ==
  \A s \in Sender :
    /\ pc[s] \in {"idle", "lock", "find", "copy", "meta", "signal"}
    /\ pc[s] # "idle" => msg[s] \in Msg /\ Origin[msg[s]] = s
    /\ pc[s] \in {"lock", "find", "copy", "meta"} => msg[s] \notin posted \cup rejected
    /\ pc[s] \in {"copy", "meta"} => idx[s] \in Slot \ InUse
    /\ pc[s] = "meta" => slot_data[idx[s]] = msg[s]

Displacing ==
  \A s \in Sender : victim[s] # NoMsg =>
    /\ pc[s] \in {"copy", "meta"}
    /\ InUse = Slot \ {idx[s]}
    /\ Priority(victim[s]) <= Priority(msg[s])
    /\ \A i \in InUse : /\ slot_data[i] # victim[s]
                        /\ Priority(victim[s]) <= Priority(slot_data[i])

\* A receiver in receive_impl(): its slot is in use and ranks highest.
Receiving ==
  \A r \in Receiver :
    /\ pc[r] \in {"idle", "lock", "check", "wait", "fail", "read", "free"}
    /\ pc[r] \in {"read", "free"} /\ idx[r] # -1 =>
         /\ idx[r] \in InUse
         /\ \A j \in InUse : slot_meta[j].priority <= slot_meta[idx[r]].priority
    /\ pc[r] = "free" => idx[r] # -1 /\ msg[r] = slot_data[idx[r]]

IInv ==
  /\ TypeOK /\ Exclusive /\ Sending /\ Displacing /\ Receiving
  /\ SlotsDescribed /\ Conservation

\* A ring fresh from allocate_ring() satisfies the inductive invariant.
LEMMA InitIInv == Init => IInv
  <1> SUFFICES ASSUME Init PROVE IInv
    BY Zenon
  <1> USE RingAssumption DEF Init
  <1>1. TypeOK
    BY MinusOne DEF TypeOK, SlotMeta, Thread, INT8_MIN, INT8_MAX
  <1>2. InUse = {} /\ \A s \in Sender : victim[s] = NoMsg
    BY Zenon DEF InUse
  <1>3. Exclusive /\ Sending /\ Displacing /\ Receiving
    BY Zenon, <1>2 DEF Exclusive, Critical, Sending, Displacing, Receiving, Thread
  <1>4. SlotsDescribed
    BY Zenon, <1>2 DEF SlotsDescribed
  <1>5. Held = {}
    BY <1>2 DEF Held
  <1>6. Conservation
    BY <1>2, <1>5 DEF Conservation
  <1> QED BY Zenon, <1>1, <1>3, <1>4, <1>6 DEF IInv

\* While a thread owns ring_mutex_ nobody else is between lock and unlock,
\* and no other sender has a slot it is reusing.
LEMMA OthersOutside ==
  ASSUME IInv, NEW t \in Thread, ring_mutex = t
  PROVE /\ \A u \in Thread : u # t => pc[u] \notin Critical
        /\ \A s \in Sender : s # t => victim[s] = NoMsg
  BY Zenon DEF IInv, Exclusive, Displacing, Critical, Thread

\* A thread that acquires the free mutex finds nobody in a critical section.
LEMMA NobodyInside ==
  ASSUME IInv, ring_mutex = NoThread
  PROVE /\ \A u \in Thread : pc[u] \notin Critical
        /\ \A s \in Sender : victim[s] = NoMsg
  BY RingAssumption DEF IInv, Exclusive, Displacing, Critical, Thread

\* Slots and places of messages do not change when ring and history do not.
LEMMA SamePlaces ==
  ASSUME IInv, UNCHANGED <<slot_meta, slot_data, victim, posted, evicted, delivered>>
  PROVE InUse' = InUse /\ Held' = Held /\ SlotsDescribed' /\ Conservation'
  <1>1. InUse' = InUse /\ Held' = Held
    BY Zenon DEF InUse, Held
  <1> QED BY Zenon, <1>1 DEF IInv, SlotsDescribed, Conservation, MetaOf

\* Steps of post() that leave the slots alone.
LEMMA SenderFrame ==
  ASSUME IInv, NEW s \in Sender,
         (\E m \in Msg : Send(s, m)) \/ SLock(s) \/ SFindFree(s) \/ SReject(s) \/ SSignal(s)
  PROVE IInv'
  <1> USE RingAssumption DEF IInv, Goto, ringVars, countVars, histVars
  <1>0. s \in Thread /\ InUse' = InUse /\ SlotsDescribed' /\ Conservation'
    BY Zenon, SamePlaces DEF Thread, Send, SLock, SFindFree, SReject, SSignal
  <1>1. ASSUME NEW m \in Msg, Send(s, m) PROVE IInv'
    <2> USE <1>1 DEF Send
    <2>1. TypeOK'
      BY Zenon, <1>0 DEF TypeOK
    <2>2. Exclusive' /\ Displacing' /\ Receiving'
      BY <1>0 DEF TypeOK, Exclusive, Displacing, Receiving, Critical, Thread
    <2>3. Sending'
      BY <1>0 DEF TypeOK, Sending
    <2> QED BY Zenon, <1>0, <2>1, <2>2, <2>3
  <1>2. CASE SLock(s)
    <2> USE <1>2 DEF SLock, Acquire
    <2>1. TypeOK'
      BY Zenon, <1>0 DEF TypeOK
    <2>2. Exclusive' /\ Displacing' /\ Receiving'
      BY SMTT(30), <1>0, NobodyInside DEF TypeOK, Exclusive, Displacing, Receiving, Thread, Critical
    <2>3. Sending'
      BY <1>0 DEF TypeOK, Sending
    <2> QED BY Zenon, <1>0, <2>1, <2>2, <2>3
  <1>3. CASE SFindFree(s)
    <2> USE <1>3 DEF SFindFree
    <2>1. find_free_slot \in Slot \ InUse
      BY Zenon, FindFree
    <2>2. TypeOK'
      BY Zenon, <1>0, <2>1 DEF TypeOK
    <2>3. Exclusive' /\ Receiving'
      BY Zenon, <1>0 DEF TypeOK, Exclusive, Receiving, Critical, Thread
    <2>4. Sending' /\ Displacing'
      BY <1>0, <2>1 DEF TypeOK, Sending, Displacing, Thread
    <2> QED BY Zenon, <1>0, <2>2, <2>3, <2>4
  <1>4. CASE SReject(s)
    <2> USE <1>4 DEF SReject
    <2>1. ring_mutex = s /\ msg[s] \in Msg
      BY Zenon, <1>0 DEF Exclusive, Critical, Sending
    <2>2. TypeOK'
      BY <1>0, <2>1 DEF TypeOK
    <2>3. Exclusive' /\ Receiving' /\ Displacing'
      BY Zenon, <1>0, <2>1, OthersOutside DEF TypeOK, Exclusive, Receiving, Displacing, Thread, Critical
    <2>4. Sending'
      BY <1>0, <2>1 DEF TypeOK, Sending, Thread
    <2> QED BY Zenon, <1>0, <2>2, <2>3, <2>4
  <1>5. CASE SSignal(s)
    <2> USE <1>5 DEF SSignal
    <2>1. ring_mutex = s /\ ring_event' \subseteq ring_event
      BY Zenon, <1>0 DEF Exclusive, Critical, SignalOne
    <2>2. TypeOK'
      BY <1>0, <2>1 DEF TypeOK
    <2>3. Exclusive' /\ Receiving' /\ Displacing'
      BY Zenon, <1>0, <2>1, OthersOutside DEF TypeOK, Exclusive, Receiving, Displacing, Thread, Critical
    <2>4. Sending'
      BY Zenon, <1>0 DEF TypeOK, Sending, Thread
    <2> QED BY Zenon, <1>0, <2>2, <2>3, <2>4
  <1> QED BY Zenon, <1>1, <1>2, <1>3, <1>4, <1>5

\* static_cast<int8_t> of a uint8_t is an int8_t.
LEMMA CastRange == \A u \in 0 .. 255 : ToInt8(u) \in INT8_MIN .. INT8_MAX
  <1> TAKE u \in 0 .. 255
  <1>1. u \in Int /\ 0 <= u /\ u <= 255
    OBVIOUS
  <1>2. CASE u > 127
    BY ONLY <1>1, <1>2 DEF ToInt8, INT8_MIN, INT8_MAX
  <1>3. CASE ~ (u > 127)
    BY ONLY <1>1, <1>3 DEF ToInt8, INT8_MIN, INT8_MAX
  <1> QED BY Zenon, <1>2, <1>3

\* Priorities are integers: uint8_t values read as int8_t.
LEMMA PriorityInt == \A m \in Msg : Priority(m) \in Int
  <1> TAKE m \in Msg
  <1>1. SendPriority[Origin[m]] \in 0 .. 255
    BY RingAssumption
  <1> QED BY <1>1 DEF Priority, ToInt8, INT8_MAX

\* The priority of a slot in use is that of its message.
LEMMA SlotPriorities ==
  ASSUME SlotsDescribed
  PROVE \A i \in InUse : slot_data[i] \in Msg /\ slot_meta[i].priority = Priority(slot_data[i])
  <1>1. \A i \in InUse : slot_data[i] \in Msg /\ slot_meta[i] = MetaOf(slot_data[i])
    BY Zenon DEF SlotsDescribed
  <1>2. \A m \in Msg : MetaOf(m).priority = Priority(m)
    BY Zenon DEF MetaOf
  <1> QED BY Zenon, <1>1, <1>2

\* slot.in_use = false keeps a slot's metadata well typed.
LEMMA FreedMeta ==
  ASSUME NEW d \in SlotMeta
  PROVE [d EXCEPT !.in_use = FALSE] \in SlotMeta
  BY Zenon DEF SlotMeta

\* post() takes over the slot of a lowest message.
LEMMA EvictStep ==
  ASSUME IInv, NEW s \in Sender, SEvict(s)
  PROVE IInv' /\ Held' = Held
  <1> USE RingAssumption DEF IInv, Goto, countVars, histVars
  <1> DEFINE i == evict_lowest(Priority(msg[s]))
  <1>0. /\ s \in Thread /\ find_free_slot = -1 /\ i # -1
        /\ pc[s] = "find" /\ pc' = [pc EXCEPT ![s] = "copy"]
        /\ idx' = [idx EXCEPT ![s] = i]
        /\ slot_meta' = [slot_meta EXCEPT ![i].in_use = FALSE]
        /\ victim' = [victim EXCEPT ![s] = slot_data[i]]
        /\ UNCHANGED <<slot_data, ring_mutex, ring_event, msg, countVars, histVars>>
    BY Zenon DEF SEvict, Thread
  <1>1. /\ i \in InUse /\ slot_meta[i].priority <= Priority(msg[s])
        /\ \A j \in InUse : slot_meta[i].priority <= slot_meta[j].priority
    <2>1. i = lowest_priority_slot /\ Priority(msg[s]) >= slot_meta[i].priority
      BY Zenon, <1>0 DEF evict_lowest
    <2> HIDE DEF i
    <2> QED BY Zenon, <1>0, <2>1, FindLowest
  <1> HIDE DEF i
  <1>2. InUse = Slot /\ i \in Slot
    BY Zenon, <1>0, <1>1, FindFree, MinusOne
  <1>3. /\ ring_mutex = s /\ msg[s] \in Msg
        /\ \A u \in Thread : u # s => pc[u] \notin Critical
        /\ \A u \in Sender : victim[u] = NoMsg
    BY <1>0, OthersOutside DEF Exclusive, Critical, Sending, Displacing
  <1>4. InUse' = InUse \ {i} /\ \A j \in InUse' : slot_meta'[j] = slot_meta[j]
    BY <1>0, <1>2 DEF InUse, TypeOK, SlotMeta
  <1>5. \A j \in InUse : slot_data[j] \in Msg /\ slot_meta[j].priority = Priority(slot_data[j])
    BY Zenon, SlotPriorities
  <1>6. victim'[s] = slot_data[i] /\ slot_data[i] \in Msg /\ slot_data[i] # NoMsg
        /\ \A u \in Sender : u # s => victim'[u] = NoMsg
    BY <1>0, <1>1, <1>3, <1>5 DEF TypeOK
  <1>7. TypeOK'
    <2>1. slot_meta' \in [Slot -> SlotMeta]
      BY Zenon, <1>0, <1>2, FreedMeta DEF TypeOK
    <2> QED BY Zenon, <1>0, <1>2, <1>6, <2>1 DEF TypeOK
  <1>8. Exclusive' /\ Receiving'
    BY Zenon, <1>0, <1>3 DEF TypeOK, Exclusive, Receiving, Critical, Thread
  <1>9. Sending'
    <2>1. \A u \in Sender : u # s => pc'[u] \in {"idle", "lock"}
      BY Zenon, <1>0, <1>3 DEF TypeOK, Sending, Critical, Thread
    <2> QED BY Zenon, <1>0, <1>2, <1>3, <1>4, <2>1 DEF TypeOK, Sending, Thread
  <1>10. Displacing'
    <2>1. idx'[s] = i /\ pc'[s] = "copy"
      BY Zenon, <1>0 DEF TypeOK, Thread
    <2>2. \A j \in InUse' : slot_data[j] # slot_data[i]
      BY Zenon, <1>1, <1>4 DEF Conservation
    <2>3. \A j \in InUse' : Priority(slot_data[i]) <= Priority(slot_data[j])
      BY <1>1, <1>4, <1>5
    <2>4. Priority(slot_data[i]) <= Priority(msg[s])
      BY <1>1, <1>5
    <2> QED BY <1>0, <1>2, <1>4, <1>6, <2>1, <2>2, <2>3, <2>4 DEF Displacing, Priority
  <1>11. SlotsDescribed'
    BY Zenon, <1>0, <1>4 DEF SlotsDescribed, MetaOf
  <1>12. Held' = Held
    <2>1. Held = {slot_data[j] : j \in InUse}
      BY <1>3 DEF Held
    <2>2. {victim'[u] : u \in Sender} \ {NoMsg} = {slot_data[i]}
      BY <1>6
    <2>3. Held' = {slot_data[j] : j \in InUse'} \cup {slot_data[i]}
      BY ZenonT(30), <1>0, <2>2 DEF Held
    <2> QED BY <1>1, <1>4, <2>1, <2>3
  <1>13. Conservation'
    BY Zenon, <1>0, <1>4, <1>12 DEF Conservation
  <1> QED BY Zenon, <1>7, <1>8, <1>9, <1>10, <1>11, <1>12, <1>13

\* post() fills a slot that is not in use.
LEMMA CopyStep ==
  ASSUME IInv, NEW s \in Sender, SCopy(s)
  PROVE IInv' /\ Held' = Held
  <1> USE RingAssumption DEF IInv, Goto, countVars, histVars, SCopy
  <1>1. /\ s \in Thread /\ ring_mutex = s /\ msg[s] \in Msg /\ idx[s] \in Slot \ InUse
        /\ \A u \in Thread : u # s => pc[u] \notin Critical
    BY Zenon, OthersOutside DEF Exclusive, Critical, Sending, Thread
  <1>2. InUse' = InUse /\ \A j \in InUse : slot_data'[j] = slot_data[j]
    BY <1>1 DEF InUse, TypeOK
  <1>3. Held' = Held
    BY <1>2 DEF Held
  <1>4. TypeOK'
    BY Zenon, <1>1 DEF TypeOK
  <1>5. Exclusive' /\ Receiving'
    BY Zenon, <1>1, <1>2 DEF TypeOK, Exclusive, Receiving, Critical, Thread
  <1>6. Sending' /\ Displacing'
    BY <1>1, <1>2 DEF TypeOK, Sending, Displacing, Critical, Thread
  <1>7. SlotsDescribed' /\ Conservation'
    BY <1>2, <1>3 DEF SlotsDescribed, Conservation, MetaOf
  <1> QED BY Zenon, <1>3, <1>4, <1>5, <1>6, <1>7

\* post() marks its slot in use: the message is stored, the victim is gone.
LEMMA MetaStep ==
  ASSUME IInv, NEW s \in Sender, SMeta(s)
  PROVE IInv'
  <1> USE RingAssumption DEF IInv, Goto, countVars, SMeta
  <1>1. /\ s \in Thread /\ ring_mutex = s
        /\ msg[s] \in Msg /\ Origin[msg[s]] = s /\ msg[s] \notin posted \cup rejected
        /\ idx[s] \in Slot \ InUse /\ slot_data[idx[s]] = msg[s]
        /\ \A u \in Thread : u # s => pc[u] \notin Critical
        /\ \A u \in Sender : u # s => victim[u] = NoMsg
    BY Zenon, OthersOutside DEF Exclusive, Critical, Sending, Thread
  <1>2. /\ MetaOf(msg[s]) \in SlotMeta /\ MetaOf(msg[s]).in_use
    <2>1. SendPriority[Origin[msg[s]]] \in 0 .. 255 /\ Size[msg[s]] \in Nat
          /\ Origin[msg[s]] \in Sender
      BY ONLY <1>1, RingAssumption
    <2>2. Priority(msg[s]) \in INT8_MIN .. INT8_MAX
      BY ONLY <2>1, CastRange DEF Priority
    <2> QED BY ONLY <2>1, <2>2 DEF MetaOf, SlotMeta
  <1>3. /\ InUse' = InUse \cup {idx[s]}
        /\ slot_meta'[idx[s]] = MetaOf(msg[s])
        /\ \A j \in InUse : slot_meta'[j] = slot_meta[j]
    BY <1>1, <1>2 DEF InUse, TypeOK
  <1>4. \A u \in Sender : victim'[u] = NoMsg
    BY <1>1 DEF TypeOK
  <1>5. TypeOK'
    BY <1>1, <1>2 DEF TypeOK
  <1>6. Exclusive' /\ Receiving' /\ Displacing'
    BY Zenon, <1>1, <1>4 DEF TypeOK, Exclusive, Receiving, Displacing, Critical, Thread
  <1>7. Sending'
    <2>1. \A u \in Sender : u # s => pc'[u] \in {"idle", "lock"} /\ pc'[u] = pc[u]
      BY <1>1 DEF TypeOK, Sending, Critical, Thread
    <2>2. pc'[s] = "signal"
      BY <1>1 DEF TypeOK
    <2> QED BY <1>1, <2>1, <2>2, SMTT(30) DEF TypeOK, Sending, Thread
  <1>8. SlotsDescribed'
    BY <1>1, <1>3, ZenonT(60) DEF SlotsDescribed, MetaOf, Priority
  <1>9. /\ Held = {slot_data[j] : j \in InUse} \cup ({victim[s]} \ {NoMsg})
        /\ Held' = {slot_data[j] : j \in InUse} \cup {msg[s]}
    BY <1>1, <1>3, <1>4, SMTT(30) DEF Held
  <1>10. \A j \in InUse : slot_data[j] # victim[s] \/ victim[s] = NoMsg
    BY Zenon DEF Displacing
  <1>11. \A j \in InUse : slot_data[j] \in Msg
    BY Zenon DEF SlotsDescribed
  <1>12. Conservation'
    BY <1>1, <1>3, <1>9, <1>10, <1>11, SMTT(30) DEF Conservation
  <1> QED BY Zenon, <1>5, <1>6, <1>7, <1>8, <1>12

\* A receiver's step that leaves ring and history alone concerns no sender.
LEMMA SendersAside ==
  ASSUME IInv, NEW r \in Receiver, InUse' = InUse,
         UNCHANGED <<slot_meta, slot_data, victim, posted, rejected>>,
         \A s \in Sender : pc'[s] = pc[s] /\ idx'[s] = idx[s] /\ msg'[s] = msg[s]
  PROVE Sending' /\ Displacing'
  <1>1. Sending'
    BY DEF IInv, Sending
  <1>2. Displacing'
    <2> SUFFICES ASSUME NEW s \in Sender, victim'[s] # NoMsg
                 PROVE /\ pc'[s] \in {"copy", "meta"}
                       /\ InUse' = Slot \ {idx'[s]}
                       /\ Priority(victim'[s]) <= Priority(msg'[s])
                       /\ \A i \in InUse' : /\ slot_data'[i] # victim'[s]
                                            /\ Priority(victim'[s]) <= Priority(slot_data'[i])
      BY Zenon DEF Displacing, Priority
    <2> QED BY Zenon DEF IInv, Displacing
  <1> QED BY Zenon, <1>1, <1>2

\* Steps of receive_impl() up to the copy: the slots stay as they are.
LEMMA ReceiverFrame ==
  ASSUME IInv, NEW r \in Receiver,
         \/ Receive(r) \/ RLock(r) \/ RWait(r) \/ RWoken(r) \/ RWaitFails(r)
         \/ RReturnError(r) \/ RFind(r) \/ RTooBig(r) \/ RRead(r)
  PROVE IInv'
  <1> USE RingAssumption DEF IInv, Goto, ringVars, countVars, histVars, Acquire
  <1>0. /\ r \in Thread /\ r \notin Sender
        /\ InUse' = InUse /\ SlotsDescribed' /\ Conservation'
        /\ UNCHANGED <<slot_meta, slot_data, victim, countVars, histVars>>
    BY Zenon, SamePlaces DEF Thread, Receive, RLock, RWait, RWoken, RWaitFails, RReturnError,
       RFind, RTooBig, RRead
  <1>a. ASSUME NEW a, NEW b, NEW d, pc' = [pc EXCEPT ![r] = a],
               idx' = idx \/ idx' = [idx EXCEPT ![r] = b],
               msg' = msg \/ msg' = [msg EXCEPT ![r] = d]
        PROVE Sending' /\ Displacing'
    <2>1. \A s \in Sender : s # r /\ s \in Thread
      BY Zenon DEF Thread
    <2>2. \A s \in Sender : pc'[s] = pc[s] /\ idx'[s] = idx[s] /\ msg'[s] = msg[s]
      BY Zenon, <1>a, <2>1 DEF TypeOK
    <2> QED BY Zenon, <1>0, <2>2, SendersAside
  <1>c. pc = [u \in Thread |-> pc[u]]
    BY Zenon DEF TypeOK
  <1>b. ASSUME NEW a \in {"idle", "lock", "check", "wait", "fail"}, pc' = [pc EXCEPT ![r] = a],
               ring_mutex' \in Thread \cup {NoThread}, ring_event' \subseteq Receiver,
               UNCHANGED <<idx, msg>>
        PROVE TypeOK'
    <2>1. pc' \in [Thread -> {"idle", "lock", "find", "copy", "meta", "signal",
                             "check", "wait", "fail", "read", "free"}]
      BY Zenon, <1>b DEF TypeOK
    <2> QED BY Zenon, <1>0, <1>b, <2>1 DEF TypeOK
  <1>1. CASE Receive(r) \/ RWaitFails(r) \/ RReturnError(r)
    <2> USE <1>1 DEF Receive, RWaitFails, RReturnError
    <2>1. TypeOK'
      <3>1. PICK a \in {"idle", "lock", "fail"} : pc' = [pc EXCEPT ![r] = a]
        BY Zenon
      <3>2. /\ ring_mutex' \in Thread \cup {NoThread} /\ ring_event' \subseteq Receiver
            /\ UNCHANGED <<idx, msg>>
        BY Zenon DEF TypeOK
      <3> QED BY Zenon, <1>b, <3>1, <3>2
    <2>2. Exclusive' /\ Receiving'
      <3>1. /\ pc'[r] \in {"lock", "fail", "idle"} /\ UNCHANGED <<ring_mutex, idx, msg>>
            /\ \A u \in Thread : u # r => pc'[u] = pc[u]
        <4>1. PICK a \in {"lock", "fail", "idle"} : pc' = [pc EXCEPT ![r] = a]
          BY Zenon
        <4>2. UNCHANGED <<ring_mutex, idx, msg>>
          BY Zenon
        <4> QED BY ONLY <1>0, <1>c, <4>1, <4>2
      <3>2. Exclusive'
        BY Zenon, <3>1 DEF Exclusive, Critical
      <3>3. \A u \in Receiver : u \in Thread
        BY Zenon DEF Thread
      <3>4. Receiving'
        BY Zenon, <1>0, <3>1, <3>3 DEF Receiving
      <3> QED BY Zenon, <3>2, <3>4
    <2>3. Sending' /\ Displacing'
      BY Zenon, <1>a
    <2> QED BY Zenon, <1>0, <2>1, <2>2, <2>3
  <1>2. CASE RLock(r) \/ RWoken(r)
    <2> USE <1>2 DEF RLock, RWoken
    <2>1. TypeOK'
      <3>1. "check" \in {"idle", "lock", "check", "wait", "fail"} /\ UNCHANGED <<idx, msg>>
            /\ pc' = [pc EXCEPT ![r] = "check"] /\ ring_mutex' \in Thread \cup {NoThread}
            /\ ring_event' \subseteq Receiver
        BY <1>0 DEF TypeOK
      <3> QED BY Zenon, <1>b, <3>1
    <2>2. /\ \A u \in Thread : pc[u] \notin Critical /\ (u # r => pc'[u] = pc[u])
          /\ pc'[r] = "check" /\ ring_mutex' = r /\ UNCHANGED <<idx, msg>>
      <3>1. /\ ring_mutex = NoThread /\ ring_mutex' = r /\ pc' = [pc EXCEPT ![r] = "check"]
            /\ UNCHANGED <<idx, msg>>
        BY Zenon
      <3>2. \A u \in Thread : pc[u] \notin Critical
        BY Zenon, <3>1, NobodyInside
      <3>3. \A u \in Thread : pc'[u] = IF u = r THEN "check" ELSE pc[u]
        BY ONLY <1>c, <3>1
      <3> QED BY ONLY <1>0, <3>1, <3>2, <3>3
    <2>e. Exclusive'
      BY ONLY <2>2 DEF Exclusive
    <2>r. Receiving'
      <3>1. \A u \in Receiver : pc'[u] \in {"idle", "lock", "check", "wait", "fail"}
        <4>1. \A u \in Receiver : /\ u \in Thread
                                 /\ pc[u] \in {"idle", "lock", "check", "wait", "fail", "read", "free"}
          BY Zenon DEF Receiving, Thread
        <4> QED BY ONLY <2>2, <4>1 DEF Critical
      <3> QED BY ONLY <3>1 DEF Receiving
    <2>3. Sending' /\ Displacing'
      BY Zenon, <1>a
    <2> QED BY Zenon, <1>0, <2>1, <2>e, <2>r, <2>3
  <1>3. CASE RWait(r)
    <2> USE <1>3 DEF RWait
    <2>1. ring_mutex = r
      BY Zenon, <1>0 DEF Exclusive, Critical
    <2>2. TypeOK'
      BY <1>0 DEF TypeOK
    <2>3. Exclusive' /\ Receiving'
      BY Zenon, <1>0, <2>1, OthersOutside DEF TypeOK, Exclusive, Receiving, Critical, Thread
    <2>4. Sending' /\ Displacing'
      BY Zenon, <1>a
    <2> QED BY Zenon, <1>0, <2>2, <2>3, <2>4
  <1>4. CASE RFind(r) \/ RTooBig(r)
    <2> DEFINE i == find_highest_priority_slot
    <2>1. /\ pc[r] = "check" /\ idx' = [idx EXCEPT ![r] = i]
          /\ pc' = [pc EXCEPT ![r] = IF RFind(r) THEN "read" ELSE "idle"]
          /\ ring_mutex' \in {ring_mutex, NoThread} /\ (RFind(r) => ring_mutex' = ring_mutex)
          /\ UNCHANGED <<ring_event, msg>>
      BY Zenon, <1>4 DEF RFind, RTooBig
    <2>2. i = -1 \/ (i \in InUse /\ \A j \in InUse : slot_meta[j].priority <= slot_meta[i].priority)
      BY Zenon, FindHighest
    <2> HIDE DEF i
    <2>3. ring_mutex = r /\ \A u \in Thread : u # r => pc[u] \notin Critical
      BY Zenon, <1>0, <2>1, OthersOutside DEF Exclusive, Critical
    <2>4. TypeOK'
      BY Zenon, <1>0, <2>1, <2>2 DEF TypeOK, InUse
    <2>5. Exclusive'
      BY Zenon, <1>0, <2>1, <2>3 DEF TypeOK, Exclusive, Critical, Thread
    <2>6. Receiving'
      <3>1. idx'[r] = i /\ pc'[r] \in {"read", "idle"}
        BY <1>0, <2>1 DEF TypeOK
      <3>2. \A u \in Receiver : u # r =>
              pc'[u] = pc[u] /\ pc[u] \in {"idle", "lock", "wait", "fail"}
        BY Zenon, <1>0, <2>1, <2>3 DEF TypeOK, Receiving, Critical, Thread
      <3> QED BY Zenon, <1>0, <2>2, <3>1, <3>2 DEF Receiving
    <2>7. Sending' /\ Displacing'
      BY Zenon, <1>a, <2>1
    <2> QED BY Zenon, <1>0, <2>4, <2>5, <2>6, <2>7
  <1>5. CASE RRead(r)
    <2> USE <1>5 DEF RRead
    <2>1. ring_mutex = r /\ idx[r] \in InUse /\ idx[r] \in Slot
      BY Zenon, <1>0 DEF Exclusive, Critical, Receiving, InUse
    <2>2. TypeOK'
      BY <1>0, <2>1 DEF TypeOK
    <2>3. Exclusive' /\ Receiving'
      BY Zenon, <1>0, <2>1, OthersOutside DEF TypeOK, Exclusive, Receiving, Critical, Thread
    <2>4. Sending' /\ Displacing'
      BY Zenon, <1>a
    <2> QED BY Zenon, <1>0, <2>2, <2>3, <2>4
  <1> QED BY Zenon, <1>1, <1>2, <1>3, <1>4, <1>5

\* receive_impl() frees its slot and returns the message.
LEMMA FreeStep ==
  ASSUME IInv, NEW r \in Receiver, RFree(r)
  PROVE IInv'
  <1> USE RingAssumption DEF IInv, Goto, RFree
  <1>1. /\ r \in Thread /\ r \notin Sender /\ ring_mutex = r
        /\ idx[r] \in InUse /\ idx[r] \in Slot /\ msg[r] = slot_data[idx[r]]
        /\ \A u \in Thread : u # r => pc[u] \notin Critical
        /\ \A u \in Sender : victim[u] = NoMsg
    BY OthersOutside DEF Exclusive, Critical, Receiving, InUse, Thread
  <1>2. InUse' = InUse \ {idx[r]} /\ \A j \in InUse' : slot_meta'[j] = slot_meta[j]
    BY <1>1 DEF InUse, TypeOK, SlotMeta
  <1>3. msg[r] \in Msg
    BY Zenon, <1>1 DEF SlotsDescribed
  <1>4. TypeOK'
    <2>1. slot_meta' \in [Slot -> SlotMeta]
      BY Zenon, <1>1, FreedMeta DEF TypeOK
    <2>2. /\ ring_mutex' \in Thread \cup {NoThread}
          /\ pc' \in [Thread -> {"idle", "lock", "find", "copy", "meta", "signal",
                                 "check", "wait", "fail", "read", "free"}]
          /\ messages_received' \in Nat /\ delivered' \subseteq Msg
      BY <1>1, <1>3 DEF TypeOK
    <2> QED BY Zenon, <2>1, <2>2 DEF TypeOK
  <1>5. Exclusive' /\ Displacing'
    BY Zenon, <1>1 DEF TypeOK, Exclusive, Displacing, Critical, Thread
  <1>6. Sending'
    <2>1. \A u \in Sender : pc'[u] = pc[u] /\ pc[u] \in {"idle", "lock"}
      BY <1>1 DEF TypeOK, Sending, Critical, Thread
    <2> QED BY <1>1, <2>1 DEF Sending
  <1>7. Receiving'
    <2>1. \A u \in Receiver : pc'[u] \in {"idle", "lock", "wait", "fail"}
      BY Zenon, <1>1 DEF TypeOK, Receiving, Critical, Thread
    <2> QED BY Zenon, <2>1 DEF Receiving
  <1>8. SlotsDescribed'
    BY Zenon, <1>2 DEF SlotsDescribed, MetaOf, Priority
  <1>9. Held = {slot_data[j] : j \in InUse} /\ Held' = {slot_data[j] : j \in InUse'}
    BY <1>1 DEF Held
  <1>10. Held' = Held \ {msg[r]} /\ msg[r] \in Held
    BY <1>1, <1>2, <1>9 DEF Conservation
  <1>11. Conservation'
    BY <1>2, <1>10 DEF Conservation
  <1> QED BY Zenon, <1>4, <1>5, <1>6, <1>7, <1>8, <1>11

\* The inductive invariant depends on the variables of the ring only.
LEMMA StutterIInv ==
  ASSUME IInv, UNCHANGED vars
  PROVE IInv'
  <1> USE DEF vars, ringVars, threadVars, countVars, histVars, IInv
  <1>1. InUse' = InUse /\ SlotsDescribed' /\ Conservation'
    BY Zenon, SamePlaces
  <1>2. TypeOK'
    BY Zenon DEF TypeOK
  <1>3. Exclusive' /\ Receiving'
    BY Zenon, <1>1 DEF Exclusive, Receiving
  <1>4. Sending'
    BY Zenon, <1>1 DEF Sending
  <1>5. Displacing'
    BY Zenon, <1>1 DEF Displacing, Priority
  <1> QED BY Zenon, <1>1, <1>2, <1>3, <1>4, <1>5

\* Every step of senders and receivers preserves the inductive invariant.
THEOREM RingInductive == Spec => []IInv
  <1>1. IInv /\ [Next]_vars => IInv'
    BY Zenon, SenderFrame, EvictStep, CopyStep, MetaStep, ReceiverFrame, FreeStep, StutterIInv
       DEF Next, SStep, RStep
  <1> QED BY InitIInv, <1>1, PTL DEF Spec

\* The state of the ring is well typed.
THEOREM RingTypes == Spec => []TypeOK
  BY RingInductive, PTL DEF IInv

\* Metadata and payload of a slot in use always belong to one message.
THEOREM RingDescribed == Spec => []SlotsDescribed
  BY RingInductive, PTL DEF IInv

\* A stored message is in one slot, displaced, or delivered once.
THEOREM RingConserves == Spec => []Conservation
  BY RingInductive, PTL DEF IInv

-----------------------------------------------------------------------------
(* No lost wake-up.  The property alone is not inductive: a receiver that  *)
(* takes one of two messages leaves the other to someone.  While a         *)
(* receiver sleeps, there are at least as many threads about to look at    *)
(* the ring, or to signal, as there are messages in it.                    *)

Roomy == \A r \in Receiver, m \in Msg : Size[m] <= BufSize[r]

Awake ==
  {t \in Thread : \/ pc[t] \in {"check", "read", "free", "signal"}
                  \/ pc[t] = "wait" /\ t \notin ring_event}

WakeInv ==
  /\ \A r \in ring_event : pc[r] = "wait"
  /\ ring_event # {} => Cardinality(InUse) <= Cardinality(Awake)

\* The two sets are finite, before and after a step.
LEMMA WakeFinite ==
  ASSUME IsFiniteSet(Thread)
  PROVE /\ IsFiniteSet(InUse) /\ Cardinality(InUse) \in Nat
        /\ IsFiniteSet(Awake) /\ Cardinality(Awake) \in Nat
        /\ IsFiniteSet(InUse') /\ Cardinality(InUse') \in Nat
        /\ IsFiniteSet(Awake') /\ Cardinality(Awake') \in Nat
  <1>1. IsFiniteSet(Slot)
    BY FS_Interval, RingAssumption DEF Slot
  <1>2. InUse \in SUBSET Slot /\ InUse' \in SUBSET Slot /\ Awake \in SUBSET Thread /\ Awake' \in SUBSET Thread
    BY Zenon DEF InUse, Awake
  <1>3. IsFiniteSet(InUse) /\ IsFiniteSet(InUse') /\ IsFiniteSet(Awake) /\ IsFiniteSet(Awake')
    BY Zenon, <1>1, <1>2, FS_Subset
  <1> QED BY Zenon, <1>3, FS_CardinalityType

\* A step after which no more messages are stored and no fewer threads awake.
LEMMA WakeQuiet ==
  ASSUME IsFiniteSet(Thread), WakeInv, InUse' \subseteq InUse, Awake \subseteq Awake',
         ring_event' \subseteq ring_event, \A r \in ring_event' : pc'[r] = "wait"
  PROVE WakeInv'
  <1>1. Cardinality(InUse') <= Cardinality(InUse) /\ Cardinality(Awake) <= Cardinality(Awake')
    BY Zenon, WakeFinite, FS_Subset
  <1>2. ring_event' # {} => Cardinality(InUse') <= Cardinality(Awake')
    BY <1>1, WakeFinite DEF WakeInv
  <1> QED BY Zenon, <1>2 DEF WakeInv

LEMMA WakeSender ==
  ASSUME IsFiniteSet(Thread), IInv, WakeInv, NEW s \in Sender, SStep(s) \/ \E m \in Msg : Send(s, m)
  PROVE WakeInv'
  <1> USE DEF Goto, ringVars
  <1>0. /\ s \in Thread /\ s \notin ring_event /\ ring_event \subseteq Thread
        /\ \A l : \A t \in Thread : [pc EXCEPT ![s] = l][t] = IF t = s THEN l ELSE pc[t]
    BY Zenon, RingAssumption DEF IInv, TypeOK, Thread
  <1>1. ASSUME pc[s] \in {"idle", "lock", "find", "copy"}, \A t \in Thread : t # s => pc'[t] = pc[t],
               ring_event' = ring_event, InUse' \subseteq InUse
        PROVE WakeInv'
    <2>1. Awake \subseteq Awake'
      BY Zenon, <1>1 DEF Awake
    <2>2. \A r \in ring_event' : pc'[r] = "wait"
      BY Zenon, <1>0, <1>1 DEF WakeInv
    <2> QED BY Zenon, <1>1, <2>1, <2>2, WakeQuiet
  <1>2. CASE \E m \in Msg : Send(s, m)
    <2>1. InUse' = InUse /\ ring_event' = ring_event /\ pc[s] = "idle" /\ pc' = [pc EXCEPT ![s] = "lock"]
      BY Zenon, <1>2 DEF Send, InUse
    <2> QED BY Zenon, <1>0, <1>1, <2>1
  <1>3. CASE SLock(s) \/ SFindFree(s) \/ SReject(s) \/ SCopy(s)
    <2>1. InUse' = InUse /\ ring_event' = ring_event
      BY Zenon, <1>3 DEF SLock, SFindFree, SReject, SCopy, InUse
    <2>2. PICK f \in {"lock", "find", "copy"}, l \in {"find", "copy", "idle", "meta"} :
             pc[s] = f /\ pc' = [pc EXCEPT ![s] = l]
      BY Zenon, <1>3 DEF SLock, SFindFree, SReject, SCopy
    <2> QED BY Zenon, <1>0, <1>1, <2>1, <2>2
  <1>4. CASE SEvict(s)
    <2>1. pc[s] = "find" /\ pc' = [pc EXCEPT ![s] = "copy"] /\ ring_event' = ring_event
      BY Zenon, <1>4 DEF SEvict
    <2>2. InUse' \subseteq InUse
      BY <1>4 DEF SEvict, InUse, IInv, TypeOK, SlotMeta
    <2> QED BY <1>0, <1>1, <2>1, <2>2
  <1>5. CASE SMeta(s)
    <2>1. pc[s] = "meta" /\ pc' = [pc EXCEPT ![s] = "signal"] /\ ring_event' = ring_event
      BY Zenon, <1>5 DEF SMeta
    <2>2. \A t \in Thread : pc'[t] = IF t = s THEN "signal" ELSE pc[t]
      BY Zenon, <2>1 DEF IInv, TypeOK
    <2>3. Awake' = Awake \cup {s} /\ s \notin Awake
      BY Zenon, <1>0, <2>1, <2>2 DEF Awake
    <2>4. InUse' = InUse \cup {idx[s]} /\ idx[s] \notin InUse
      <3>1. idx[s] \in Slot \ InUse /\ slot_meta \in [Slot -> SlotMeta]
        BY Zenon, <2>1 DEF IInv, Sending, TypeOK
      <3>2. slot_meta' = [slot_meta EXCEPT ![idx[s]] = MetaOf(msg[s])] /\ MetaOf(msg[s]).in_use
        BY Zenon, <1>5 DEF SMeta, MetaOf
      <3> QED BY Zenon, <3>1, <3>2 DEF InUse
    <2>5. Cardinality(InUse') = Cardinality(InUse) + 1 /\ Cardinality(Awake') = Cardinality(Awake) + 1
      BY Zenon, <2>3, <2>4, WakeFinite, FS_AddElement
    <2>6. ring_event' # {} => Cardinality(InUse') <= Cardinality(Awake')
      BY <2>1, <2>5, WakeFinite DEF WakeInv
    <2>7. \A r \in ring_event' : pc'[r] = "wait"
      BY Zenon, <1>0, <2>1, <2>2 DEF WakeInv
    <2> QED BY Zenon, <2>6, <2>7 DEF WakeInv
  <1>6. CASE SSignal(s)
    <2>1. pc[s] = "signal" /\ pc' = [pc EXCEPT ![s] = "idle"] /\ InUse' = InUse
      BY Zenon, <1>6 DEF SSignal, InUse
    <2>2. \A t \in Thread : pc'[t] = IF t = s THEN "idle" ELSE pc[t]
      BY Zenon, <1>0, <2>1
    <2>3. CASE ring_event' = {}
      BY Zenon, <2>3 DEF WakeInv
    <2>4. CASE ring_event' # {}
      <3>1. PICK r \in ring_event : ring_event' = ring_event \ {r}
        BY Zenon, <1>6, <2>4 DEF SSignal, SignalOne
      <3>2. r \in Thread /\ r # s /\ pc[r] = "wait" /\ r \notin Awake /\ s \in Awake
        BY Zenon, <1>0, <2>1, <3>1 DEF WakeInv, Awake
      <3>3. Awake' = (Awake \ {s}) \cup {r}
        BY SMTT(30), <1>0, <2>1, <2>2, <3>1, <3>2 DEF Awake
      <3>8. IsFiniteSet(Awake \ {s}) /\ Cardinality(Awake \ {s}) = Cardinality(Awake) - 1
        BY Zenon, <3>2, WakeFinite, FS_RemoveElement
      <3>4. Cardinality((Awake \ {s}) \cup {r}) = Cardinality(Awake \ {s}) + 1
        <4> DEFINE A == Awake \ {s}
        <4>1. IsFiniteSet(A) /\ r \notin A
          BY Zenon, <3>2, <3>8
        <4> HIDE DEF A
        <4>2. Cardinality(A \cup {r}) = IF r \in A THEN Cardinality(A) ELSE Cardinality(A) + 1
          BY <4>1, FS_AddElement, Zenon
        <4> QED BY <4>1, <4>2, Zenon DEF A
      <3>5. Cardinality(Awake') = Cardinality(Awake)
        BY <3>3, <3>4, <3>8, WakeFinite
      <3>6. Cardinality(InUse') <= Cardinality(Awake')
        BY Zenon, <2>1, <3>1, <3>5, WakeFinite DEF WakeInv
      <3>7. \A q \in ring_event' : pc'[q] = "wait"
        BY Zenon, <1>0, <2>2, <3>1 DEF WakeInv
      <3> QED BY Zenon, <3>6, <3>7 DEF WakeInv
    <2> QED BY Zenon, <2>3, <2>4
  <1> QED BY Zenon, <1>2, <1>3, <1>4, <1>5, <1>6 DEF SStep

LEMMA WakeReceiver ==
  ASSUME IsFiniteSet(Thread), Roomy, IInv, WakeInv, NEW r \in Receiver,
         RStep(r) \/ Receive(r) \/ RWaitFails(r)
  PROVE WakeInv'
  <1> USE DEF Goto, ringVars
  <1>0. /\ r \in Thread /\ ring_event \subseteq Thread
        /\ \A l : \A t \in Thread : [pc EXCEPT ![r] = l][t] = IF t = r THEN l ELSE pc[t]
    BY Zenon, RingAssumption DEF IInv, TypeOK, Thread
  <1>1. ASSUME \A t \in Thread : t # r => pc'[t] = pc[t], InUse' = InUse, ring_event' \subseteq ring_event,
               r \notin ring_event', r \in Awake => r \in Awake'
        PROVE WakeInv'
    <2>1. Awake \subseteq Awake'
      BY Zenon, <1>1 DEF Awake
    <2>2. \A q \in ring_event' : pc'[q] = "wait"
      BY Zenon, <1>0, <1>1 DEF WakeInv
    <2> QED BY Zenon, <1>1, <2>1, <2>2, WakeQuiet
  <1>2. CASE Receive(r) \/ RReturnError(r) \/ RLock(r)
    <2>1. /\ InUse' = InUse /\ ring_event' = ring_event /\ pc[r] \in {"idle", "fail", "lock"}
          /\ \E l \in {"lock", "idle", "check"} : pc' = [pc EXCEPT ![r] = l]
      BY Zenon, <1>2 DEF Receive, RReturnError, RLock, InUse
    <2>2. r \notin ring_event /\ r \notin Awake
      BY Zenon, <2>1 DEF WakeInv, Awake
    <2> QED BY Zenon, <1>0, <1>1, <2>1, <2>2
  <1>3. CASE RWoken(r) \/ RFind(r) \/ RRead(r)
    <2>1. /\ InUse' = InUse /\ ring_event' = ring_event /\ r \notin ring_event
          /\ \E l \in {"check", "read", "free"} : pc' = [pc EXCEPT ![r] = l]
      BY Zenon, <1>3 DEF RWoken, RFind, RRead, InUse, WakeInv
    <2>2. r \in Awake'
      BY Zenon, <1>0, <2>1 DEF Awake
    <2> QED BY <1>0, <1>1, <2>1, <2>2
  <1>4. CASE RWaitFails(r)
    <2>1. /\ InUse' = InUse /\ ring_event' = ring_event \ {r} /\ r \in ring_event
          /\ pc[r] = "wait" /\ pc' = [pc EXCEPT ![r] = "fail"]
      BY Zenon, <1>4 DEF RWaitFails, InUse
    <2>2. r \notin Awake
      BY Zenon, <2>1 DEF Awake
    <2> QED BY Zenon, <1>0, <1>1, <2>1, <2>2
  <1>5. CASE RWait(r)
    <2>1. /\ InUse' = {} /\ ring_event' = ring_event \cup {r} /\ pc' = [pc EXCEPT ![r] = "wait"]
      BY Zenon, <1>5 DEF RWait, InUse, has_in_use_slot
    <2>2. Cardinality(InUse') <= Cardinality(Awake')
      BY <2>1, WakeFinite, FS_EmptySet
    <2>3. \A q \in ring_event' : pc'[q] = "wait"
      BY <1>0, <2>1 DEF WakeInv
    <2> QED BY Zenon, <2>2, <2>3 DEF WakeInv
  <1>6. ~RTooBig(r)
    <2> SUFFICES ASSUME RTooBig(r) PROVE FALSE
      BY Zenon
    <2>1. PICK i \in InUse : slot_meta[i].size > BufSize[r]
      BY Zenon, FindHighest DEF RTooBig
    <2>2. slot_data[i] \in Msg /\ slot_meta[i] = MetaOf(slot_data[i])
      BY Zenon DEF IInv, SlotsDescribed
    <2>3. slot_meta[i].size = Size[slot_data[i]]
      BY <2>2 DEF MetaOf
    <2>4. Size[slot_data[i]] <= BufSize[r] /\ Size[slot_data[i]] \in Nat /\ BufSize[r] \in Nat
      BY Zenon, <2>2, RingAssumption DEF Roomy
    <2> QED BY <2>1, <2>3, <2>4
  <1>7. CASE RFree(r)
    <2>1. pc[r] = "free" /\ pc' = [pc EXCEPT ![r] = "idle"] /\ ring_event' = ring_event
      BY Zenon, <1>7 DEF RFree
    <2>2. Awake' = Awake \ {r} /\ r \in Awake /\ r \notin ring_event
      BY <1>0, <2>1 DEF Awake, WakeInv
    <2>3. InUse' = InUse \ {idx[r]} /\ idx[r] \in InUse
      <3>1. idx[r] \in InUse /\ slot_meta \in [Slot -> SlotMeta]
        BY Zenon, <2>1 DEF IInv, Receiving, TypeOK
      <3>2. slot_meta' = [slot_meta EXCEPT ![idx[r]].in_use = FALSE]
        BY Zenon, <1>7 DEF RFree
      <3>3. \A k \in Slot : slot_meta'[k].in_use <=> k # idx[r] /\ slot_meta[k].in_use
        BY Zenon, <3>1, <3>2 DEF SlotMeta, InUse
      <3> QED BY <3>1, <3>3, Zenon DEF InUse
    <2>4. Cardinality(InUse') = Cardinality(InUse) - 1 /\ Cardinality(Awake') = Cardinality(Awake) - 1
      BY Zenon, <2>2, <2>3, WakeFinite, FS_RemoveElement
    <2>5. ring_event' # {} => Cardinality(InUse') <= Cardinality(Awake')
      BY <2>1, <2>4, WakeFinite DEF WakeInv
    <2>6. \A q \in ring_event' : pc'[q] = "wait"
      BY <1>0, <2>1, <2>2 DEF WakeInv
    <2> QED BY Zenon, <2>5, <2>6 DEF WakeInv
  <1> QED BY Zenon, <1>2, <1>3, <1>4, <1>5, <1>6, <1>7 DEF RStep

\* With finitely many threads, nobody sleeps on a message that no thread will
\* look at: post() signals once per message, and receivers pass nothing on.
THEOREM RingNoLostWakeup == IsFiniteSet(Thread) => (Spec => []NoLostWakeup)
  <1> SUFFICES ASSUME IsFiniteSet(Thread) PROVE Spec => []NoLostWakeup
    BY Zenon
  <1>1. CASE ~Roomy
    <2>1. NoLostWakeup
      BY Zenon, <1>1 DEF Roomy, NoLostWakeup
    <2> QED BY <2>1, PTL
  <1>2. CASE Roomy
    <2>1. Init => WakeInv
      BY Zenon DEF Init, WakeInv
    <2>2. UNCHANGED vars /\ WakeInv => WakeInv'
      <3> SUFFICES ASSUME UNCHANGED vars, WakeInv PROVE WakeInv'
        BY Zenon
      <3>1. InUse' = InUse /\ Awake' = Awake /\ ring_event' = ring_event /\ pc' = pc
        BY Zenon DEF vars, ringVars, threadVars, InUse, Awake
      <3> QED BY Zenon, <3>1 DEF WakeInv
    <2>3. IInv /\ WakeInv /\ [Next]_vars => WakeInv'
      BY Zenon, <1>2, <2>2, WakeSender, WakeReceiver DEF Next
    <2>4. IInv /\ WakeInv => NoLostWakeup
      <3> SUFFICES ASSUME IInv, WakeInv, ring_event # {}, InUse # {}
                   PROVE \/ \E r \in Receiver : pc[r] \in {"check", "read", "free"}
                         \/ \E r \in Receiver : pc[r] = "wait" /\ r \notin ring_event
                         \/ \E s \in Sender : pc[s] = "signal"
        BY Zenon DEF NoLostWakeup
      <3>1. Cardinality(InUse) # 0
        BY Zenon, WakeFinite, FS_EmptySet
      <3>2. Cardinality(Awake) # 0
        BY <3>1, WakeFinite DEF WakeInv
      <3>3. PICK t \in Awake : TRUE
        BY Zenon, <3>2, FS_EmptySet
      <3> QED BY Zenon, <3>3 DEF Awake, Thread, IInv, Sending, Receiving
    <2> QED BY <2>1, <2>3, <2>4, RingInductive, PTL DEF Spec
  <1> QED BY Zenon, <1>1, <1>2

-----------------------------------------------------------------------------
(* The ring implements PriorityMailbox, provided no message has the        *)
(* priority INT8_MAX, which evict_lowest() never finds.                    *)

Evictable == \A m \in Msg : Priority(m) # INT8_MAX

\* The abstract specification counts as this one does.
LEMMA SameCardinality == \A S : Mailbox!Cardinality(S) = Cardinality(S)
  BY Zenon DEF Mailbox!Cardinality, Cardinality

\* There are as many messages in slots as slots in use.
LEMMA SlotCount ==
  ASSUME IInv
  PROVE LET D == {slot_data[i] : i \in InUse} IN
        /\ IsFiniteSet(D) /\ Cardinality(D) = Cardinality(InUse)
        /\ IsFiniteSet(InUse) /\ InUse \subseteq Slot
        /\ IsFiniteSet(Slot) /\ Cardinality(Slot) = Capacity
  <1> DEFINE D == {slot_data[i] : i \in InUse}
             f == [i \in InUse |-> slot_data[i]]
  <1>1. IsFiniteSet(Slot) /\ Cardinality(Slot) = Capacity
    BY FS_Interval, RingAssumption DEF Slot
  <1>2. InUse \subseteq Slot /\ IsFiniteSet(InUse)
    BY Zenon, <1>1, FS_Subset DEF InUse
  <1>3. f \in [InUse -> D] /\ \A i, j \in InUse : f[i] = f[j] => i = j
    BY Zenon DEF IInv, Conservation
  <1>4. \A d \in D : \E i \in InUse : f[i] = d
    BY Zenon
  <1>5. ExistsBijection(InUse, D)
    BY Zenon, <1>3, <1>4 DEF ExistsBijection, Bijection, Injection, IsInjective, Surjection
  <1> HIDE DEF D, f
  <1>6. IsFiniteSet(D) /\ Cardinality(D) = Cardinality(InUse)
    BY Zenon, <1>2, <1>5, FS_Bijection
  <1> QED BY Zenon, <1>1, <1>2, <1>6 DEF D

\* post() that stores a message is Put or Displace.
LEMMA StoreImplements ==
  ASSUME IInv, NEW s \in Sender, SMeta(s)
  PROVE Mailbox!Next
  <1> USE RingAssumption DEF IInv
  <1> DEFINE D == {slot_data[i] : i \in InUse}
             m == msg[s]
             v == victim[s]
  <1>1. /\ s \in Thread /\ ring_mutex = s /\ m \in Msg
        /\ m \notin posted \cup rejected
        /\ idx[s] \in Slot \ InUse /\ slot_data[idx[s]] = m
        /\ \A u \in Sender : u # s => victim[u] = NoMsg
    <2>1. s \in Thread /\ pc[s] = "meta"
      BY Zenon DEF SMeta, Goto, Thread
    <2>2. ring_mutex = s
      BY Zenon, <2>1 DEF Exclusive, Critical
    <2>3. /\ m \in Msg /\ m \notin posted \cup rejected
          /\ idx[s] \in Slot \ InUse /\ slot_data[idx[s]] = m
      BY Zenon, <2>1 DEF Sending
    <2> QED BY Zenon, <2>1, <2>2, <2>3, OthersOutside
  <1>2. InUse' = InUse \cup {idx[s]}
    <2>1. slot_meta' = [slot_meta EXCEPT ![idx[s]] = MetaOf(m)]
      BY Zenon DEF SMeta
    <2>2. slot_meta = [i \in Slot |-> slot_meta[i]] /\ idx[s] \in Slot
      BY <1>1 DEF TypeOK
    <2>3. MetaOf(m).in_use
      BY ONLY DEF MetaOf
    <2>4. \A i \in Slot : slot_meta'[i] = IF i = idx[s] THEN MetaOf(m) ELSE slot_meta[i]
      BY ONLY <2>1, <2>2
    <2> QED BY ONLY <2>2, <2>3, <2>4 DEF InUse
  <1>3. \A u \in Sender : victim'[u] = NoMsg
    BY <1>1 DEF SMeta, TypeOK
  <1>4. Held = D \cup ({v} \ {NoMsg}) /\ Held' = D \cup {m}
    <2>1. Held = D \cup ({v} \ {NoMsg})
      BY <1>1 DEF Held
    <2>2. {victim'[u] : u \in Sender} \ {NoMsg} = {} /\ slot_data' = slot_data
      <3>1. {victim'[u] : u \in Sender} \ {NoMsg} = {}
        BY ONLY <1>3
      <3>2. slot_data' = slot_data
        BY Zenon DEF SMeta
      <3> QED BY ONLY <3>1, <3>2
    <2>3. Held' = {slot_data[i] : i \in InUse'}
      BY <2>2 DEF Held
    <2>4. Held' = D \cup {m}
      BY <1>1, <1>2, <2>3
    <2> QED BY Zenon, <2>1, <2>4
  <1>5. m \notin Held \cup rejected \cup evicted \cup delivered
    BY Zenon, <1>1 DEF Conservation
  <1>6. UNCHANGED <<rejected, delivered>> /\ evicted' = evicted \cup ({v} \ {NoMsg})
    BY Zenon DEF SMeta
  <1>7. /\ IsFiniteSet(D) /\ Cardinality(D) = Cardinality(InUse) /\ IsFiniteSet(InUse)
        /\ InUse \subseteq Slot /\ IsFiniteSet(Slot) /\ Cardinality(Slot) = Capacity
    BY Zenon, SlotCount
  <1> HIDE DEF D, m
  <1>8. Cardinality(D) < Capacity
    <2>1. /\ Cardinality(InUse) <= Cardinality(Slot)
          /\ Cardinality(Slot) = Cardinality(InUse) => InUse = Slot
      BY Zenon, <1>7, FS_Subset
    <2>2. Cardinality(InUse) \in Nat /\ InUse # Slot
      BY <1>1, <1>7, FS_CardinalityType
    <2> QED BY <1>7, <2>1, <2>2
  <1>9. CASE v = NoMsg
    <2>1. Held = D /\ Held' = Held \cup {m} /\ evicted' = evicted
      BY <1>4, <1>6, <1>9
    <2>2. Mailbox!Put(m)
      BY Zenon, <1>5, <1>6, <1>8, <2>1, SameCardinality DEF Mailbox!Put, Mailbox!Fresh
    <2> QED BY Zenon, <1>1, <2>2 DEF Mailbox!Next
  <1>10. CASE v # NoMsg
    <2>1. /\ InUse = Slot \ {idx[s]} /\ Priority(v) <= Priority(m)
          /\ \A i \in InUse : slot_data[i] # v /\ Priority(v) <= Priority(slot_data[i])
      BY Zenon, <1>10 DEF Displacing, m
    <2>2. v \in Msg /\ v \notin D /\ \A w \in D : Priority(v) <= Priority(w)
      BY <1>10, <2>1 DEF D, TypeOK
    <2>3. Priority(v) \in Int
      BY ONLY <2>2, PriorityInt
    <2>4. \A w \in D : w \in Msg
      BY DEF SlotsDescribed, D
    <2>5. Cardinality(D \cup {v}) = Capacity
      <3>1. Cardinality(Slot \ {idx[s]}) = Cardinality(Slot) - 1
        BY Zenon, <1>1, <1>7, FS_RemoveElement
      <3>2. Cardinality(D \cup {v}) = Cardinality(D) + 1
        BY Zenon, <1>7, <2>2, FS_AddElement
      <3>3. Cardinality(D) = Capacity - 1
        BY Zenon, <1>7, <2>1, <3>1
      <3> QED BY <3>2, <3>3
    <2>6. /\ Held = D \cup {v} /\ Held' = (Held \ {v}) \cup {m}
          /\ evicted' = evicted \cup {v}
      BY <1>4, <1>5, <1>6, <1>10, <2>2
    <2>7. Mailbox!Fresh(m) /\ Mailbox!Full
      BY ONLY <1>1, <1>5, <2>5, <2>6, SameCardinality DEF Mailbox!Fresh, Mailbox!Full
    <2>8. \A w \in Held : Priority(v) <= Priority(w)
      BY ONLY <2>2, <2>3, <2>6
    <2>9. \A w \in Held : w \in Msg
      BY ONLY <2>2, <2>4, <2>6
    <2>10. Mailbox!Displace(m, v)
      BY ONLY <1>1, <1>6, <2>1, <2>2, <2>6, <2>7, <2>8, <2>9 DEF Mailbox!Displace
    <2> QED BY ONLY <1>1, <2>2, <2>10 DEF Mailbox!Next
  <1> QED BY Zenon, <1>9, <1>10

\* post() that finds no slot is Refuse.
LEMMA RejectImplements ==
  ASSUME IInv, Evictable, NEW s \in Sender, SReject(s)
  PROVE Mailbox!Next
  <1> USE RingAssumption DEF IInv
  <1> DEFINE D == {slot_data[i] : i \in InUse}
             m == msg[s]
  <1>1. /\ s \in Thread /\ ring_mutex = s /\ m \in Msg /\ m \notin posted \cup rejected
        /\ \A u \in Sender : victim[u] = NoMsg
    <2>1. s \in Thread /\ pc[s] = "find"
      BY Zenon DEF SReject, Goto, Thread
    <2>2. ring_mutex = s
      BY Zenon, <2>1 DEF Exclusive, Critical
    <2>3. m \in Msg /\ m \notin posted \cup rejected
      BY Zenon, <2>1 DEF Sending
    <2>4. \A u \in Sender : victim[u] = NoMsg
      BY Zenon, <2>1, <2>2, OthersOutside DEF Displacing
    <2> QED BY Zenon, <2>1, <2>2, <2>3, <2>4
  <1>2. InUse = Slot
    BY Zenon, FindFree, MinusOne DEF SReject
  <1>3. \A i \in InUse : slot_data[i] \in Msg /\ slot_meta[i].priority = Priority(slot_data[i])
    BY Zenon, SlotPriorities
  <1>4. \A k \in Msg : Priority(k) \in Int
    BY ONLY PriorityInt
  <1>5. \A i \in InUse : Priority(m) < Priority(slot_data[i])
    <2>1. InUse # {}
      <3>1. 0 \in Slot
        BY DEF Slot
      <3> QED BY Zenon, <1>2, <3>1
    <2>2. lowest_priority_slot # -1
      BY Zenon, <1>3, <2>1, FindLowestExists DEF Evictable
    <2>3. /\ lowest_priority_slot \in InUse
          /\ \A j \in InUse : slot_meta[j].priority >= slot_meta[lowest_priority_slot].priority
      BY Zenon, <2>2, FindLowest
    <2>4. ~ (Priority(m) >= slot_meta[lowest_priority_slot].priority)
      BY Zenon, <2>2 DEF SReject, evict_lowest
    <2> DEFINE low == slot_meta[lowest_priority_slot].priority
    <2>5. low \in Int /\ Priority(m) \in Int
      BY ONLY <1>1, <1>3, <1>4, <2>3
    <2>6. \A i \in InUse : /\ Priority(slot_data[i]) \in Int
                          /\ Priority(slot_data[i]) >= low
      BY ONLY <1>3, <1>4, <2>3
    <2>7. ~ (Priority(m) >= low)
      BY ONLY <2>4
    <2> HIDE DEF low, m
    <2> QED BY ONLY <2>5, <2>6, <2>7
  <1>6. Held = D /\ Held' = Held
    <2>1. UNCHANGED <<slot_meta, slot_data, victim>>
      BY Zenon DEF SReject
    <2>2. Held' = Held
      BY ONLY <2>1 DEF Held, InUse
    <2>3. {victim[u] : u \in Sender} \ {NoMsg} = {}
      BY <1>1
    <2> QED BY ONLY <2>2, <2>3 DEF Held
  <1>7. Cardinality(D) = Capacity
    BY Zenon, <1>2, SlotCount
  <1>8. \A w \in D : Priority(m) < Priority(w) /\ w \in Msg
    BY <1>3, <1>5, ZenonT(60)
  <1>9. m \notin Held \cup rejected \cup evicted \cup delivered
    BY Zenon, <1>1 DEF Conservation
  <1>10. rejected' = rejected \cup {m} /\ UNCHANGED <<evicted, delivered>>
    BY Zenon DEF SReject
  <1> HIDE DEF D, m
  <1>11. Mailbox!Refuse(m)
    BY Zenon, <1>1, <1>6, <1>7, <1>8, <1>9, <1>10, SameCardinality
       DEF Mailbox!Refuse, Mailbox!Fresh, Mailbox!Full
  <1> QED BY Zenon, <1>1, <1>11 DEF Mailbox!Next

\* receive_impl() that returns a message is Take.
LEMMA TakeImplements ==
  ASSUME IInv, NEW r \in Receiver, RFree(r)
  PROVE Mailbox!Next
  <1> USE RingAssumption DEF IInv
  <1>1. /\ r \in Thread /\ ring_mutex = r
        /\ idx[r] \in InUse /\ idx[r] \in Slot /\ msg[r] = slot_data[idx[r]]
        /\ \A j \in InUse : slot_meta[j].priority <= slot_meta[idx[r]].priority
        /\ \A u \in Sender : victim[u] = NoMsg
    BY OthersOutside DEF RFree, Goto, Exclusive, Critical, Receiving, InUse, Thread
  <1>2. InUse' = InUse \ {idx[r]}
    BY <1>1 DEF RFree, InUse, TypeOK, SlotMeta
  <1>3. \A i \in InUse : slot_data[i] \in Msg /\ slot_meta[i].priority = Priority(slot_data[i])
    BY Zenon, SlotPriorities
  <1>4. Held = {slot_data[j] : j \in InUse} /\ Held' = {slot_data[j] : j \in InUse'}
    BY <1>1 DEF RFree, Held
  <1>5. Held' = Held \ {msg[r]} /\ msg[r] \in Held /\ msg[r] \in Msg
    <2>1. msg[r] \in Held /\ msg[r] \in Msg
      BY ONLY <1>1, <1>3, <1>4
    <2>2. \A j \in InUse : slot_data[j] = msg[r] => j = idx[r]
      BY Zenon, <1>1 DEF Conservation
    <2>3. {slot_data[j] : j \in InUse \ {idx[r]}} = {slot_data[j] : j \in InUse} \ {msg[r]}
      BY ONLY <1>1, <2>2
    <2> QED BY ONLY <1>2, <1>4, <2>1, <2>3
  <1>6. \A w \in Held : w \in Msg /\ Priority(w) <= Priority(msg[r])
    <2>1. slot_meta[idx[r]].priority = Priority(msg[r])
      BY ONLY <1>1, <1>3
    <2>2. \A j \in InUse : slot_data[j] \in Msg /\ Priority(slot_data[j]) <= Priority(msg[r])
      BY ONLY <1>1, <1>3, <2>1
    <2> QED BY ONLY <1>4, <2>2
  <1>7. delivered' = delivered \cup {msg[r]} /\ UNCHANGED <<rejected, evicted>>
    BY Zenon DEF RFree
  <1>8. Mailbox!Take(msg[r])
    BY Zenon, <1>5, <1>6, <1>7 DEF Mailbox!Take
  <1> QED BY Zenon, <1>5, <1>8 DEF Mailbox!Next

\* All other steps are invisible to the users of the mailbox.
LEMMA InvisibleSteps ==
  ASSUME IInv, [Next]_vars,
         \A s \in Sender : ~SMeta(s) /\ ~SReject(s),
         \A r \in Receiver : ~RFree(r)
  PROVE UNCHANGED Mailbox!vars
  <1> USE DEF Mailbox!vars, ringVars, threadVars, countVars, histVars
  <1>1. ASSUME NEW s \in Sender,
               (\E m \in Msg : Send(s, m)) \/ SLock(s) \/ SFindFree(s) \/ SSignal(s)
        PROVE UNCHANGED <<Held, rejected, evicted, delivered>>
    BY Zenon, <1>1, SamePlaces DEF Send, SLock, SFindFree, SSignal
  <1>2. ASSUME NEW s \in Sender, SEvict(s) \/ SCopy(s)
        PROVE UNCHANGED <<Held, rejected, evicted, delivered>>
    BY Zenon, <1>2, EvictStep, CopyStep DEF SEvict, SCopy
  <1>3. ASSUME NEW r \in Receiver,
               \/ Receive(r) \/ RLock(r) \/ RWait(r) \/ RWoken(r) \/ RWaitFails(r)
               \/ RReturnError(r) \/ RFind(r) \/ RTooBig(r) \/ RRead(r)
        PROVE UNCHANGED <<Held, rejected, evicted, delivered>>
    BY Zenon, <1>3, SamePlaces DEF Receive, RLock, RWait, RWoken, RWaitFails, RReturnError, RFind,
       RTooBig, RRead
  <1>4. CASE UNCHANGED vars
    BY Zenon, <1>4, SamePlaces DEF vars
  <1> QED BY Zenon, <1>1, <1>2, <1>3, <1>4 DEF Next, SStep, RStep

\* The ring is a bounded priority buffer: highest priority out first, only a
\* lowest message displaced, only an outranked message refused.
THEOREM RingImplements == Evictable => (Spec => ImplementsPriorityMailbox)
  <1> SUFFICES ASSUME Evictable PROVE Spec => Mailbox!Spec
    BY Zenon DEF ImplementsPriorityMailbox
  <1>1. Init => Mailbox!Init
    <2> SUFFICES ASSUME Init PROVE Mailbox!Init
      BY Zenon
    <2>1. InUse = {} /\ \A s \in Sender : victim[s] = NoMsg
      BY Zenon, RingAssumption DEF Init, InUse
    <2>2. Held = {}
      BY Zenon, <2>1 DEF Held
    <2> QED BY Zenon, <2>2 DEF Mailbox!Init, Init
  <1>2. IInv /\ [Next]_vars => [Mailbox!Next]_(Mailbox!vars)
    BY Zenon, StoreImplements, RejectImplements, TakeImplements, InvisibleSteps
  <1> QED BY RingInductive, <1>1, <1>2, PTL DEF Spec, Mailbox!Spec
=============================================================================
