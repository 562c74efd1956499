------------------------------ MODULE EvlRing ------------------------------
(***************************************************************************)
(* The ring of one EvlMailbox (include/corerat/ipc/evl/evl_backend.hpp):   *)
(* senders post() into its slots, receivers take the highest-priority      *)
(* slot in receive_impl(), both under ring_mutex_, and ring_event_ wakes   *)
(* receivers that found no slot in use.  Every step between two accesses   *)
(* to shared memory is an action of its own, so that what the mutex        *)
(* protects is a result of the model and not an assumption of it.          *)
(*                                                                         *)
(* A sender is a sending mailbox with one thread; its priority is the      *)
(* configured send_priority (uint8) that send() casts to int8.             *)
(***************************************************************************)
EXTENDS Integers, FiniteSets, FiniteSetsExt

CONSTANTS
  Sender,        \* sending mailboxes
  Receiver,      \* threads that receive from the mailbox
  Msg,           \* messages; each is sent once, so that its fate can be told
  Origin,        \* the sender of each message
  SendPriority,  \* MailboxConfig::send_priority of each sender, a uint8
  Size,          \* serialized size of each message
  BufSize,       \* size of the buffer each receiver passes
  MaxMsgSize,    \* config_.max_msg_size: largest message, and slot size
  Capacity,      \* number of slots (kSlots = 10 in initialize())
  NoMsg, NoThread

INT8_MIN == -128
INT8_MAX == 127

Thread == Sender \cup Receiver
Slot == 0 .. (Capacity - 1)

ASSUME RingAssumption ==
  /\ Capacity \in Nat \ {0}
  /\ MaxMsgSize \in Nat
  /\ Origin \in [Msg -> Sender]
  /\ SendPriority \in [Sender -> 0 .. 255]
  /\ Size \in [Msg -> Nat]
  /\ BufSize \in [Receiver -> Nat]
  /\ Sender \cap Receiver = {}
  /\ NoThread \notin Thread
  /\ NoMsg \notin Msg

\* static_cast<int8_t>(config_.priority)
ToInt8(u) == IF u > INT8_MAX THEN u - 256 ELSE u

Priority(m) == ToInt8(SendPriority[Origin[m]])

VARIABLES
  slot_meta,    \* SlotMeta of each slot
  slot_data,    \* payload of each slot
  ring_mutex,   \* the thread that owns ring_mutex_, or NoThread
  ring_event,   \* receivers blocked on ring_event_
  pc,           \* where each thread stands
  idx,          \* the local idx of post() and receive_impl()
  msg,          \* sender: argument of post(); receiver: bytes in its buffer
  victim,       \* message in the slot that evict_lowest() freed for a sender
  messages_sent, messages_received,
  posted,       \* messages whose post() stored them
  rejected,     \* messages whose post() returned false
  evicted,      \* messages a later post() displaced
  delivered     \* messages returned by receive_impl()

ringVars == <<slot_meta, slot_data, ring_mutex, ring_event>>
threadVars == <<pc, idx, msg, victim>>
countVars == <<messages_sent, messages_received>>
histVars == <<posted, rejected, evicted, delivered>>
vars == <<ringVars, threadVars, countVars, histVars>>

SlotMeta ==
  [priority: INT8_MIN .. INT8_MAX, in_use: BOOLEAN, src: Sender \cup {NoThread},
   size: Nat]

\* SlotMeta{ priority, true, src, size } as post() writes it for m
MetaOf(m) ==
  [priority |-> Priority(m), in_use |-> TRUE, src |-> Origin[m], size |-> Size[m]]

InUse == {i \in Slot : slot_meta[i].in_use}

-----------------------------------------------------------------------------
(* Slot helpers.  A loop that keeps the first index of the best value it   *)
(* has met returns the least index of that value; -1 is "none".            *)

FirstOf(S) == IF S = {} THEN -1 ELSE Min(S)

\* Mutant: the loop runs to i <= capacity_.
Mut_find_free_slot == FirstOf((0 .. Capacity) \ InUse)

find_free_slot == FirstOf(Slot \ InUse)

has_in_use_slot == InUse # {}

\* The scan starts from prio = INT8_MIN and takes strictly greater values.
find_highest_priority_slot ==
  FirstOf({i \in InUse :
             /\ slot_meta[i].priority > INT8_MIN
             /\ \A j \in InUse : slot_meta[j].priority <= slot_meta[i].priority})

\* The scan starts from prio = INT8_MAX and takes strictly lesser values.
lowest_priority_slot ==
  FirstOf({i \in InUse :
             /\ slot_meta[i].priority < INT8_MAX
             /\ \A j \in InUse : slot_meta[j].priority >= slot_meta[i].priority})

\* Mutant: evicts without comparing priorities.
Mut_evict_lowest(prio_new) == lowest_priority_slot

\* evict_lowest(): the slot it frees, or -1
evict_lowest(prio_new) ==
  IF /\ lowest_priority_slot # -1
     /\ prio_new >= slot_meta[lowest_priority_slot].priority
  THEN lowest_priority_slot
  ELSE -1

-----------------------------------------------------------------------------
Init ==
  /\ slot_meta = [i \in Slot |-> [priority |-> 0, in_use |-> FALSE,
                                  src |-> NoThread, size |-> 0]]
  /\ slot_data = [i \in Slot |-> NoMsg]
  /\ ring_mutex = NoThread
  /\ ring_event = {}
  /\ pc = [t \in Thread |-> "idle"]
  /\ idx = [t \in Thread |-> -1]
  /\ msg = [t \in Thread |-> NoMsg]
  /\ victim = [s \in Sender |-> NoMsg]
  /\ messages_sent = [s \in Sender |-> 0]
  /\ messages_received = 0
  /\ posted = {} /\ rejected = {} /\ evicted = {} /\ delivered = {}

Goto(t, from, to) == pc[t] = from /\ pc' = [pc EXCEPT ![t] = to]

\* evl_lock_mutex: returns once the mutex is free
Acquire(t) == ring_mutex = NoThread /\ ring_mutex' = t

-----------------------------------------------------------------------------
(* Senders: send() -> send_raw() -> post()                                 *)

InFlight == {msg[s] : s \in {t \in Sender : pc[t] # "idle"}}

\* send_raw() up to post(): an empty or too large message is refused here.
Send(s, m) ==
  /\ Origin[m] = s
  /\ m \notin posted \cup rejected \cup InFlight
  /\ Size[m] \in 1 .. MaxMsgSize
  /\ Goto(s, "idle", "lock")
  /\ msg' = [msg EXCEPT ![s] = m]
  /\ UNCHANGED <<ringVars, idx, victim, countVars, histVars>>

\* Mutant: post() does not take ring_mutex_.
Mut_SLock(s) ==
  /\ Goto(s, "lock", "find")
  /\ UNCHANGED <<ringVars, idx, msg, victim, countVars, histVars>>

SLock(s) ==
  /\ Goto(s, "lock", "find")
  /\ Acquire(s)
  /\ UNCHANGED <<slot_meta, slot_data, ring_event, idx, msg, victim, countVars, histVars>>

SFindFree(s) ==
  /\ Goto(s, "find", "copy")
  /\ find_free_slot # -1
  /\ idx' = [idx EXCEPT ![s] = find_free_slot]
  /\ UNCHANGED <<ringVars, msg, victim, countVars, histVars>>

SEvict(s) ==
  LET i == evict_lowest(Priority(msg[s])) IN
  /\ Goto(s, "find", "copy")
  /\ find_free_slot = -1
  /\ i # -1
  /\ idx' = [idx EXCEPT ![s] = i]
  /\ slot_meta' = [slot_meta EXCEPT ![i].in_use = FALSE]
  /\ victim' = [victim EXCEPT ![s] = slot_data[i]]
  /\ UNCHANGED <<slot_data, ring_mutex, ring_event, msg, countVars, histVars>>

\* No slot: unlock, post() returns false and send_raw() ERROR_SEND.
SReject(s) ==
  /\ Goto(s, "find", "idle")
  /\ find_free_slot = -1
  /\ evict_lowest(Priority(msg[s])) = -1
  /\ ring_mutex' = NoThread
  /\ rejected' = rejected \cup {msg[s]}
  /\ UNCHANGED <<slot_meta, slot_data, ring_event, idx, msg, victim, countVars,
                 posted, evicted, delivered>>

\* std::memcpy(slot_ptr(idx), data, size)
SCopy(s) ==
  /\ Goto(s, "copy", "meta")
  /\ slot_data' = [slot_data EXCEPT ![idx[s]] = msg[s]]
  /\ UNCHANGED <<slot_meta, ring_mutex, ring_event, idx, msg, victim, countVars, histVars>>

SMeta(s) ==
  /\ Goto(s, "meta", "signal")
  /\ slot_meta' = [slot_meta EXCEPT ![idx[s]] = MetaOf(msg[s])]
  /\ posted' = posted \cup {msg[s]}
  /\ evicted' = evicted \cup ({victim[s]} \ {NoMsg})
  /\ victim' = [victim EXCEPT ![s] = NoMsg]
  /\ UNCHANGED <<slot_data, ring_mutex, ring_event, idx, msg, countVars,
                 rejected, delivered>>

\* Mutant: post() does not signal.
Mut_SignalOne == UNCHANGED ring_event

\* evl_signal_event wakes one waiter, if there is one.
SignalOne ==
  \/ ring_event = {} /\ UNCHANGED ring_event
  \/ \E r \in ring_event : ring_event' = ring_event \ {r}

\* evl_signal_event, evl_unlock_mutex, return to send_raw() and count.
SSignal(s) ==
  /\ Goto(s, "signal", "idle")
  /\ SignalOne
  /\ ring_mutex' = NoThread
  /\ messages_sent' = [messages_sent EXCEPT ![s] = @ + 1]
  /\ UNCHANGED <<slot_meta, slot_data, idx, msg, victim, messages_received, histVars>>

-----------------------------------------------------------------------------
(* Receivers: receive_impl(), ring part                                    *)

Receive(r) ==
  /\ Goto(r, "idle", "lock")
  /\ UNCHANGED <<ringVars, idx, msg, victim, countVars, histVars>>

RLock(r) ==
  /\ Goto(r, "lock", "check")
  /\ Acquire(r)
  /\ UNCHANGED <<slot_meta, slot_data, ring_event, idx, msg, victim, countVars, histVars>>

\* evl_(timed)wait_event: release the mutex and block, in one step.
RWait(r) ==
  /\ Goto(r, "check", "wait")
  /\ ~has_in_use_slot
  /\ ring_mutex' = NoThread
  /\ ring_event' = ring_event \cup {r}
  /\ UNCHANGED <<slot_meta, slot_data, idx, msg, victim, countVars, histVars>>

\* The wait of a signalled receiver returns once it has the mutex again, and
\* the loop re-evaluates has_in_use_slot().
RWoken(r) ==
  /\ r \notin ring_event
  /\ Goto(r, "wait", "check")
  /\ Acquire(r)
  /\ UNCHANGED <<slot_meta, slot_data, ring_event, idx, msg, victim, countVars, histVars>>

\* The wait ends with -ETIMEDOUT or another error before any signal.
RWaitFails(r) ==
  /\ r \in ring_event
  /\ Goto(r, "wait", "fail")
  /\ ring_event' = ring_event \ {r}
  /\ UNCHANGED <<slot_meta, slot_data, ring_mutex, idx, msg, victim, countVars, histVars>>

\* ... and returns with the mutex, which the caller unlocks at once; the ring
\* is not looked at again.
RReturnError(r) ==
  /\ Goto(r, "fail", "idle")
  /\ ring_mutex = NoThread
  /\ UNCHANGED <<ringVars, idx, msg, victim, countVars, histVars>>

\* idx = -1 has no successor: slot_meta_at(-1) is undefined behaviour.
RFind(r) ==
  LET i == find_highest_priority_slot IN
  /\ Goto(r, "check", "read")
  /\ has_in_use_slot
  /\ i # -1 => slot_meta[i].size <= BufSize[r]
  /\ idx' = [idx EXCEPT ![r] = i]
  /\ UNCHANGED <<ringVars, msg, victim, countVars, histVars>>

\* Mutant: -EMSGSIZE frees the slot.
Mut_RTooBig(r) ==
  LET i == find_highest_priority_slot IN
  /\ Goto(r, "check", "idle")
  /\ has_in_use_slot
  /\ i # -1 /\ slot_meta[i].size > BufSize[r]
  /\ idx' = [idx EXCEPT ![r] = i]
  /\ slot_meta' = [slot_meta EXCEPT ![i].in_use = FALSE]
  /\ ring_mutex' = NoThread
  /\ UNCHANGED <<slot_data, ring_event, msg, victim, countVars, histVars>>

\* -EMSGSIZE: unlock and return, the slot stays in use.
RTooBig(r) ==
  LET i == find_highest_priority_slot IN
  /\ Goto(r, "check", "idle")
  /\ has_in_use_slot
  /\ i # -1 /\ slot_meta[i].size > BufSize[r]
  /\ idx' = [idx EXCEPT ![r] = i]
  /\ ring_mutex' = NoThread
  /\ UNCHANGED <<slot_meta, slot_data, ring_event, msg, victim, countVars, histVars>>

\* std::memcpy(buffer.data(), slot_ptr(idx), sz)
RRead(r) ==
  /\ idx[r] # -1
  /\ Goto(r, "read", "free")
  /\ msg' = [msg EXCEPT ![r] = slot_data[idx[r]]]
  /\ UNCHANGED <<ringVars, idx, victim, countVars, histVars>>

\* Mutant: the slot is not marked free.
Mut_RFree(r) ==
  /\ Goto(r, "free", "idle")
  /\ ring_mutex' = NoThread
  /\ messages_received' = messages_received + 1
  /\ delivered' = delivered \cup {msg[r]}
  /\ UNCHANGED <<slot_meta, slot_data, ring_event, idx, msg, victim, messages_sent,
                 posted, rejected, evicted>>

\* in_use = false, unlock, count, return sz
RFree(r) ==
  /\ Goto(r, "free", "idle")
  /\ slot_meta' = [slot_meta EXCEPT ![idx[r]].in_use = FALSE]
  /\ ring_mutex' = NoThread
  /\ messages_received' = messages_received + 1
  /\ delivered' = delivered \cup {msg[r]}
  /\ UNCHANGED <<slot_data, ring_event, idx, msg, victim, messages_sent,
                 posted, rejected, evicted>>

-----------------------------------------------------------------------------
SStep(s) ==
  \/ SLock(s) \/ SFindFree(s) \/ SEvict(s) \/ SReject(s)
  \/ SCopy(s) \/ SMeta(s) \/ SSignal(s)

RStep(r) ==
  \/ RLock(r) \/ RWait(r) \/ RWoken(r) \/ RReturnError(r)
  \/ RFind(r) \/ RTooBig(r) \/ RRead(r) \/ RFree(r)

Next ==
  \/ \E s \in Sender : SStep(s) \/ \E m \in Msg : Send(s, m)
  \/ \E r \in Receiver : RStep(r) \/ Receive(r) \/ RWaitFails(r)

Spec == Init /\ [][Next]_vars

(* A thread inside send() or receive_impl() goes on as soon as it can, and *)
(* receivers call receive again (the loops of the ping_pong nodes).  No    *)
(* fairness for Send (the application) or for failing waits.               *)
LiveSpec ==
  /\ Spec
  /\ \A s \in Sender : WF_vars(SStep(s))
  /\ \A r \in Receiver : WF_vars(RStep(r)) /\ WF_vars(Receive(r))
-----------------------------------------------------------------------------
(* Properties                                                              *)

\* The types of the ring, the EVL objects and the threads' locals; no thread
\* indexes a slot that does not exist.
TypeOK ==
  /\ slot_meta \in [Slot -> SlotMeta]
  /\ slot_data \in [Slot -> Msg \cup {NoMsg}]
  /\ ring_mutex \in Thread \cup {NoThread}
  /\ ring_event \subseteq Receiver
  /\ pc \in [Thread -> {"idle", "lock", "find", "copy", "meta", "signal",
                        "check", "wait", "fail", "read", "free"}]
  /\ idx \in [Thread -> Slot \cup {-1}]
  /\ msg \in [Thread -> Msg \cup {NoMsg}]
  /\ victim \in [Sender -> Msg \cup {NoMsg}]
  /\ messages_sent \in [Sender -> Nat]
  /\ messages_received \in Nat
  /\ posted \subseteq Msg /\ rejected \subseteq Msg
  /\ evicted \subseteq Msg /\ delivered \subseteq Msg

\* Messages in the ring, those of a slot that is being reused included.
Held == {slot_data[i] : i \in InUse} \cup ({victim[s] : s \in Sender} \ {NoMsg})

\* The metadata of a slot in use (priority, src, size) is that of the bytes
\* in the slot: no interleaving of post() and receive_impl() lets a receiver
\* see one message's size or source with another message's payload.
SlotsDescribed == \A i \in InUse : slot_data[i] \in Msg /\ slot_meta[i] = MetaOf(slot_data[i])

\* A message that post() stored is in the ring in one slot, or was displaced
\* by post(), or was returned by receive_impl() - and only one of these:
\* nothing is lost silently, returned twice, or returned after eviction.
Conservation ==
  /\ posted = Held \cup evicted \cup delivered
  /\ Held \cap (evicted \cup delivered) = {}
  /\ evicted \cap delivered = {}
  /\ \A i, j \in InUse : slot_data[i] = slot_data[j] => i = j

\* A receiver sleeps on ring_event_ while a message is in the ring only if
\* another receiver has been signalled or holds the mutex, and will look at
\* the ring, or the sender has yet to signal (post() signals before unlock).
\* It needs every receiver to have room for every message: one that returns
\* -EMSGSIZE uses up the signal and passes it on to nobody.
NoLostWakeup ==
  (\A r \in Receiver, m \in Msg : Size[m] <= BufSize[r]) =>
    (ring_event # {} /\ InUse # {} =>
       \/ \E r \in Receiver : pc[r] \in {"check", "read", "free"}
       \/ \E r \in Receiver : pc[r] = "wait" /\ r \notin ring_event
       \/ \E s \in Sender : pc[s] = "signal")

\* The ring implements the bounded priority buffer: receive_impl() takes a
\* highest-priority message, post() displaces only a lowest one and only
\* when every slot is taken, and refuses only what every slot outranks.
Mailbox ==
  INSTANCE PriorityMailbox
    WITH pending <- Held, Rank <- [m \in Msg |-> Priority(m)]

ImplementsPriorityMailbox == Mailbox!Spec

\* Every message post() stored is at some point returned to a receiver or
\* displaced, while receivers with large enough buffers keep receiving: the
\* signal in post() and the wait loop in receive_impl() miss none.
EventuallyLeaves ==
  \A m \in Msg : m \in posted ~> m \in evicted \cup delivered
=============================================================================
