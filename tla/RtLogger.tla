------------------------------ MODULE RtLogger ------------------------------
(***************************************************************************)
(* RtLogger<RingSize> (include/corerat/logging/rt_logger.hpp): writers     *)
(* build an RtLogStream and commit() it to the ring under ring_mutex_; the *)
(* drain thread copies entries out without taking that mutex and hands     *)
(* them to the sinks; controllers start and stop the drain thread.         *)
(***************************************************************************)
EXTENDS Integers, Sequences, FiniteSets

CONSTANTS
  Writer,      \* RT threads that log
  Controller,  \* threads that call start_drain() and stop_drain()
  Entry,       \* log statements; each is executed once
  Level,       \* severity of each entry, 0 (Fatal) .. 5 (Trace)
  Sink,        \* sinks that may be registered
  SinkLevel,   \* min_level_ of each sink
  RingSize,    \* number of slots, a power of two
  MaxSinks,    \* kMaxSinks
  MinLevels,   \* values given to set_level()
  NoEntry, NoThread

ASSUME LoggerAssumption ==
  /\ RingSize \in Nat \ {0}
  /\ MaxSinks \in Nat
  /\ Level \in [Entry -> 0 .. 5]
  /\ SinkLevel \in [Sink -> 0 .. 5]
  /\ MinLevels \subseteq 0 .. 5
  /\ NoEntry \notin Entry
  /\ NoThread \notin Writer
  /\ Writer \cap Controller = {}

VARIABLES
  ring, head, tail,       \* ring_, head_, tail_
  ring_mutex,             \* writer that owns ring_mutex_, or NoThread
  level,                  \* level_
  sinks,                  \* sinks_[0 .. sink_count_ - 1]
  drain_running,          \* drain_running_
  drain,                  \* where the drain thread stands; "none": not joinable
  back,                   \* loop of drain_loop() it returns to after dispatch()
  local,                  \* its copy of an entry
  pc,                     \* where each writer and controller stands
  entry,                  \* entry each writer is logging
  committed, dispatched,  \* history: entries published and handed to dispatch()
  discarded,              \* history: entries filtered by level or dropped
  written,                \* history: entries each sink printed
  since,                  \* history: entries dispatched when each sink was added
  owed                    \* history: entries published when stop_drain() began

wVars == <<ring, head, ring_mutex, entry, committed, discarded>>
dVars == <<tail, back, local, dispatched, written>>
cVars == <<level, sinks, since, drain_running, owed>>
vars == <<wVars, dVars, cVars, pc, drain>>

Index(n) == n % RingSize            \* n & (RingSize - 1)
Slot == 0 .. (RingSize - 1)

Init ==
  /\ ring = [i \in Slot |-> NoEntry] /\ head = 0 /\ tail = 0
  /\ ring_mutex = NoThread
  /\ level \in MinLevels
  /\ sinks = <<>>
  /\ drain_running = FALSE
  /\ drain = "none" /\ back = "test" /\ local = NoEntry
  /\ pc = [t \in Writer \cup Controller |-> "idle"]
  /\ entry = [w \in Writer |-> NoEntry]
  /\ committed = <<>> /\ dispatched = <<>> /\ discarded = {}
  /\ written = [k \in Sink |-> <<>>]
  /\ since = [k \in Sink |-> 0]
  /\ owed = [c \in Controller |-> 0]

Goto(t, from, to) == pc[t] = from /\ pc' = [pc EXCEPT ![t] = to]
DGoto(from, to) == drain = from /\ drain' = to

-----------------------------------------------------------------------------
(* Writers                                                                 *)

Fresh(e) ==
  /\ e \notin discarded
  /\ \A i \in DOMAIN committed : committed[i] # e
  /\ \A w \in Writer : entry[w] # e

\* RTLOG_x(logger) << ...: the level is read once, when the stream is built.
Log(w, e) ==
  /\ Fresh(e)
  /\ \/ /\ Level[e] <= level
        /\ Goto(w, "idle", "commit")
        /\ entry' = [entry EXCEPT ![w] = e]
        /\ UNCHANGED discarded
     \/ /\ Level[e] > level
        /\ Goto(w, "idle", "idle")
        /\ discarded' = discarded \cup {e}
        /\ UNCHANGED entry
  /\ UNCHANGED <<ring, head, ring_mutex, committed, dVars, cVars, drain>>

\* Mutant: off by one in the full check.
Mut_RingFull == head - tail > RingSize

\* head_ - tail_ >= RingSize
RingFull == head - tail >= RingSize

\* Mutant: wait for room instead of dropping.
Mut_WDrop(w) == FALSE

\* commit() on a full ring: lock, drop the newest entry, unlock.
WDrop(w) ==
  /\ Goto(w, "commit", "idle")
  /\ ring_mutex = NoThread /\ RingFull
  /\ discarded' = discarded \cup {entry[w]}
  /\ entry' = [entry EXCEPT ![w] = NoEntry]
  /\ UNCHANGED <<ring, head, ring_mutex, committed, dVars, cVars, drain>>

WReserve(w) ==
  /\ Goto(w, "commit", "write")
  /\ ring_mutex = NoThread /\ ~RingFull
  /\ ring_mutex' = w
  /\ UNCHANGED <<ring, head, entry, committed, discarded, dVars, cVars, drain>>

WWrite(w) ==
  /\ Goto(w, "write", "publish")
  /\ ring' = [ring EXCEPT ![Index(head)] = entry[w]]
  /\ UNCHANGED <<head, ring_mutex, entry, committed, discarded, dVars, cVars, drain>>

\* head_.fetch_add(1), unlock
WPublish(w) ==
  /\ Goto(w, "publish", "idle")
  /\ head' = head + 1
  /\ ring_mutex' = NoThread
  /\ committed' = Append(committed, entry[w])
  /\ entry' = [entry EXCEPT ![w] = NoEntry]
  /\ UNCHANGED <<ring, discarded, dVars, cVars, drain>>

-----------------------------------------------------------------------------
(* Drain thread: drain_loop().  "test"/"poll" is the first loop, "flush"   *)
(* the second; both share the body.                                        *)

\* Mutant: for (;;) instead of while (drain_running_).
Mut_DTest == DGoto("test", "poll") /\ UNCHANGED <<wVars, dVars, cVars, pc>>

DTest ==
  /\ DGoto("test", IF drain_running THEN "poll" ELSE "flush")
  /\ UNCHANGED <<wVars, dVars, cVars, pc>>

\* Mutants: the empty check is missing; it takes one entry for none.
Mut_DPollBlind ==
  /\ DGoto("poll", "copy")
  /\ back' = "test"
  /\ UNCHANGED <<wVars, tail, local, dispatched, written, cVars, pc>>
Mut_DPoll ==
  /\ DGoto("poll", IF head <= tail + 1 THEN "test" ELSE "copy")
  /\ back' = "test"
  /\ UNCHANGED <<wVars, tail, local, dispatched, written, cVars, pc>>

\* head_ == tail_: sleep 1 ms and test again
DPoll ==
  /\ DGoto("poll", IF head = tail THEN "test" ELSE "copy")
  /\ back' = "test"
  /\ UNCHANGED <<wVars, tail, local, dispatched, written, cVars, pc>>

\* Mutant: no second loop.
Mut_DFlush == DGoto("flush", "exit") /\ UNCHANGED <<wVars, dVars, cVars, pc>>

DFlush ==
  /\ DGoto("flush", IF head = tail THEN "exit" ELSE "copy")
  /\ back' = "flush"
  /\ UNCHANGED <<wVars, tail, local, dispatched, written, cVars, pc>>

DCopy ==
  /\ DGoto("copy", "advance")
  /\ local' = ring[Index(tail)]
  /\ UNCHANGED <<wVars, tail, back, dispatched, written, cVars, pc>>

\* Mutant: the tail jumps to the head.
Mut_DAdvance ==
  /\ DGoto("advance", "dispatch")
  /\ tail' = head
  /\ UNCHANGED <<wVars, back, local, dispatched, written, cVars, pc>>

DAdvance ==
  /\ DGoto("advance", "dispatch")
  /\ tail' = tail + 1
  /\ UNCHANGED <<wVars, back, local, dispatched, written, cVars, pc>>

\* The sinks that dispatch() visits
Registered(k) == \E i \in DOMAIN sinks : sinks[i] = k

\* Mutant: a sink leaves out its own level.
Mut_WriteSinks(e) ==
  written' = [k \in Sink |->
    IF Registered(k) /\ Level[e] < SinkLevel[k]
    THEN Append(written[k], e) ELSE written[k]]

\* A sink prints the entries at or above its own level.
WriteSinks(e) ==
  written' = [k \in Sink |->
    IF Registered(k) /\ Level[e] <= SinkLevel[k]
    THEN Append(written[k], e) ELSE written[k]]

DDispatch ==
  /\ DGoto("dispatch", back)
  /\ dispatched' = Append(dispatched, local)
  /\ WriteSinks(local)
  /\ UNCHANGED <<wVars, tail, back, local, cVars, pc>>

-----------------------------------------------------------------------------
(* Controllers                                                             *)

SetLevel(l) ==
  /\ level' = l
  /\ UNCHANGED <<wVars, dVars, sinks, since, drain_running, owed, pc, drain>>

\* add_sink(), used as its contract says: before start_drain(), and once for
\* each sink.  A fifth sink is ignored.
AddSink(k) ==
  /\ ~drain_running /\ drain = "none"
  /\ ~Registered(k)
  /\ Len(sinks) < MaxSinks
  /\ sinks' = Append(sinks, k)
  /\ since' = [since EXCEPT ![k] = Len(dispatched)]
  /\ UNCHANGED <<wVars, dVars, level, drain_running, owed, pc, drain>>

\* start_drain(): a call that finds drain_running_ set changes nothing.
StartDrain(c) ==
  /\ Goto(c, "idle", "spawn")
  /\ ~drain_running /\ drain_running' = TRUE
  /\ UNCHANGED <<wVars, dVars, level, sinks, since, owed, drain>>

\* drain_thread_ = std::thread(...).  Assigning to a joinable std::thread is
\* std::terminate(): the program has no further step.
Spawn(c) ==
  /\ Goto(c, "spawn", "idle")
  /\ DGoto("none", "test")
  /\ UNCHANGED <<wVars, dVars, cVars>>

\* Mutant: only signal the thread, do not join it.
Mut_StopDrain(c) ==
  /\ Goto(c, "idle", "stopped")
  /\ drain_running /\ drain_running' = FALSE
  /\ UNCHANGED <<wVars, dVars, level, sinks, since, owed, drain>>

StopDrain(c) ==
  /\ Goto(c, "idle", "join")
  /\ drain_running /\ drain_running' = FALSE
  /\ owed' = [owed EXCEPT ![c] = Len(committed)]
  /\ UNCHANGED <<wVars, dVars, level, sinks, since, drain>>

\* if (!drain_running_.exchange(false)) return;
StopAgain(c) ==
  /\ Goto(c, "idle", "stopped")
  /\ ~drain_running
  /\ UNCHANGED <<wVars, dVars, cVars, drain>>

Join(c) ==
  /\ Goto(c, "join", "stopped")
  /\ DGoto("exit", "none")
  /\ UNCHANGED <<wVars, dVars, cVars>>

\* drain_thread_.joinable() is false: start_drain() has not assigned it yet.
JoinNothing(c) ==
  /\ Goto(c, "join", "stopped")
  /\ drain = "none"
  /\ UNCHANGED <<wVars, dVars, cVars, drain>>

\* The caller of stop_drain() goes on.
AfterStop(c) ==
  /\ Goto(c, "stopped", "idle")
  /\ UNCHANGED <<wVars, dVars, cVars, drain>>

-----------------------------------------------------------------------------
WStep(w) == WDrop(w) \/ WReserve(w) \/ WWrite(w) \/ WPublish(w)
DStep == DTest \/ DPoll \/ DFlush \/ DCopy \/ DAdvance \/ DDispatch
CStep(c) == StartDrain(c) \/ Spawn(c) \/ StopDrain(c) \/ StopAgain(c) \/ Join(c)
              \/ JoinNothing(c) \/ AfterStop(c)

Next ==
  \/ \E w \in Writer : WStep(w) \/ \E e \in Entry : Log(w, e)
  \/ DStep
  \/ \E c \in Controller : CStep(c)
  \/ \E l \in MinLevels : SetLevel(l)
  \/ \E k \in Sink : AddSink(k)

Spec == Init /\ [][Next]_vars

(* Threads inside commit(), start_drain() or stop_drain() are scheduled;   *)
(* nothing obliges anyone to log, or to start or stop the drain thread.    *)
(* The drain thread may be stalled in a sink for ever: the properties that *)
(* need it to run say so.                                                  *)
LiveSpec ==
  /\ Spec
  /\ \A w \in Writer : WF_vars(WStep(w))
  /\ \A c \in Controller : WF_vars(Spawn(c) \/ Join(c) \/ JoinNothing(c))

DrainScheduled == WF_vars(DStep)

-----------------------------------------------------------------------------
(* Properties                                                              *)

\* The types of ring_, the indices, the locks and the threads' positions.
TypeOK ==
  /\ ring \in [Slot -> Entry \cup {NoEntry}]
  /\ head \in Nat /\ tail \in Nat
  /\ ring_mutex \in Writer \cup {NoThread}
  /\ level \in 0 .. 5
  /\ sinks \in Seq(Sink)
  /\ drain_running \in BOOLEAN
  /\ drain \in {"none", "test", "poll", "copy", "advance", "dispatch", "flush", "exit"}
  /\ back \in {"test", "flush"}
  /\ local \in Entry \cup {NoEntry}
  /\ pc \in [Writer \cup Controller ->
             {"idle", "commit", "write", "publish", "spawn", "join", "stopped"}]
  /\ entry \in [Writer -> Entry \cup {NoEntry}]
  /\ committed \in Seq(Entry)
  /\ dispatched \in Seq(Entry)
  /\ discarded \subseteq Entry
  /\ written \in [Sink -> Seq(Entry)]
  /\ since \in [Sink -> Nat]
  /\ owed \in [Controller -> Nat]

\* What dispatch() has been given is a prefix of what commit() published: no
\* entry is lost, repeated, reordered or overwritten between the ring and the
\* sinks, although drain_loop() copies slots without ring_mutex_.
DispatchedInOrder ==
  /\ Len(dispatched) <= Len(committed)
  /\ \A i \in 1 .. Len(dispatched) : dispatched[i] = committed[i]

\* drain_loop() never copies the slot that a commit() is filling: both touch
\* ring_ at once, and only the full check and the empty check keep them apart.
NoTornCopy ==
  \A w \in Writer : pc[w] = "write" /\ drain = "copy" => Index(head) # Index(tail)

\* A sink has printed, once and in commit order, exactly the entries its level
\* admits out of those dispatched since add_sink() registered it: as many as
\* there are, each at its rank.  A sink that is not registered has printed
\* nothing.
Admitted(k) == {i \in (since[k] + 1) .. Len(dispatched) : Level[committed[i]] <= SinkLevel[k]}
UpTo(S, i) == {j \in S : j <= i}
SinkOrder ==
  \A k \in Sink :
    IF Registered(k)
    THEN /\ Len(written[k]) = Cardinality(Admitted(k))
         /\ \A i \in Admitted(k) : written[k][Cardinality(UpTo(Admitted(k), i))] = committed[i]
    ELSE written[k] = <<>>

\* "Stop the drain thread and flush remaining entries": when a stop_drain()
\* that joined the thread returns, all that was published before it began has
\* been dispatched.
FlushedOnStop ==
  \A c \in Controller : pc[c] = "stopped" => Len(dispatched) >= owed[c]

\* "Blocks until the drain thread exits.  Safe to call multiple times.": no
\* drain thread is left when stop_drain() returns.
StopBlocks == \A c \in Controller : pc[c] = "stopped" => drain = "none"

\* start_drain() never assigns to a std::thread that is still joinable, which
\* would terminate the program.
NeverTerminates == \A c \in Controller : pc[c] = "spawn" => drain = "none"

\* "RT thread never blocks": a commit() returns although the drain thread may
\* never run again.
CommitReturns == \A w \in Writer : pc[w] # "idle" ~> pc[w] = "idle"

\* While there is a drain thread, running or stopping, every published entry
\* is dispatched, or the thread is joined first.
EventuallyDispatched ==
  DrainScheduled =>
    \A n \in 1 .. Cardinality(Entry) :
      Len(committed) >= n /\ drain # "none" ~> Len(dispatched) >= n \/ drain = "none"

\* stop_drain() returns, once the writers stop.
StopReturns ==
  DrainScheduled => \A c \in Controller : pc[c] = "join" ~> pc[c] = "stopped"
=============================================================================
