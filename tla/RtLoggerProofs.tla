--------------------------- MODULE RtLoggerProofs ---------------------------
(***************************************************************************)
(* Proofs about RtLogger for every set of writers, controllers, entries    *)
(* and sinks and every ring size.  The inductive invariant ties the ring   *)
(* to the history: slots tail .. head-1 hold the entries published but not *)
(* taken, a writer past the full check has a slot of its own, and the      *)
(* drain thread's copy is the entry its tail says it is.                   *)
(***************************************************************************)
EXTENDS RtLogger, FiniteSetTheorems, TLAPS

-----------------------------------------------------------------------------
(* Slot indices                                                            *)

\* A slot index is within ring_.
LEMMA ModRange ==
  ASSUME NEW n \in Nat \ {0}, NEW i \in Nat
  PROVE i % n \in 0 .. (n - 1)
  BY Z3

\* Division with remainder, as the solver knows it.
LEMMA DivMod ==
  ASSUME NEW n \in Nat \ {0}, NEW i \in Nat
  PROVE i \div n \in Nat /\ i = n * (i \div n) + (i % n)
  BY Z3

\* No multiple of n lies strictly between 0 and n.
LEMMA NoMultipleBetween ==
  ASSUME NEW n \in Nat \ {0}, NEW d \in Int, n * d < n, 0 < n * d
  PROVE FALSE
  <1>1. CASE d <= 0
    BY <1>1, Z3
  <1>2. CASE d >= 1
    BY <1>2, Z3
  <1> QED BY <1>1, <1>2

\* Counters less than RingSize apart address different slots of ring_.
LEMMA ModDistinct ==
  ASSUME NEW n \in Nat \ {0}, NEW i \in Nat, NEW j \in Nat, i < j, j < i + n
  PROVE i % n # j % n
  <1> SUFFICES ASSUME i % n = j % n PROVE FALSE
    BY Zenon
  <1> DEFINE a == i \div n
             b == j \div n
  <1>1. a \in Nat /\ b \in Nat /\ i = n * a + (i % n) /\ j = n * b + (j % n)
    BY Zenon, DivMod
  <1>2. i % n \in Nat
    BY ModRange
  <1> HIDE DEF a, b
  <1>3. n * (b - a) = j - i
    BY <1>1, <1>2, Z3
  <1>4. n * (b - a) < n /\ 0 < n * (b - a)
    BY <1>3, Z3
  <1>5. b - a \in Int
    BY <1>1
  <1> QED BY Zenon, <1>4, <1>5, NoMultipleBetween

\* The masked index of commit() and drain_loop() is a slot of ring_.
LEMMA IndexRange ==
  ASSUME NEW i \in Nat
  PROVE Index(i) \in Slot
  BY Zenon, ModRange, LoggerAssumption DEF Index, Slot

\* Two counters less than RingSize apart index different slots.
LEMMA IndexDistinct ==
  ASSUME NEW i \in Nat, NEW j \in Nat, i < j, j < i + RingSize
  PROVE Index(i) # Index(j)
  BY Zenon, ModDistinct, LoggerAssumption DEF Index

-----------------------------------------------------------------------------
(* The inductive invariant                                                 *)

Writing == {"write", "publish"}

\* head_ and tail_ count what was published and what was taken.
Indices ==
  /\ head = Len(committed)
  /\ tail = IF drain = "dispatch" THEN Len(dispatched) + 1 ELSE Len(dispatched)
  /\ tail <= head /\ head <= tail + RingSize
  /\ drain \in {"copy", "advance"} => tail < head

\* A writer past the full check owns ring_mutex_ and a free slot.
Reserved ==
  \A w \in Writer :
    /\ pc[w] \in {"commit", "write", "publish"} => entry[w] \in Entry
    /\ pc[w] \in Writing => ring_mutex = w /\ head < tail + RingSize
    /\ pc[w] = "publish" => ring[Index(head)] = entry[w]

\* The slots between tail_ and head_ hold the entries published last.
RingHolds == \A i \in Nat : tail <= i /\ i < head => ring[Index(i)] = committed[i + 1]

\* The drain thread's copy is the entry it is about to account for.
LocalCopy ==
  /\ drain = "advance" => local = committed[tail + 1]
  /\ drain = "dispatch" => local = committed[tail]

IInv == TypeOK /\ Indices /\ Reserved /\ RingHolds /\ LocalCopy /\ DispatchedInOrder

\* A logger fresh from its constructor satisfies the inductive invariant.
LEMMA InitIInv == Init => IInv
  <1> SUFFICES ASSUME Init PROVE IInv
    BY Zenon
  <1> USE LoggerAssumption DEF Init
  <1>a. ring \in [Slot -> Entry \cup {NoEntry}] /\ level \in 0 .. 5
    BY Zenon
  <1>b. written \in [Sink -> Seq(Entry)] /\ owed \in [Controller -> Nat]
    OBVIOUS
  <1>c. /\ sinks \in Seq(Sink) /\ committed \in Seq(Entry) /\ dispatched \in Seq(Entry)
        /\ entry \in [Writer -> Entry \cup {NoEntry}]
        /\ pc \in [Writer \cup Controller ->
             {"idle", "commit", "write", "publish", "spawn", "join", "stopped"}]
    OBVIOUS
  <1>1. TypeOK
    BY Zenon, <1>a, <1>b, <1>c DEF TypeOK
  <1>2. Indices /\ Reserved
    BY DEF Indices, Reserved, Writing
  <1>3. RingHolds /\ LocalCopy /\ DispatchedInOrder
    BY DEF RingHolds, LocalCopy, DispatchedInOrder
  <1> QED BY Zenon, <1>1, <1>2, <1>3 DEF IInv

\* Steps of a thread inside RTLOG_x() or commit().
LEMMA WriterIInv ==
  ASSUME IInv, NEW w \in Writer, WStep(w) \/ \E e \in Entry : Log(w, e)
  PROVE IInv'
  <1> USE LoggerAssumption DEF IInv
  <1>0. w \in Writer \cup Controller /\ entry[w] # NoEntry => entry[w] \in Entry
    BY Zenon DEF TypeOK
  <1>1. CASE WDrop(w)
    <2> USE <1>1 DEF WDrop, Goto, dVars, cVars
    <2>1. TypeOK'
      BY Zenon DEF TypeOK, Reserved
    <2>2. Indices' /\ RingHolds' /\ LocalCopy' /\ DispatchedInOrder'
      BY Zenon DEF Indices, RingHolds, LocalCopy, DispatchedInOrder
    <2>3. Reserved'
      BY Zenon DEF TypeOK, Reserved, Writing
    <2> QED BY Zenon, <2>1, <2>2, <2>3
  <1>2. CASE WReserve(w)
    <2> USE <1>2 DEF WReserve, Goto, dVars, cVars
    <2>1. TypeOK'
      BY Zenon DEF TypeOK
    <2>2. Indices' /\ RingHolds' /\ LocalCopy' /\ DispatchedInOrder'
      BY Zenon DEF Indices, RingHolds, LocalCopy, DispatchedInOrder
    <2>3. head < tail + RingSize
      BY DEF RingFull, TypeOK
    <2>4. Reserved'
      BY Zenon, <2>3 DEF TypeOK, Reserved, Writing
    <2> QED BY Zenon, <2>1, <2>2, <2>4
  <1>3. CASE WWrite(w)
    <2> USE <1>3 DEF WWrite, Goto, dVars, cVars
    <2>1. TypeOK'
      BY Zenon DEF TypeOK
    <2>2. Indices' /\ LocalCopy' /\ DispatchedInOrder'
      BY Zenon DEF Indices, LocalCopy, DispatchedInOrder
    <2>3. head \in Nat /\ Index(head) \in Slot
      BY Zenon, IndexRange DEF TypeOK
    <2>4. ring_mutex = w /\ head < tail + RingSize
      BY Zenon DEF Reserved, Writing
    <2>5. ring'[Index(head)] = entry[w]
      BY Zenon, <2>3 DEF TypeOK
    <2>6. Reserved'
      BY Zenon, <2>4, <2>5 DEF TypeOK, Reserved, Writing, Index
    <2>7. RingHolds'
      <3> SUFFICES ASSUME NEW i \in Nat, tail <= i, i < head
                   PROVE ring'[Index(i)] = committed[i + 1]
        BY Zenon DEF RingHolds, Index
      <3>1. Index(i) # Index(head)
        BY <2>3, <2>4, IndexDistinct DEF TypeOK
      <3>2. Index(i) \in Slot /\ ring[Index(i)] = committed[i + 1]
        BY Zenon, IndexRange DEF RingHolds
      <3> QED BY Zenon, <3>1, <3>2 DEF TypeOK
    <2> QED BY Zenon, <2>1, <2>2, <2>6, <2>7
  <1>4. CASE WPublish(w)
    <2> USE <1>4 DEF WPublish, Goto, dVars, cVars
    <2>1. entry[w] \in Entry /\ head < tail + RingSize /\ ring[Index(head)] = entry[w]
      BY Zenon DEF Reserved, Writing
    <2>2. /\ committed' \in Seq(Entry)
          /\ Len(committed') = Len(committed) + 1
          /\ committed'[head + 1] = entry[w]
          /\ \A i \in 1 .. Len(committed) : committed'[i] = committed[i]
      BY <2>1 DEF TypeOK, Indices
    <2>3. TypeOK'
      BY <2>2 DEF TypeOK
    <2>4. Indices'
      BY <2>1, <2>2 DEF Indices, TypeOK
    <2>5. Reserved'
      BY Zenon DEF TypeOK, Reserved, Writing
    <2>6. RingHolds'
      <3> SUFFICES ASSUME NEW i \in Nat, tail <= i, i < head + 1
                   PROVE ring[Index(i)] = committed'[i + 1]
        BY Zenon DEF RingHolds, Index
      <3>1. CASE i = head
        BY Zenon, <3>1, <2>1, <2>2
      <3>2. CASE i < head
        BY <3>2, <2>2 DEF RingHolds, Indices, TypeOK
      <3>3. i = head \/ i < head
        BY DEF TypeOK
      <3> QED BY Zenon, <3>1, <3>2, <3>3
    <2>7. LocalCopy'
      BY <2>2 DEF LocalCopy, Indices, TypeOK
    <2>8. DispatchedInOrder'
      BY <2>2 DEF DispatchedInOrder, TypeOK
    <2> QED BY Zenon, <2>3, <2>4, <2>5, <2>6, <2>7, <2>8
  <1>5. ASSUME NEW e \in Entry, Log(w, e) PROVE IInv'
    <2> USE <1>5 DEF Log, Goto, dVars, cVars
    <2>1. TypeOK'
      BY ZenonT(60) DEF TypeOK
    <2>2. Indices' /\ RingHolds' /\ LocalCopy' /\ DispatchedInOrder'
      BY Zenon DEF Indices, RingHolds, LocalCopy, DispatchedInOrder
    <2>3. Reserved'
      BY DEF TypeOK, Reserved, Writing
    <2> QED BY Zenon, <2>1, <2>2, <2>3
  <1> QED BY Zenon, <1>1, <1>2, <1>3, <1>4, <1>5 DEF WStep

\* Steps of drain_loop().
LEMMA DrainIInv ==
  ASSUME IInv, DStep
  PROVE IInv'
  <1> USE LoggerAssumption DEF IInv, DGoto, wVars, dVars, cVars
  <1>1. CASE DTest \/ DPoll \/ DFlush
    <2> USE <1>1 DEF DTest, DPoll, DFlush
    <2>1. TypeOK' /\ Reserved'
      BY Zenon DEF TypeOK, Reserved
    <2>2. Indices' /\ LocalCopy'
      BY DEF Indices, LocalCopy, TypeOK
    <2>3. RingHolds' /\ DispatchedInOrder'
      BY Zenon DEF RingHolds, DispatchedInOrder
    <2> QED BY Zenon, <2>1, <2>2, <2>3
  <1>2. CASE DCopy
    <2> USE <1>2 DEF DCopy
    <2>1. Index(tail) \in Slot /\ tail < head
      BY Zenon, IndexRange DEF TypeOK, Indices
    <2>2. TypeOK' /\ Reserved'
      BY Zenon, <2>1 DEF TypeOK, Reserved
    <2>3. Indices'
      BY Zenon DEF Indices
    <2>4. LocalCopy'
      <3>1. tail \in Nat /\ tail <= tail
        BY DEF TypeOK
      <3>2. local' = committed[tail + 1]
        BY Zenon, <2>1, <3>1 DEF RingHolds
      <3> QED BY Zenon, <3>2 DEF LocalCopy
    <2>5. RingHolds' /\ DispatchedInOrder'
      BY Zenon DEF RingHolds, DispatchedInOrder
    <2> QED BY Zenon, <2>2, <2>3, <2>4, <2>5
  <1>3. CASE DAdvance
    <2> USE <1>3 DEF DAdvance
    <2>1. TypeOK'
      BY DEF TypeOK
    <2>2. Indices'
      BY DEF Indices, TypeOK
    <2>3. Reserved'
      BY DEF Reserved, TypeOK, Writing
    <2>4. RingHolds'
      <3> SUFFICES ASSUME NEW i \in Nat, tail + 1 <= i, i < head
                   PROVE ring[Index(i)] = committed[i + 1]
        BY Zenon DEF RingHolds, Index
      <3>1. tail <= i
        BY DEF TypeOK
      <3> QED BY Zenon, <3>1 DEF RingHolds
    <2>5. LocalCopy' /\ DispatchedInOrder'
      BY Zenon DEF LocalCopy, DispatchedInOrder
    <2> QED BY Zenon, <2>1, <2>2, <2>3, <2>4, <2>5
  <1>4. CASE DDispatch
    <2> USE <1>4 DEF DDispatch
    <2>1. /\ local = committed[Len(dispatched) + 1] /\ local \in Entry
          /\ Len(dispatched) + 1 = tail /\ Len(dispatched) + 1 <= Len(committed)
      BY DEF LocalCopy, Indices, TypeOK
    <2>2. /\ dispatched' \in Seq(Entry)
          /\ Len(dispatched') = Len(dispatched) + 1
          /\ dispatched'[Len(dispatched) + 1] = local
          /\ \A i \in 1 .. Len(dispatched) : dispatched'[i] = dispatched[i]
      BY <2>1 DEF TypeOK
    <2>3. written' \in [Sink -> Seq(Entry)]
      BY <2>1 DEF WriteSinks, TypeOK
    <2>4. TypeOK'
      BY Zenon, <2>2, <2>3 DEF TypeOK
    <2>5. Indices' /\ LocalCopy'
      BY Zenon, <2>1, <2>2 DEF Indices, LocalCopy, TypeOK
    <2>6. Reserved' /\ RingHolds'
      BY Zenon DEF Reserved, RingHolds
    <2>7. DispatchedInOrder'
      BY <2>1, <2>2 DEF DispatchedInOrder, TypeOK
    <2> QED BY Zenon, <2>4, <2>5, <2>6, <2>7
  <1> QED BY Zenon, <1>1, <1>2, <1>3, <1>4 DEF DStep

\* start_drain(), stop_drain(), set_level() and add_sink().
LEMMA ControllerIInv ==
  ASSUME IInv,
         \/ \E c \in Controller : CStep(c)
         \/ \E l \in MinLevels : SetLevel(l)
         \/ \E k \in Sink : AddSink(k)
  PROVE IInv'
  <1> USE LoggerAssumption DEF IInv, wVars, dVars, cVars
  <1>1. ASSUME NEW c \in Controller, CStep(c) PROVE IInv'
    <2> USE <1>1 DEF CStep, StartDrain, Spawn, StopDrain, StopAgain, Join, JoinNothing,
          AfterStop, Goto, DGoto
    <2>a. Len(committed) \in Nat
      <3>1. committed \in Seq(Entry)
        BY Zenon DEF TypeOK
      <3> QED BY ONLY <3>1
    <2>b. c \notin Writer /\ UNCHANGED <<wVars, dVars, level, sinks, since>>
      BY Zenon
    <2>1. pc' \in [Writer \cup Controller ->
             {"idle", "commit", "write", "publish", "spawn", "join", "stopped"}]
      BY Zenon DEF TypeOK
    <2>c. drain' \in {"none", "test", drain}
      BY Zenon
    <2>d. owed' \in [Controller -> Nat]
      BY <2>a DEF TypeOK
    <2>e. drain_running' \in BOOLEAN
      BY Zenon DEF TypeOK
    <2>2. TypeOK'
      BY <2>b, <2>c, <2>d, <2>e, <2>1 DEF TypeOK
    <2>3. Indices' /\ LocalCopy'
      BY Zenon DEF Indices, LocalCopy
    <2>4. Reserved'
      BY <2>b DEF Reserved, TypeOK, Writing
    <2>5. RingHolds' /\ DispatchedInOrder'
      BY Zenon, <2>b DEF RingHolds, DispatchedInOrder
    <2> QED BY Zenon, <2>2, <2>3, <2>4, <2>5
  <1>2. ASSUME NEW l \in MinLevels, SetLevel(l) PROVE IInv'
    BY <1>2 DEF SetLevel, TypeOK, Indices, Reserved, RingHolds, LocalCopy, DispatchedInOrder
  <1>3. ASSUME NEW k \in Sink, AddSink(k) PROVE IInv'
    BY <1>3 DEF AddSink, TypeOK, Indices, Reserved, RingHolds, LocalCopy, DispatchedInOrder
  <1> QED BY Zenon, <1>1, <1>2, <1>3

\* The inductive invariant depends on the variables of the logger only.
LEMMA StutterIInv ==
  ASSUME IInv, UNCHANGED vars
  PROVE IInv'
  BY DEF vars, wVars, dVars, cVars, IInv, TypeOK, Indices, Reserved, RingHolds, LocalCopy,
     DispatchedInOrder

\* Every step of the logger preserves the inductive invariant.
THEOREM LoggerInductive == Spec => []IInv
  <1>1. IInv /\ [Next]_vars => IInv'
    BY Zenon, WriterIInv, DrainIInv, ControllerIInv, StutterIInv DEF Next
  <1> QED BY InitIInv, <1>1, PTL DEF Spec

\* The state of the logger is well typed.
THEOREM LoggerTypes == Spec => []TypeOK
  BY LoggerInductive, PTL DEF IInv

\* The lock-free drain loses, repeats, reorders and overwrites nothing.
THEOREM LoggerInOrder == Spec => []DispatchedInOrder
  BY LoggerInductive, PTL DEF IInv

\* drain_loop() never reads the slot that a commit() is filling.
THEOREM LoggerNoTornCopy == Spec => []NoTornCopy
  <1>1. IInv => NoTornCopy
    BY Zenon, IndexDistinct, LoggerAssumption DEF IInv, NoTornCopy, TypeOK, Indices, Reserved, Writing
  <1> QED BY LoggerInductive, <1>1, PTL

-----------------------------------------------------------------------------
(* Control of the drain thread.  start_drain() and stop_drain() are not    *)
(* synchronised with each other; the results below are for one controller. *)

OneController == \A c, d \in Controller : c = d

\* The second loop of drain_loop() has been entered.
Flushing ==
  drain \in {"flush", "exit"} \/ (drain \in {"copy", "advance", "dispatch"} /\ back = "flush")

\* What drain_running_ and the thread handle say at each point of a
\* controller, and how much of what it is owed has been dispatched.
ControlInv ==
  /\ Flushing => ~drain_running
  /\ \A c \in Controller :
       /\ pc[c] \in {"idle", "spawn", "join", "stopped"}
       /\ pc[c] = "spawn" => drain = "none" /\ drain_running
       /\ pc[c] = "join" => drain # "none" /\ ~drain_running
       /\ pc[c] = "stopped" => drain = "none" /\ ~drain_running
       /\ pc[c] = "idle" => (drain_running <=> drain # "none")
       /\ owed[c] <= Len(committed)
       /\ pc[c] # "join" \/ drain = "exit" => owed[c] <= Len(dispatched)

\* Every step keeps the state of start_drain()/stop_drain() with one controller consistent.
LEMMA ControlStep ==
  ASSUME OneController, IInv, IInv', ControlInv, [Next]_vars
  PROVE ControlInv'
  <1> USE LoggerAssumption DEF ControlInv, Goto, DGoto, wVars, dVars, cVars
  <1>0. /\ \A c \in Controller : owed[c] \in Nat /\ c \notin Writer
        /\ Len(committed) \in Nat /\ Len(dispatched) \in Nat
        /\ drain_running \in BOOLEAN /\ Len(dispatched) <= Len(committed)
        /\ DOMAIN pc = Writer \cup Controller /\ DOMAIN owed = Controller
    <2>1. committed \in Seq(Entry) /\ dispatched \in Seq(Entry) /\ drain_running \in BOOLEAN
          /\ owed \in [Controller -> Nat] /\ Len(dispatched) <= Len(committed)
      BY Zenon DEF IInv, TypeOK, DispatchedInOrder
    <2>2. Len(committed) \in Nat /\ Len(dispatched) \in Nat
      BY ONLY <2>1
    <2>3. (\A c \in Controller : owed[c] \in Nat) /\ DOMAIN owed = Controller
      BY ONLY <2>1
    <2>4. DOMAIN pc = Writer \cup Controller /\ \A c \in Controller : c \notin Writer
      BY Zenon DEF IInv, TypeOK
    <2> QED BY Zenon, <2>1, <2>2, <2>3, <2>4
  <1>1. ASSUME NEW w \in Writer, WStep(w) \/ \E e \in Entry : Log(w, e)
        PROVE ControlInv'
    <2>1. /\ UNCHANGED <<drain, back, drain_running, owed, dispatched>>
          /\ \A c \in Controller : pc'[c] = pc[c]
      BY Zenon, <1>0, <1>1 DEF WStep, WDrop, WReserve, WWrite, WPublish, Log
    <2>2. Len(committed) <= Len(committed')
      BY <1>0, <1>1, SMTT(30) DEF WStep, WDrop, WReserve, WWrite, WPublish, Log, IInv, TypeOK, Indices
    <2>3. Len(committed') \in Nat
      BY DEF IInv, TypeOK
    <2> QED BY <1>0, <2>1, <2>2, <2>3, SMTT(30) DEF Flushing
  <1>2. CASE DTest \/ DPoll \/ DCopy \/ DAdvance
    BY <1>0, <1>2 DEF DTest, DPoll, DCopy, DAdvance, Flushing
  <1>3. CASE DFlush
    <2>1. head = tail => Len(dispatched) = Len(committed)
      BY Zenon, <1>3 DEF DFlush, IInv, Indices, TypeOK
    <2> QED BY Zenon, <1>0, <1>3, <2>1 DEF DFlush, Flushing
  <1>4. CASE DDispatch
    <2>1. Len(dispatched') = Len(dispatched) + 1 /\ drain' # "exit"
      BY Zenon, <1>4 DEF DDispatch, IInv, TypeOK, Indices
    <2> QED BY <1>0, <1>4, <2>1 DEF DDispatch, Flushing, IInv, TypeOK
  <1>5. ASSUME NEW c \in Controller, CStep(c) PROVE ControlInv'
    <2>1. \A d \in Controller : d = c
      BY Zenon DEF OneController
    <2>2. CASE StartDrain(c) \/ Spawn(c)
      BY Zenon, <1>0, <2>1, <2>2 DEF StartDrain, Spawn, Flushing
    <2>3. CASE StopDrain(c)
      BY <1>0, <2>1, <2>3 DEF StopDrain, Flushing
    <2>4. CASE StopAgain(c) \/ Join(c) \/ JoinNothing(c) \/ AfterStop(c)
      BY <1>0, <2>1, <2>4 DEF StopAgain, Join, JoinNothing, AfterStop, Flushing
    <2> QED BY Zenon, <1>5, <2>2, <2>3, <2>4 DEF CStep
  <1>6. CASE \E l \in MinLevels : SetLevel(l)
    BY <1>6 DEF SetLevel, Flushing
  <1>7. CASE \E k \in Sink : AddSink(k)
    BY <1>7 DEF AddSink, Flushing
  <1>8. CASE UNCHANGED vars
    BY Zenon, <1>8 DEF vars, Flushing
  <1> QED BY Zenon, <1>1, <1>2, <1>3, <1>4, <1>5, <1>6, <1>7, <1>8 DEF Next, DStep

\* With one controller, what it sees of the drain thread is as above.
THEOREM LoggerControl == OneController => (Spec => []ControlInv)
  <1> SUFFICES ASSUME OneController PROVE Spec => []ControlInv
    BY Zenon
  <1>1. Init => ControlInv
    BY DEF Init, ControlInv, Flushing
  <1>2. IInv /\ IInv' /\ ControlInv /\ [Next]_vars => ControlInv'
    BY Zenon, ControlStep
  <1> QED BY LoggerInductive, <1>1, <1>2, PTL DEF Spec

\* stop_drain() of the only controller returns with everything flushed.
THEOREM LoggerFlushes == OneController => (Spec => []FlushedOnStop)
  <1> SUFFICES ASSUME OneController PROVE Spec => []FlushedOnStop
    BY Zenon
  <1>1. IInv /\ ControlInv => FlushedOnStop
    BY Zenon DEF ControlInv, FlushedOnStop, IInv, TypeOK
  <1> QED BY LoggerInductive, LoggerControl, <1>1, PTL

\* ... and no drain thread is left.
THEOREM LoggerStops == OneController => (Spec => []StopBlocks)
  <1> SUFFICES ASSUME OneController PROVE Spec => []StopBlocks
    BY Zenon
  <1>1. ControlInv => StopBlocks
    BY Zenon DEF ControlInv, StopBlocks
  <1> QED BY LoggerControl, <1>1, PTL

\* Nor does start_drain() of the only controller find one.
THEOREM LoggerNeverTerminates == OneController => (Spec => []NeverTerminates)
  <1> SUFFICES ASSUME OneController PROVE Spec => []NeverTerminates
    BY Zenon
  <1>1. ControlInv => NeverTerminates
    BY Zenon DEF ControlInv, NeverTerminates
  <1> QED BY LoggerControl, <1>1, PTL

-----------------------------------------------------------------------------
(* What the sinks print.                                                   *)

\* A sink was registered when some prefix of the entries had been dispatched.
Registrations == \A k \in Sink : since[k] <= Len(dispatched)
SinkInv == SinkOrder /\ Registrations

\* What was printed, by rank
Lists(q, S, f) ==
  /\ Len(q) = Cardinality(S)
  /\ \A i \in S : q[Cardinality(UpTo(S, i))] = f[i]

\* The positions a sink admits are finite in number, and none is after the
\* entries dispatched.
LEMMA AdmittedFinite ==
  ASSUME TypeOK, NEW k \in Sink
  PROVE IsFiniteSet(Admitted(k)) /\ \A i \in Admitted(k) : i \in Nat /\ i <= Len(dispatched)
  <1>1. since[k] + 1 \in Int /\ Len(dispatched) \in Int /\ since[k] \in Nat
    BY DEF TypeOK
  <1>2. IsFiniteSet((since[k] + 1) .. Len(dispatched))
    BY Zenon, <1>1, FS_Interval
  <1>3. Admitted(k) \subseteq (since[k] + 1) .. Len(dispatched)
    BY Zenon DEF Admitted
  <1>4. IsFiniteSet(Admitted(k))
    BY Zenon, <1>2, <1>3, FS_Subset
  <1>5. \A i \in (since[k] + 1) .. Len(dispatched) : i \in Nat /\ i <= Len(dispatched)
    BY <1>1
  <1> QED BY Zenon, <1>3, <1>4, <1>5

\* One more entry at the end of a list by rank is one more at the end of the
\* sequence.
LEMMA ListsAppend ==
  ASSUME NEW q \in Seq(Entry), NEW S, IsFiniteSet(S), NEW n \in Nat, NEW f, NEW e \in Entry,
         \A i \in S : i \in Nat /\ i < n, Lists(q, S, f), f[n] = e
  PROVE Lists(Append(q, e), S \cup {n}, f)
  <1> DEFINE T == S \cup {n}
  <1>1. n \notin S
    OBVIOUS
  <1>2. Cardinality(T) = Cardinality(S) + 1
    BY Zenon, <1>1, FS_AddElement
  <1>3. Cardinality(S) \in Nat /\ Cardinality(S) = Len(q)
    BY Zenon, FS_CardinalityType DEF Lists
  <1>4. Len(Append(q, e)) = Cardinality(T)
    BY <1>2, <1>3
  <1>5. UpTo(T, n) = T
    BY DEF UpTo
  <1>6. ASSUME NEW i \in S
        PROVE UpTo(T, i) = UpTo(S, i) /\ Cardinality(UpTo(S, i)) \in 1 .. Len(q)
    <2>1. UpTo(T, i) = UpTo(S, i)
      BY DEF UpTo
    <2>2. UpTo(S, i) \subseteq S /\ i \in UpTo(S, i)
      BY DEF UpTo
    <2>3. IsFiniteSet(UpTo(S, i)) /\ Cardinality(UpTo(S, i)) <= Cardinality(S)
      BY Zenon, <2>2, FS_Subset
    <2>4. Cardinality(UpTo(S, i)) \in Nat /\ Cardinality(UpTo(S, i)) # 0
      BY Zenon, <2>2, <2>3, FS_CardinalityType, FS_EmptySet
    <2> QED BY <1>3, <2>1, <2>3, <2>4
  <1> HIDE DEF T
  <1>7. ASSUME NEW i \in T PROVE Append(q, e)[Cardinality(UpTo(T, i))] = f[i]
    <2>1. CASE i = n
      BY <1>2, <1>3, <1>5, <2>1
    <2>2. CASE i \in S
      <3>1. PICK r \in 1 .. Len(q) : r = Cardinality(UpTo(S, i))
        BY Zenon, <1>6, <2>2
      <3>2. Append(q, e)[r] = q[r]
        OBVIOUS
      <3> QED BY Zenon, <1>6, <2>2, <3>1, <3>2 DEF Lists
    <2> QED BY Zenon, <2>1, <2>2 DEF T
  <1> QED BY Zenon, <1>4, <1>7 DEF Lists, T

\* The set is all that a list by rank depends on.
LEMMA ListsSame ==
  ASSUME NEW q, NEW S, NEW f, NEW g, Lists(q, S, f), \A i \in S : g[i] = f[i]
  PROVE Lists(q, S, g)
  BY Zenon DEF Lists

\* What SinkOrder says of one sink.
LEMMA SinkLists ==
  SinkOrder <=> \A k \in Sink : IF Registered(k) THEN Lists(written[k], Admitted(k), committed)
                                ELSE written[k] = <<>>
  BY Zenon DEF SinkOrder, Lists

\* Steps that leave the sinks and what was dispatched alone
LEMMA SinksKept ==
  ASSUME IInv, SinkInv, UNCHANGED <<sinks, since, dispatched, written>>,
         \A i \in 1 .. Len(dispatched) : committed'[i] = committed[i]
  PROVE SinkInv'
  <1> USE DEF IInv, SinkInv
  <1>1. ASSUME NEW k \in Sink
        PROVE Admitted(k)' = Admitted(k) /\ \A i \in Admitted(k) : committed'[i] = committed[i]
    <2>1. \A i \in (since[k] + 1) .. Len(dispatched) : i \in 1 .. Len(dispatched)
      BY DEF TypeOK
    <2>2. \A i \in (since[k] + 1) .. Len(dispatched) : committed'[i] = committed[i]
      BY Zenon, <2>1
    <2> QED BY Zenon, <2>2 DEF Admitted
  <1>2. ASSUME NEW k \in Sink
        PROVE IF Registered(k)' THEN Lists(written'[k], Admitted(k)', committed')
              ELSE written'[k] = <<>>
    <2>1. Registered(k)' <=> Registered(k)
      BY Zenon DEF Registered
    <2>2. CASE Registered(k)
      <3>1. Lists(written[k], Admitted(k), committed)
        BY Zenon, <2>2, SinkLists
      <3>2. Lists(written[k], Admitted(k), committed')
        BY Zenon, <1>1, <3>1, ListsSame
      <3> QED BY Zenon, <1>1, <2>1, <2>2, <3>2
    <2>3. CASE ~Registered(k)
      BY Zenon, <2>1, <2>3, SinkLists
    <2> QED BY Zenon, <2>2, <2>3
  <1>3. SinkOrder'
    BY Zenon, <1>2 DEF SinkOrder, Lists
  <1> QED BY Zenon, <1>3 DEF Registrations

\* dispatch() hands an entry to the sinks.
LEMMA SinksDispatch ==
  ASSUME IInv, SinkInv, DDispatch
  PROVE SinkInv'
  <1> USE DEF IInv, SinkInv
  <1> DEFINE n == Len(dispatched) + 1
  <1>1. /\ n \in Nat /\ local = committed[n] /\ local \in Entry
        /\ Len(dispatched') = n /\ UNCHANGED <<sinks, since, committed>>
    <2>1. drain = "dispatch" /\ dispatched' = Append(dispatched, local)
            /\ UNCHANGED <<sinks, since, committed>>
      BY Zenon DEF DDispatch, DGoto, wVars, cVars
    <2>2. dispatched \in Seq(Entry) /\ committed \in Seq(Entry) /\ head = Len(committed)
            /\ tail = n /\ tail <= head /\ local = committed[tail]
      BY Zenon, <2>1 DEF LocalCopy, Indices, TypeOK
    <2> QED BY ONLY <2>1, <2>2
  <1>2. ASSUME NEW k \in Sink
        PROVE Admitted(k)' = IF Level[local] <= SinkLevel[k] THEN Admitted(k) \cup {n} ELSE Admitted(k)
    <2>1. since[k] \in Nat /\ since[k] <= Len(dispatched)
      BY Zenon DEF TypeOK, Registrations
    <2>2. \A i : i \in (since[k] + 1) .. n <=> i \in (since[k] + 1) .. Len(dispatched) \/ i = n
      BY <1>1, <2>1 DEF TypeOK
    <2>3. \A i : i \in Admitted(k)' <=> i \in (since[k] + 1) .. n /\ Level[committed[i]] <= SinkLevel[k]
      BY Zenon, <1>1 DEF Admitted
    <2>4. \A i : i \in Admitted(k) <=> /\ i \in (since[k] + 1) .. Len(dispatched)
                                       /\ Level[committed[i]] <= SinkLevel[k]
      BY Zenon DEF Admitted
    <2> HIDE DEF n
    <2>5. CASE Level[local] <= SinkLevel[k]
      <3>1. \A i : i \in Admitted(k)' <=> i \in Admitted(k) \/ i = n
        BY Zenon, <1>1, <2>2, <2>3, <2>4, <2>5
      <3> QED BY Zenon, <2>5, <3>1
    <2>6. CASE ~(Level[local] <= SinkLevel[k])
      <3>1. \A i : i \in Admitted(k)' <=> i \in Admitted(k)
        BY Zenon, <1>1, <2>2, <2>3, <2>4, <2>6
      <3> QED BY Zenon, <2>6, <3>1
    <2> QED BY Zenon, <2>5, <2>6
  <1>3. \A k \in Sink : written'[k] = IF Registered(k) /\ Level[local] <= SinkLevel[k]
                                      THEN Append(written[k], local) ELSE written[k]
    BY Zenon DEF DDispatch, WriteSinks
  <1>4. ASSUME NEW k \in Sink
        PROVE IF Registered(k)' THEN Lists(written'[k], Admitted(k)', committed')
              ELSE written'[k] = <<>>
    <2>1. Registered(k)' <=> Registered(k)
      BY Zenon, <1>1 DEF Registered
    <2>2. CASE Registered(k) /\ Level[local] <= SinkLevel[k]
      <3>1. Lists(written[k], Admitted(k), committed) /\ written[k] \in Seq(Entry)
        BY Zenon, <2>2, SinkLists DEF TypeOK
      <3>2. IsFiniteSet(Admitted(k)) /\ \A i \in Admitted(k) : i \in Nat /\ i < n
        BY <1>1, AdmittedFinite DEF TypeOK
      <3>3. Lists(Append(written[k], local), Admitted(k) \cup {n}, committed)
        BY Zenon, <1>1, <3>1, <3>2, ListsAppend
      <3>4. Admitted(k)' = Admitted(k) \cup {n} /\ written'[k] = Append(written[k], local)
        BY Zenon, <1>2, <1>3, <2>2
      <3> QED BY Zenon, <1>1, <2>1, <2>2, <3>3, <3>4
    <2>3. CASE Registered(k) /\ ~(Level[local] <= SinkLevel[k])
      <3>1. Admitted(k)' = Admitted(k) /\ written'[k] = written[k]
        BY Zenon, <1>2, <1>3, <2>3
      <3> QED BY Zenon, <1>1, <2>1, <2>3, <3>1, SinkLists
    <2>4. CASE ~Registered(k)
      BY Zenon, <1>3, <2>1, <2>4, SinkLists
    <2> QED BY Zenon, <2>2, <2>3, <2>4
  <1>5. SinkOrder'
    BY Zenon, <1>4 DEF SinkOrder, Lists
  <1>6. Registrations'
    BY <1>1 DEF Registrations, TypeOK
  <1> QED BY Zenon, <1>5, <1>6

\* add_sink()
LEMMA SinksAdd ==
  ASSUME IInv, SinkInv, NEW s \in Sink, AddSink(s)
  PROVE SinkInv'
  <1> USE DEF IInv, SinkInv
  <1>1. /\ sinks' = Append(sinks, s) /\ since' = [since EXCEPT ![s] = Len(dispatched)]
        /\ ~Registered(s) /\ UNCHANGED <<committed, dispatched, written>>
    BY Zenon DEF AddSink, wVars, dVars
  <1>2. \A k \in Sink : Registered(k)' <=> Registered(k) \/ k = s
    <2>1. sinks \in Seq(Sink)
      BY Zenon DEF TypeOK
    <2>2. /\ \A i \in DOMAIN sinks : i \in DOMAIN sinks' /\ sinks'[i] = sinks[i]
          /\ \A i \in DOMAIN sinks' : sinks'[i] = s \/ (i \in DOMAIN sinks /\ sinks'[i] = sinks[i])
          /\ \E i \in DOMAIN sinks' : sinks'[i] = s
      BY ONLY <1>1, <2>1
    <2> QED BY Zenon, <2>2 DEF Registered
  <1>3. since'[s] = Len(dispatched) /\ \A k \in Sink \ {s} : since'[k] = since[k]
    BY Zenon, <1>1 DEF TypeOK
  <1>4. Lists(written'[s], Admitted(s)', committed')
    <2>1. Admitted(s)' = {}
      BY <1>1, <1>3 DEF Admitted, TypeOK
    <2>2. written'[s] = <<>>
      BY Zenon, <1>1, SinkLists
    <2>3. Len(<<>>) = 0 /\ Cardinality({}) = 0
      BY FS_EmptySet
    <2> QED BY Zenon, <2>1, <2>2, <2>3 DEF Lists
  <1>5. ASSUME NEW k \in Sink, k # s
        PROVE IF Registered(k)' THEN Lists(written'[k], Admitted(k)', committed')
              ELSE written'[k] = <<>>
    <2>1. Admitted(k)' = Admitted(k)
      BY Zenon, <1>1, <1>3, <1>5 DEF Admitted
    <2> QED BY Zenon, <1>1, <1>2, <1>5, <2>1, SinkLists
  <1>6. SinkOrder'
    BY Zenon, <1>2, <1>4, <1>5 DEF SinkOrder, Lists
  <1>7. Registrations'
    BY <1>1, <1>3 DEF Registrations, TypeOK
  <1> QED BY Zenon, <1>6, <1>7

\* A sink prints what its level admits of the entries dispatched since it was
\* registered: all of it, once, and in the order of commit(), for any sinks,
\* writers and controllers.
THEOREM LoggerSinkOrder == Spec => []SinkOrder
  <1>1. Init => SinkInv
    <2> SUFFICES ASSUME Init PROVE SinkInv
      BY Zenon
    <2>1. DOMAIN sinks = {} /\ Len(dispatched) = 0
      BY DEF Init
    <2>2. SinkOrder
      BY Zenon, <2>1 DEF Init, SinkOrder, Registered
    <2>3. Registrations
      BY <2>1 DEF Init, Registrations
    <2> QED BY Zenon, <2>2, <2>3 DEF SinkInv
  <1>2. IInv /\ SinkInv /\ [Next]_vars => SinkInv'
    <2> SUFFICES ASSUME IInv, SinkInv, [Next]_vars PROVE SinkInv'
      BY Zenon
    <2>1. CASE DDispatch
      BY Zenon, <2>1, SinksDispatch
    <2>2. CASE \E s \in Sink : AddSink(s)
      BY Zenon, <2>2, SinksAdd
    <2>3. CASE \E w \in Writer : WPublish(w)
      <3>1. UNCHANGED <<sinks, since, dispatched, written>> /\ \E e : committed' = Append(committed, e)
        BY Zenon, <2>3 DEF WPublish, dVars, cVars
      <3>2. \A i \in 1 .. Len(dispatched) : committed'[i] = committed[i]
        BY <3>1 DEF IInv, TypeOK, DispatchedInOrder
      <3> QED BY Zenon, <3>1, <3>2, SinksKept
    <2>4. CASE UNCHANGED <<sinks, since, dispatched, written, committed>>
      BY Zenon, <2>4, SinksKept
    <2> QED BY Zenon, <2>1, <2>2, <2>3, <2>4 DEF Next, WStep, WDrop, WReserve, WWrite, Log, DStep,
          DTest, DPoll, DFlush, DCopy, DAdvance, CStep, StartDrain, Spawn, StopDrain, StopAgain,
          Join, JoinNothing, AfterStop, SetLevel, vars, wVars, dVars, cVars
  <1> QED BY LoggerInductive, <1>1, <1>2, PTL DEF Spec, SinkInv
=============================================================================
