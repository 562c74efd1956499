------------------------- MODULE TypedMailboxProofs -------------------------
(***************************************************************************)
(* StaysInSync, for every registry, every size of the payload types and    *)
(* any length of the stream.  Two facts carry it: the stream is cut into   *)
(* frames of a header and, for a message, its body; and the buffer of      *)
(* receive_any_for() and clean() holds every message of the registry.      *)
(***************************************************************************)
EXTENDS TypedMailbox, MessageRegistryProofs

-----------------------------------------------------------------------------
(* A stream s of headers and bodies, for payload types P.  The reader has  *)
(* consumed the header of a message of type o and not its body, or o is    *)
(* None; the sender still owes the body of a message of type r, or r is    *)
(* None; w tells whether it will still write.                              *)

Part(P) == [part : {"header", "body"}, of : P \cup {"status", "empty"}]
Opens(p, P) == p.part = "header" /\ p.of \in P
Follows(p, q, P) == IF Opens(p, P) THEN q = body(p.of) ELSE q.part = "header"
Consumed(o) == IF o = None THEN header("empty") ELSE header(o)
Before(s, o, i) == IF i = 1 THEN Consumed(o) ELSE s[i - 1]
Aligned(s, o, r, w, P) ==
  /\ \A i \in 1 .. Len(s) : Follows(Before(s, o, i), s[i], P)
  /\ r # None => Before(s, o, Len(s) + 1) = header(r)
  /\ w /\ r = None => ~Opens(Before(s, o, Len(s) + 1), P)

LEMMA FirstPart ==
  ASSUME NEW s, NEW o
  PROVE Before(s, o, 1) = IF o = None THEN header("empty") ELSE header(o)
  BY Zenon DEF Before, Consumed

LEMMA AlignedAppend ==
  ASSUME NEW P, NEW s \in Seq(Part(P)), NEW o, NEW r, NEW u, NEW w, NEW q \in Part(P), Aligned(s, o, r, TRUE, P),
         Follows(Before(s, o, Len(s) + 1), q, P), u # None => q = header(u), u = None => ~Opens(q, P)
  PROVE Aligned(Append(s, q), o, u, w, P)
  <1>1. Len(s) \in Nat /\ Len(Append(s, q)) = Len(s) + 1
    OBVIOUS
  <1>2. Append(s, q)[Len(s) + 1] = q /\ \A i \in 1 .. Len(s) : Append(s, q)[i] = s[i]
    OBVIOUS
  <1>3. PICK t : t = Append(s, q)
    BY Zenon
  <1>4. \A i \in 1 .. Len(s) + 1 : Before(t, o, i) = Before(s, o, i)
    BY <1>1, <1>2, <1>3 DEF Before
  <1>5. ASSUME NEW i \in 1 .. Len(t) PROVE Follows(Before(t, o, i), t[i], P)
    <2>1. CASE i = Len(s) + 1
      BY Zenon, <1>1, <1>2, <1>3, <1>4, <2>1
    <2>2. CASE i \in 1 .. Len(s)
      <3>1. Before(t, o, i) = Before(s, o, i) /\ t[i] = s[i]
        BY <1>1, <1>2, <1>3, <1>4, <2>2
      <3> QED BY Zenon, <3>1, <2>2 DEF Aligned
    <2> QED BY <1>1, <1>3, <2>1, <2>2
  <1>6. Before(t, o, Len(t) + 1) = q
    BY <1>1, <1>2, <1>3 DEF Before
  <1>7. Aligned(t, o, u, w, P)
    BY Zenon, <1>5, <1>6 DEF Aligned
  <1> QED BY Zenon, <1>3, <1>7

\* The sender stops
LEMMA AlignedClose ==
  ASSUME NEW P, NEW s, NEW o, NEW r, NEW w, Aligned(s, o, r, w, P)
  PROVE Aligned(s, o, None, FALSE, P)
  BY Zenon DEF Aligned

LEMMA AlignedEmpty ==
  ASSUME NEW P, "empty" \notin P, NEW w
  PROVE Aligned(<<>>, None, None, w, P)
  <1>1. Before(<<>>, None, Len(<<>>) + 1) = header("empty")
    BY DEF Before, Consumed
  <1>2. ~Opens(header("empty"), P)
    BY DEF Opens, header
  <1> QED BY <1>1, <1>2 DEF Aligned

\* The reader consumes the first part, and owes the body of a message
LEMMA AlignedTail ==
  ASSUME NEW P, NEW s \in Seq(Part(P)), s # <<>>, NEW o, NEW r, r \in P \cup {None}, NEW w, NEW v,
         None \notin P, "status" \notin P, "empty" \notin P, Aligned(s, o, r, w, P),
         IF Opens(s[1], P) THEN v = s[1].of ELSE v = None
  PROVE Aligned(Tail(s), v, r, w, P)
  <1>1. PICK t : t = Tail(s)
    BY Zenon
  <1>2. Len(s) \in Nat /\ Len(s) > 0 /\ Len(t) = Len(s) - 1 /\ \A i \in 1 .. Len(t) : t[i] = s[i + 1]
    BY <1>1
  <1>3. s[1] \in Part(P)
    BY <1>2
  <1>4. /\ Opens(s[1], P) => Consumed(v) = s[1]
        /\ ~Opens(s[1], P) => Consumed(v) = header("empty")
    BY <1>3 DEF Consumed, Opens, header, Part
  <1>5. \A q : Follows(s[1], q, P) => Follows(Consumed(v), q, P)
    BY <1>4 DEF Follows, Opens, header
  <1>6. ASSUME NEW i \in 1 .. Len(t) PROVE Follows(Before(t, v, i), t[i], P)
    <2>1. Follows(Before(s, o, i + 1), s[i + 1], P) /\ t[i] = s[i + 1]
      BY <1>2 DEF Aligned
    <2>2. CASE i = 1
      BY <1>5, <2>1, <2>2 DEF Before
    <2>3. CASE i # 1
      <3>1. Before(t, v, i) = Before(s, o, i + 1)
        BY <1>2, <2>3 DEF Before
      <3> QED BY Zenon, <3>1, <2>1
    <2> QED BY Zenon, <2>2, <2>3
  <1>7. CASE Len(s) = 1
    <2>1. Before(t, v, Len(t) + 1) = Consumed(v) /\ Before(s, o, Len(s) + 1) = s[1]
      BY <1>2, <1>7 DEF Before
    <2>2. r # None => Opens(s[1], P) /\ s[1] = header(r)
      BY <2>1 DEF Aligned, Opens, header
    <2>3. ~Opens(header("empty"), P)
      BY DEF Opens, header
    <2> QED BY Zenon, <1>1, <1>4, <1>6, <2>1, <2>2, <2>3 DEF Aligned
  <1>8. CASE Len(s) # 1
    <2>1. Before(t, v, Len(t) + 1) = Before(s, o, Len(s) + 1)
      BY <1>2, <1>8 DEF Before
    <2> QED BY Zenon, <1>1, <1>6, <2>1 DEF Aligned
  <1> QED BY Zenon, <1>7, <1>8

-----------------------------------------------------------------------------
(* The mailbox                                                             *)

\* The type of the message whose header was read and whose body was not
Owed == IF call = None THEN None ELSE call.body
Compiled == defs \in Registries /\ reg = MessageDefsTuple(defs)
Socket ==
  /\ rx \in Seq(Part(Payloads)) /\ rest \in Payloads \cup {None}
  /\ link = "none" => rx = <<>> /\ rest = None
  /\ rest # None => Connected
\* A call under way: its buffer, and no message half read once the boundary is lost
Calling ==
  call # None =>
    /\ running /\ call = [kind |-> call.kind, timed |-> call.timed, body |-> call.body, cap |-> call.cap]
    /\ call.kind \in Payloads \cup {"any", "clean"} /\ call.body \in Payloads \cup {None}
    /\ call.timed \in BOOLEAN /\ call.cap \in Nat
    /\ call.kind \notin Payloads => call.cap = max_message_size(reg, Size)
    /\ lost # "no" => call.body = None
Framed ==
  /\ lost \in {"no", "typed receive", "early message"}
  /\ lost = "no" => Aligned(rx, Owed, rest, Connected, Payloads)
SyncInv == Compiled /\ Socket /\ Calling /\ Framed

LEMMA Registered ==
  ASSUME Compiled
  PROVE /\ defs \in Seq(Def(DOMAIN Size)) /\ reg \in Seq(Def(DOMAIN Size))
        /\ Payloads # {} /\ Payloads \subseteq DOMAIN Size
  <1>1. defs \in Seq(Definition) /\ defs # <<>>
    BY Zenon, TypedMailboxAssumption DEF Compiled
  <1>2. Definition \subseteq Def(DOMAIN Size)
    <2>1. 0 .. 2^16 - 1 \subseteq Nat
      OBVIOUS
    <2> QED BY Zenon, <2>1 DEF Definition, Def
  <1>3. defs \in Seq(Def(DOMAIN Size)) /\ 1 \in 1 .. Len(defs)
    BY <1>1, <1>2
  <1>4. PICK a \in Seq(Def(DOMAIN Size)) :
          /\ a = AutoAssignIDs(defs) /\ Len(a) = Len(defs) /\ MessageDefsTuple(defs) = ExpandReplies(a)
          /\ MessageDefsTuple(defs) \in Seq(Def(DOMAIN Size))
          /\ \A x : x \in ToSet(MessageDefsTuple(defs)) <=> \E k \in 1 .. Len(defs) : From(x, a[k])
    BY Zenon, <1>3, Registry
  <1>5. a[1] \in ToSet(reg)
    BY Zenon, <1>3, <1>4 DEF Compiled, From
  <1>6. reg \in Seq(Def(DOMAIN Size))
    BY Zenon, <1>4 DEF Compiled
  <1>7. \A x \in ToSet(reg) : x \in Def(DOMAIN Size)
    BY <1>6 DEF ToSet
  <1>8. \A x \in Def(DOMAIN Size) : x.payload \in DOMAIN Size
    BY Zenon DEF Def
  <1> QED BY Zenon, <1>3, <1>5, <1>6, <1>7, <1>8 DEF Payloads, PayloadTypes

LEMMA TypesApart ==
  ASSUME Compiled
  PROVE None \notin Payloads /\ "status" \notin Payloads /\ "empty" \notin Payloads
        /\ "any" \notin Payloads /\ "clean" \notin Payloads
  BY Zenon, Registered, TypedMailboxAssumption

\* A message fits the buffer of receive_any_for() and clean()
LEMMA Fit ==
  ASSUME Compiled
  PROVE /\ max_message_size(reg, Size) \in Nat
        /\ \A T \in Payloads : Size[T] \in Nat /\ ~(Size[T] > max_message_size(reg, Size))
  <1>1. \A T \in Payloads : Size[T] \in Nat
    BY Zenon, Registered, TypedMailboxAssumption
  <1>2. PICK N \in Nat : N = Len(reg)
    <2>1. Len(reg) \in Nat
      BY Registered
    <2> QED BY Zenon, <2>1
  <1>3. \A T : T \in Payloads <=> \E k \in 1 .. N : T = reg[k].payload
    <2>1. reg \in Seq(Def(DOMAIN Size))
      BY Zenon, Registered
    <2>2. \A d : d \in ToSet(reg) <=> \E k \in 1 .. N : d = reg[k]
      BY Zenon, <1>2, <2>1, Elements
    <2> QED BY Zenon, <2>2 DEF Payloads, PayloadTypes
  <1>4. PICK f : f = [k \in 1 .. N |-> Size[reg[k].payload]]
    BY Zenon
  <1>5. PICK top \in Nat : \A k \in 1 .. N : f[k] <= top
    BY Zenon, <1>1, <1>3, <1>4, Bounded
  <1>6. PICK S : S = {Size[U] : U \in Payloads}
    BY Zenon
  <1>7. S \in SUBSET Nat /\ \A n \in S : n <= top
    <2>1. ASSUME NEW n \in S PROVE n \in Nat /\ n <= top
      <3>1. PICK U \in Payloads : n = Size[U]
        BY Zenon, <1>6
      <3>2. PICK k \in 1 .. N : U = reg[k].payload
        BY Zenon, <1>3
      <3>3. n = f[k]
        BY Zenon, <1>4, <3>1, <3>2
      <3> QED BY Zenon, <1>1, <1>5, <3>1, <3>3
    <2> QED BY Zenon, <2>1
  <1>8. max_message_size(reg, Size) = Max(S)
    BY Zenon, <1>6 DEF max_message_size, Payloads
  <1>9. \A n \in S : Max(S) \in S /\ n <= Max(S)
    BY Zenon, <1>7, MaxBounds
  <1>10. PICK m \in Nat : m = Max(S)
    <2>1. S # {}
      BY Zenon, <1>6, Registered
    <2> QED BY Zenon, <1>7, <1>9, <2>1
  <1>11. ASSUME NEW T \in Payloads PROVE ~(Size[T] > max_message_size(reg, Size))
    <2>1. PICK k \in Nat : k = Size[T]
      BY Zenon, <1>1
    <2>2. k <= m
      BY Zenon, <1>6, <1>9, <1>10, <2>1
    <2>3. ~(k > m)
      BY <2>2
    <2> QED BY Zenon, <1>8, <1>10, <2>1, <2>3
  <1> QED BY Zenon, <1>1, <1>8, <1>10, <1>11

LEMMA SyncInit ==
  ASSUME Init
  PROVE SyncInv
  <1>1. /\ rx = <<>> /\ rest = None /\ call = None /\ lost = "no" /\ link = "none"
    BY Zenon DEF Init
  <1>2. Compiled
    BY Zenon DEF Init, Compiled
  <1>3. Socket
    BY <1>1 DEF Socket
  <1>4. Calling
    BY Zenon, <1>1 DEF Calling
  <1>5. Aligned(rx, Owed, rest, Connected, Payloads)
    BY Zenon, <1>1, <1>2, TypesApart, AlignedEmpty DEF Owed
  <1> QED BY Zenon, <1>1, <1>2, <1>3, <1>4, <1>5 DEF SyncInv, Framed

\* The router writes one part
LEMMA SyncAppend ==
  ASSUME SyncInv, Connected, NEW q \in Part(Payloads), rx' = Append(rx, q), NEW u \in Payloads \cup {None}, rest' = u,
         lost = "no" => Follows(Before(rx, Owed, Len(rx) + 1), q, Payloads),
         u # None => q = header(u), u = None => ~Opens(q, Payloads),
         UNCHANGED <<defs, reg, running, link, call, lost>>
  PROVE SyncInv'
  <1>1. Payloads' = Payloads /\ Owed' = Owed /\ Connected' /\ Compiled' /\ Calling'
    BY Zenon DEF Payloads, Owed, Connected, Compiled, Calling, SyncInv
  <1>2. rx \in Seq(Part(Payloads))
    BY Zenon DEF SyncInv, Socket
  <1>3. rx' \in Seq(Part(Payloads))
    BY <1>2
  <1>4. Socket'
    BY Zenon, <1>1, <1>3 DEF Socket, Connected
  <1>5. ASSUME lost = "no" PROVE Aligned(rx', Owed, u, Connected', Payloads)
    <2>1. Aligned(rx, Owed, rest, TRUE, Payloads)
      BY Zenon, <1>5 DEF SyncInv, Framed, Aligned
    <2> QED BY Zenon, <1>2, <1>5, <2>1, AlignedAppend
  <1>6. Framed'
    BY Zenon, <1>1, <1>5 DEF SyncInv, Framed
  <1> QED BY Zenon, <1>1, <1>4, <1>6 DEF SyncInv

LEMMA SyncRouter ==
  ASSUME SyncInv, Router
  PROVE SyncInv'
  <1>0. None \notin Payloads /\ "status" \notin Payloads /\ "empty" \notin Payloads
    BY Zenon, TypesApart DEF SyncInv
  <1>f. lost = "no" => Aligned(rx, Owed, rest, Connected, Payloads)
    BY Zenon DEF SyncInv, Framed
  <1>1. ASSUME NEW t \in {"status", "empty"}, RouterControl(t) PROVE SyncInv'
    <2>1. header(t) \in Part(Payloads) /\ ~Opens(header(t), Payloads) /\ header(t).part = "header"
      BY <1>0 DEF header, Part, Opens
    <2>2. /\ Connected /\ rx' = Append(rx, header(t)) /\ rest = None /\ rest' = None
          /\ UNCHANGED <<defs, reg, running, link, call, lost>>
      BY Zenon, <1>1 DEF RouterControl
    <2>3. lost = "no" => Follows(Before(rx, Owed, Len(rx) + 1), header(t), Payloads)
      BY Zenon, <1>f, <2>1, <2>2 DEF Aligned, Follows
    <2> QED BY Zenon, <2>1, <2>2, <2>3, SyncAppend
  <1>2. ASSUME NEW T \in Payloads, RouterHeader(T) PROVE SyncInv'
    <2>1. header(T) \in Part(Payloads) /\ header(T).part = "header"
      BY DEF header, Part
    <2>2. /\ Connected /\ rx' = Append(rx, header(T)) /\ rest = None /\ rest' = T
          /\ UNCHANGED <<defs, reg, running, link, call, lost>>
      BY Zenon, <1>2 DEF RouterHeader
    <2>3. lost = "no" => Follows(Before(rx, Owed, Len(rx) + 1), header(T), Payloads)
      BY Zenon, <1>f, <2>1, <2>2 DEF Aligned, Follows
    <2> QED BY Zenon, <1>0, <2>1, <2>2, <2>3, SyncAppend
  <1>3. CASE RouterBody
    <2>1. /\ Connected /\ rx' = Append(rx, body(rest)) /\ rest # None /\ rest' = None
          /\ UNCHANGED <<defs, reg, running, link, call, lost>> /\ rest \in Payloads
      BY Zenon, <1>3 DEF RouterBody, SyncInv, Socket
    <2>2. body(rest) \in Part(Payloads) /\ ~Opens(body(rest), Payloads)
      BY <2>1 DEF body, Part, Opens
    <2>3. Opens(header(rest), Payloads) /\ header(rest).of = rest
      BY <2>1 DEF Opens, header
    <2>4. lost = "no" => Follows(Before(rx, Owed, Len(rx) + 1), body(rest), Payloads)
      BY Zenon, <1>f, <2>1, <2>3 DEF Aligned, Follows
    <2> QED BY Zenon, <2>1, <2>2, <2>4, SyncAppend
  <1>4. CASE RouterCloses
    <2>1. link' = "eof" /\ rest' = None /\ UNCHANGED <<defs, reg, running, rx, call, lost>>
      BY Zenon, <1>4 DEF RouterCloses
    <2>2. Payloads' = Payloads /\ Owed' = Owed /\ Connected' = FALSE /\ Compiled' /\ Calling'
      BY <2>1 DEF Payloads, Owed, Connected, Compiled, Calling, SyncInv
    <2>3. Socket'
      BY Zenon, <2>1, <2>2 DEF SyncInv, Socket
    <2>4. lost = "no" => Aligned(rx, Owed, None, FALSE, Payloads)
      BY Zenon, <1>f, AlignedClose
    <2>5. Framed'
      BY Zenon, <2>1, <2>2, <2>4 DEF SyncInv, Framed
    <2> QED BY Zenon, <2>2, <2>3, <2>5 DEF SyncInv
  <1> QED BY Zenon, <1>1, <1>2, <1>3, <1>4 DEF Router

Losses == {"no", "typed receive", "early message"}

\* The socket is empty, and no body is owed
LEMMA SyncClear ==
  ASSUME SyncInv, UNCHANGED <<defs, reg>>, rx' = <<>>, rest' = None, Owed' = None, Calling', lost' \in Losses
  PROVE SyncInv'
  <1>1. Payloads' = Payloads /\ Compiled'
    BY Zenon DEF Payloads, Compiled, SyncInv
  <1>2. Socket'
    BY <1>1 DEF Socket
  <1>3. "empty" \notin Payloads
    BY Zenon, TypesApart DEF SyncInv
  <1>4. Aligned(<<>>, None, None, Connected', Payloads)
    BY Zenon, <1>3, AlignedEmpty
  <1>5. Framed'
    BY Zenon, <1>1, <1>4 DEF Framed, Losses
  <1> QED BY Zenon, <1>1, <1>2, <1>5 DEF SyncInv

\* The reader consumes one part
LEMMA SyncTail ==
  ASSUME SyncInv, UNCHANGED <<defs, reg, rest>>, rx # <<>>, rx' = Tail(rx), Connected' = Connected,
         link' # "none", Calling', lost' \in Losses,
         lost' = "no" => lost = "no" /\ IF Opens(rx[1], Payloads) THEN Owed' = rx[1].of ELSE Owed' = None
  PROVE SyncInv'
  <1>1. Payloads' = Payloads /\ Compiled'
    BY Zenon DEF Payloads, Compiled, SyncInv
  <1>2. rx \in Seq(Part(Payloads)) /\ rest \in Payloads \cup {None}
    BY Zenon DEF SyncInv, Socket
  <1>3. Tail(rx) \in Seq(Part(Payloads))
    BY <1>2
  <1>4. Socket'
    BY Zenon, <1>1, <1>2, <1>3 DEF Socket, SyncInv
  <1>5. None \notin Payloads /\ "status" \notin Payloads /\ "empty" \notin Payloads
    BY Zenon, TypesApart DEF SyncInv
  <1>6. ASSUME lost' = "no" PROVE Aligned(Tail(rx), Owed', rest, Connected, Payloads)
    <2>1. Aligned(rx, Owed, rest, Connected, Payloads)
      BY Zenon, <1>6 DEF SyncInv, Framed
    <2> QED BY Zenon, <1>2, <1>5, <1>6, <2>1, AlignedTail
  <1>7. Framed'
    BY Zenon, <1>1, <1>6 DEF Framed, Losses
  <1> QED BY Zenon, <1>1, <1>4, <1>7 DEF SyncInv

\* Nothing but the state of the sending thread, or the result, changes
LEMMA SyncQuiet ==
  ASSUME SyncInv, UNCHANGED <<defs, reg, running, link, rx, rest, call, lost>>
  PROVE SyncInv'
  <1>1. Payloads' = Payloads /\ Owed' = Owed /\ Connected' = Connected
    BY Zenon DEF Payloads, Owed, Connected
  <1> QED BY Zenon, <1>1 DEF SyncInv, Compiled, Socket, Calling, Framed

LEMMA SyncLife ==
  ASSUME SyncInv, Start \/ Stop \/ InitReply \/ InitFails
  PROVE SyncInv'
  <1>0. lost \in Losses
    BY Zenon DEF SyncInv, Framed, Losses
  <1>1. call = None /\ call' = None /\ UNCHANGED <<defs, reg>>
    BY Zenon DEF Start, Stop, InitReply, InitFails, SyncInv, Calling
  <1>2. Calling' /\ Owed' = None /\ Owed = None
    BY Zenon, <1>1 DEF Calling, Owed
  <1>3. CASE Start
    <2>1. rx' = <<>> /\ rest' = None /\ lost' \in Losses
      BY Zenon, <1>3 DEF Start, SyncInv, Socket, rxVars, Losses
    <2> QED BY Zenon, <1>1, <1>2, <2>1, SyncClear
  <1>4. CASE Stop \/ InitFails
    <2>1. rx' = <<>> /\ rest' = None /\ lost' \in Losses
      BY Zenon, <1>0, <1>4 DEF Stop, InitFails
    <2> QED BY Zenon, <1>1, <1>2, <2>1, SyncClear
  <1>5. CASE InitReply /\ Head(rx).of = "status"
    <2>1. rx' = <<>> /\ rest' = None /\ lost' \in Losses
      BY Zenon, <1>0, <1>5 DEF InitReply
    <2> QED BY Zenon, <1>1, <1>2, <2>1, SyncClear
  <1>6. CASE InitReply /\ Head(rx).of # "status"
    <2>1. /\ link \in {"registering", "eof"} /\ rx # <<>> /\ link' = (IF link = "eof" THEN "eof" ELSE "open")
          /\ rx' = Tail(rx) /\ lost' = (IF Head(rx).of \in Payloads THEN "early message" ELSE lost) /\ rest' = rest
      BY Zenon, <1>6 DEF InitReply
    <2>2. Connected' = Connected /\ link' # "none"
      <3>1. (link = "eof" /\ link' = "eof") \/ (link = "registering" /\ link' = "open")
        BY Zenon, <2>1
      <3>2. (Connected = FALSE /\ Connected' = FALSE) \/ (Connected = TRUE /\ Connected' = TRUE)
        BY <3>1 DEF Connected
      <3> QED BY Zenon, <3>1, <3>2
    <2>3. Head(rx) = rx[1]
      OBVIOUS
    <2>4. lost' \in Losses
      BY Zenon, <1>0, <2>1 DEF Losses
    <2>5. lost' = "no" => lost = "no" /\ ~Opens(rx[1], Payloads)
      BY <2>1, <2>3 DEF Opens
    <2> QED BY Zenon, <1>1, <1>2, <2>1, <2>2, <2>4, <2>5, SyncTail
  <1> QED BY Zenon, <1>3, <1>4, <1>5, <1>6

LEMMA SyncReceive ==
  ASSUME SyncInv, NEW k \in Payloads \cup {"any", "clean"}, NEW t \in BOOLEAN, Receive(k, t)
  PROVE SyncInv'
  <1>1. /\ running /\ call = None /\ UNCHANGED <<defs, reg, running, link, rx, rest, lost>>
        /\ call' = [kind |-> k, timed |-> t, body |-> None,
                    cap |-> IF k \in Payloads THEN Size[k] ELSE max_message_size(reg, Size)]
    BY Zenon DEF Receive, rxVars
  <1>2. Payloads' = Payloads /\ Connected' = Connected
    BY Zenon, <1>1 DEF Payloads, Connected
  <1>3. call'.body = None /\ call'.kind = k
        /\ call'.cap = (IF k \in Payloads THEN Size[k] ELSE max_message_size(reg, Size)) /\ call'.timed = t
    BY <1>1
  <1>4. Owed' = Owed
    BY Zenon, <1>1, <1>3 DEF Owed
  <1>5. call' = [kind |-> call'.kind, timed |-> call'.timed, body |-> call'.body, cap |-> call'.cap]
    BY Zenon, <1>1, <1>3
  <1>6. call'.cap \in Nat
    BY Zenon, <1>3, Fit DEF SyncInv
  <1>7. Calling'
    BY Zenon, <1>1, <1>2, <1>3, <1>5, <1>6 DEF Calling
  <1> QED BY Zenon, <1>1, <1>2, <1>4, <1>7 DEF SyncInv, Compiled, Socket, Framed

LEMMA SyncReader ==
  ASSUME SyncInv,
         PollTimeout \/ RecvFails \/ RecvControl \/ RecvHeader \/ RecvBody \/ RecvGarbage
  PROVE SyncInv'
  <1>0. None \notin Payloads /\ "status" \notin Payloads /\ "empty" \notin Payloads /\ lost \in Losses
    BY Zenon, TypesApart DEF SyncInv, Framed, Losses
  <1>1. /\ call # None /\ running /\ UNCHANGED <<defs, reg, running, link, rest>>
    <2>1. call # None /\ UNCHANGED <<defs, reg, running, link, rest>>
      BY Zenon DEF PollTimeout, RecvFails, RecvControl, RecvHeader, RecvBody, RecvGarbage, rxVars
    <2> QED BY Zenon, <2>1 DEF SyncInv, Calling
  <1>2. /\ Payloads' = Payloads /\ Connected' = Connected /\ Owed = call.body
        /\ call = [kind |-> call.kind, timed |-> call.timed, body |-> call.body, cap |-> call.cap]
    BY Zenon, <1>1 DEF Payloads, Connected, Owed, SyncInv, Calling
  <1>3. call' = None => Calling' /\ Owed' = None
    BY Zenon DEF Calling, Owed
  <1>4. rx # <<>> => link' # "none" /\ Head(rx) = rx[1] /\ 1 \in 1 .. Len(rx)
    <2>1. rx # <<>> => Head(rx) = rx[1] /\ 1 \in 1 .. Len(rx)
      BY DEF SyncInv, Socket
    <2> QED BY Zenon, <1>1, <2>1 DEF SyncInv, Socket
  <1>5. CASE PollTimeout
    <2>1. rx = <<>> /\ rx' = rx /\ call.body = None /\ call' = None /\ lost' = lost
      BY Zenon, <1>5 DEF PollTimeout, Return, rxVars
    <2>2. Owed' = Owed
      BY Zenon, <1>2, <1>3, <2>1
    <2> QED BY Zenon, <1>1, <1>2, <1>3, <2>1, <2>2 DEF SyncInv, Compiled, Socket, Framed
  <1>6. CASE RecvFails
    <2>1. rx = <<>> /\ rx' = rx /\ link = "eof" /\ call' = None /\ lost' = lost
      BY Zenon, <1>6 DEF RecvFails, Return, rxVars
    <2>2. rest' = None
      BY <1>1, <2>1 DEF SyncInv, Socket, Connected
    <2> QED BY Zenon, <1>0, <1>1, <1>3, <2>1, <2>2, SyncClear
  <1>7. CASE RecvControl
    <2>1. /\ call.body = None /\ rx # <<>> /\ Head(rx).of \in {"status", "empty"} /\ rx' = Tail(rx)
          /\ UNCHANGED <<call, lost>>
      BY Zenon, <1>7 DEF RecvControl
    <2>2. ~Opens(rx[1], Payloads)
      BY Zenon, <1>0, <1>4, <2>1 DEF Opens
    <2>3. Owed' = None /\ Calling'
      BY Zenon, <1>1, <1>2, <2>1 DEF Owed, Calling, SyncInv
    <2> QED BY Zenon, <1>0, <1>1, <1>2, <1>4, <2>1, <2>2, <2>3, SyncTail
  <1>8. CASE RecvHeader
    <2>1. /\ call.body = None /\ rx # <<>> /\ Head(rx).of \in Payloads /\ rx' = Tail(rx) /\ lost = "no"
          /\ IF Size[Head(rx).of] > call.cap
             THEN Return("too long") /\ lost' = IF call.kind \in Payloads THEN "typed receive" ELSE call.kind
             ELSE call' = [call EXCEPT !.body = Head(rx).of] /\ UNCHANGED <<result, lost>>
      BY Zenon, <1>8 DEF RecvHeader
    <2>2. CASE Size[Head(rx).of] > call.cap
      <3>1. call.kind \in Payloads
        BY Zenon, <1>1, <2>1, <2>2, Fit DEF SyncInv, Calling
      <3>2. call' = None /\ lost' = "typed receive"
        BY Zenon, <2>1, <2>2, <3>1 DEF Return
      <3> QED BY Zenon, <1>1, <1>2, <1>3, <1>4, <2>1, <3>2, SyncTail DEF Losses
    <2>3. CASE ~(Size[Head(rx).of] > call.cap)
      <3>1. PICK T \in Payloads : T = rx[1].of
        BY Zenon, <1>4, <2>1
      <3>2. call' = [call EXCEPT !.body = T] /\ lost' = lost
        BY Zenon, <1>4, <2>1, <2>3, <3>1
      <3>3. call' = [kind |-> call.kind, timed |-> call.timed, body |-> T, cap |-> call.cap]
        BY <1>2, <3>2
      <3>4. /\ call'.kind = call.kind /\ call'.timed = call.timed /\ call'.body = T /\ call'.cap = call.cap
        BY <3>3
      <3>5. call' # None
        <4>1. call.kind \in Payloads \cup {"any", "clean"} /\ call.timed \in BOOLEAN /\ call.cap \in Nat
          BY Zenon, <1>1 DEF SyncInv, Calling
        <4>2. Payloads \subseteq DOMAIN Size
          BY Zenon, Registered DEF SyncInv
        <4>3. call' \in [kind : DOMAIN Size \cup {"any", "clean"}, timed : BOOLEAN, body : DOMAIN Size \cup {None}, cap : Nat]
          BY Zenon, <3>3, <4>1, <4>2
        <4> QED BY Zenon, <4>3, TypedMailboxAssumption
      <3>6. Owed' = T
        BY Zenon, <3>4, <3>5 DEF Owed
      <3>7. Calling'
        BY Zenon, <1>1, <1>2, <2>1, <3>2, <3>3, <3>4 DEF Calling, SyncInv
      <3>8. 1 \in 1 .. Len(rx) /\ Before(rx, Owed, 1) = header("empty")
        <4>1. Owed = None /\ 1 \in 1 .. Len(rx)
          BY Zenon, <1>2, <1>4, <2>1
        <4> QED BY ONLY Zenon, <4>1, FirstPart
      <3>9. ~Opens(header("empty"), Payloads)
        BY <1>0 DEF Opens, header
      <3>10. rx[1].part = "header"
        BY Zenon, <2>1, <3>8, <3>9 DEF SyncInv, Framed, Aligned, Follows
      <3>11. Opens(rx[1], Payloads)
        BY Zenon, <3>1, <3>10 DEF Opens
      <3> QED BY Zenon, <1>0, <1>1, <1>2, <1>4, <2>1, <3>1, <3>2, <3>6, <3>7, <3>11, SyncTail
    <2> QED BY Zenon, <2>2, <2>3
  <1>9. CASE RecvBody
    <2>1. call.body # None /\ rx # <<>> /\ rx' = Tail(rx) /\ lost' = lost
      BY Zenon, <1>9 DEF RecvBody
    <2>2. lost = "no" /\ call.body \in Payloads
      BY Zenon, <1>1, <2>1 DEF SyncInv, Calling
    <2>3. 1 \in 1 .. Len(rx) /\ Before(rx, Owed, 1) = header(call.body)
      <3>1. Owed = call.body /\ call.body # None /\ 1 \in 1 .. Len(rx)
        BY Zenon, <1>2, <1>4, <2>1
      <3> QED BY ONLY Zenon, <3>1, FirstPart
    <2>4. Opens(header(call.body), Payloads) /\ header(call.body).of = call.body
      BY <2>2 DEF Opens, header
    <2>5. rx[1] = body(call.body)
      BY Zenon, <2>2, <2>3, <2>4 DEF SyncInv, Framed, Aligned, Follows
    <2>6. ~Opens(rx[1], Payloads)
      BY <2>5 DEF Opens, body
    <2>7. call' = None \/ call' = [call EXCEPT !.body = None]
      BY Zenon, <1>9 DEF RecvBody, Return
    <2>8. CASE call' = None
      BY Zenon, <1>0, <1>1, <1>2, <1>3, <1>4, <2>1, <2>2, <2>6, <2>8, SyncTail
    <2>9. CASE call' = [call EXCEPT !.body = None]
      <3>1. call' = [kind |-> call.kind, timed |-> call.timed, body |-> None, cap |-> call.cap]
        BY <1>2, <2>9
      <3>2. /\ call'.kind = call.kind /\ call'.timed = call.timed /\ call'.body = None /\ call'.cap = call.cap
        BY <3>1
      <3>3. Owed' = None
        BY Zenon, <3>2 DEF Owed
      <3>4. Calling'
        BY Zenon, <1>1, <1>2, <2>1, <3>1, <3>2 DEF Calling, SyncInv
      <3> QED BY Zenon, <1>0, <1>1, <1>2, <1>4, <2>1, <2>2, <2>6, <3>3, <3>4, SyncTail
    <2> QED BY Zenon, <2>7, <2>8, <2>9
  <1>10. CASE RecvGarbage
    <2>1. lost # "no" /\ rx # <<>> /\ rx' = Tail(rx) /\ lost' = lost /\ (call' = None \/ call' = call)
      BY Zenon, <1>10 DEF RecvGarbage, Return
    <2>2. Calling'
      BY Zenon, <1>1, <1>2, <1>3, <2>1 DEF Calling, SyncInv
    <2> QED BY Zenon, <1>0, <1>1, <1>2, <1>4, <2>1, <2>2, SyncTail
  <1> QED BY Zenon, <1>5, <1>6, <1>7, <1>8, <1>9, <1>10

LEMMA SyncNext ==
  ASSUME SyncInv, [Next]_vars
  PROVE SyncInv'
  <1>1. CASE UNCHANGED vars
    BY Zenon, <1>1, SyncQuiet DEF vars, rxVars
  <1>2. CASE Router
    BY Zenon, <1>2, SyncRouter
  <1>3. CASE Reader
    BY Zenon, <1>3, SyncReader, SyncLife DEF Reader
  <1>4. CASE Application
    <2>1. ASSUME NEW T, SendHeader(T) PROVE SyncInv'
      BY Zenon, <2>1, SyncQuiet DEF SendHeader, rxVars
    <2> QED BY Zenon, <1>4, <2>1, SyncLife, SyncReceive DEF Application, send_reply
  <1>5. CASE SendBody
    BY Zenon, <1>5, SyncQuiet DEF SendBody, rxVars
  <1> QED BY Zenon, <1>1, <1>2, <1>3, <1>4, <1>5 DEF Next

\* StaysInSync: for every registry and any sizes of its types, the reader loses
\* the frame boundary only in a receive<T>() that meets a longer message, or
\* with a message that comes before the answer to the registration; until then
\* it takes headers for headers and each body for that of its own header.
THEOREM MailboxStaysInSync == Spec => []StaysInSync
  <1>1. Init => SyncInv
    BY Zenon, SyncInit
  <1>2. SyncInv /\ [Next]_vars => SyncInv'
    BY Zenon, SyncNext
  <1>3. SyncInv => StaysInSync
    <2> SUFFICES ASSUME SyncInv, lost = "no", call # None, rx # <<>>
                 PROVE IF call.body = None THEN Head(rx).part = "header" ELSE Head(rx) = body(call.body)
      BY Zenon DEF StaysInSync, SyncInv, Framed
    <2>1. 1 \in 1 .. Len(rx) /\ Head(rx) = rx[1] /\ Owed = call.body
      BY DEF SyncInv, Socket, Owed
    <2>2. Follows(Before(rx, Owed, 1), rx[1], Payloads)
      BY Zenon, <2>1 DEF SyncInv, Framed, Aligned
    <2>3. Before(rx, Owed, 1) = IF call.body = None THEN header("empty") ELSE header(call.body)
      BY ONLY Zenon, <2>1, FirstPart
    <2>4. "empty" \notin Payloads /\ (call.body # None => call.body \in Payloads)
      BY Zenon, TypesApart DEF SyncInv, Calling
    <2> QED BY <2>1, <2>2, <2>3, <2>4 DEF Follows, Opens, header
  <1> QED BY <1>1, <1>2, <1>3, PTL DEF Spec

-----------------------------------------------------------------------------
(* What the visitor gets                                                   *)

Visited == result.sent # None => result.sent \in Payloads /\ result.seen = Visit(result.sent)

LEMMA ReturnsNothing ==
  ASSUME NEW why, Return(why)
  PROVE result'.sent = None
  BY DEF Return, Nothing

LEMMA VisitedNext ==
  ASSUME SyncInv, Visited, [Next]_vars
  PROVE Visited'
  <1>1. /\ reg' = reg
        /\ \/ result' = result \/ result' = Nothing \/ \E why : Return(why)
           \/ RecvBody /\ call.kind # "clean"
                       /\ result' = IF call.kind = "any"
                            THEN [code |-> "ok", why |-> "none", sent |-> call.body, seen |-> Visit(call.body)]
                            ELSE [code |-> "ok", why |-> "none", sent |-> None, seen |-> call.kind]
    <2>1. CASE Router \/ SendBody \/ UNCHANGED vars
      BY Zenon, <2>1 DEF Router, RouterControl, RouterHeader, RouterBody, RouterCloses, SendBody, vars
    <2>2. CASE Application
      BY Zenon, <2>2 DEF Application, Start, Stop, Receive, SendHeader, send_reply
    <2>3. CASE Reader
      <3>1. CASE RecvBody
        BY Zenon, <3>1 DEF RecvBody
      <3>2. CASE ~RecvBody
        BY Zenon, <2>3, <3>2 DEF Reader, InitReply, InitFails, PollTimeout, RecvFails, RecvControl, RecvHeader, RecvGarbage
      <3> QED BY Zenon, <3>1, <3>2
    <2> QED BY Zenon, <2>1, <2>2, <2>3 DEF Next
  <1>2. Payloads' = Payloads /\ \A T : Visit(T)' = Visit(T)
    BY Zenon, <1>1 DEF Payloads, Visit
  <1>3. CASE result' = result
    BY Zenon, <1>1, <1>3 DEF Visited, Payloads, Visit
  <1>4. CASE result' = Nothing \/ \E why : Return(why)
    <2>1. Nothing.sent = None
      BY DEF Nothing
    <2>2. result'.sent = None
      BY Zenon, <1>4, <2>1, ReturnsNothing
    <2> QED BY Zenon, <2>2 DEF Visited
  <1>5. CASE RecvBody /\ call.kind # "clean"
             /\ result' = IF call.kind = "any"
                  THEN [code |-> "ok", why |-> "none", sent |-> call.body, seen |-> Visit(call.body)]
                  ELSE [code |-> "ok", why |-> "none", sent |-> None, seen |-> call.kind]
    <2>1. call.body \in Payloads
      BY Zenon, <1>5 DEF RecvBody, SyncInv, Calling
    <2>2. CASE call.kind = "any"
      <3>1. result'.sent = call.body /\ result'.seen = Visit(call.body)
        BY <1>5, <2>2
      <3>2. result'.sent \in Payloads' /\ result'.seen = PayloadTypeFor(reg', get_message_id(reg', result'.sent))
        BY Zenon, <1>1, <2>1, <3>1 DEF Visit, Payloads
      <3> QED BY Zenon, <3>2 DEF Visited, Visit
    <2>3. CASE call.kind # "any"
      <3>1. result'.sent = None
        BY <1>5, <2>3
      <3> QED BY Zenon, <3>1 DEF Visited
    <2> QED BY Zenon, <2>2, <2>3
  <1> QED BY Zenon, <1>1, <1>3, <1>4, <1>5

\* The definitions of an orderly registry
LEMMA OrderlyRegistry ==
  ASSUME Compiled, Orderly(defs)
  PROVE reg \in Seq(Def(DOMAIN Size)) /\ Numbered(reg) /\ None \notin ToSet(reg)
  <1>1. reg \in Seq(Def(DOMAIN Size)) /\ Numbered(reg)
    BY Zenon, Registered, Numbering DEF Compiled
  <1>2. ASSUME NEW d \in ToSet(reg) PROVE d \in Definition
    <2>1. d \in Def(DOMAIN Size)
      BY <1>1 DEF ToSet
    <2>2. d.local_id \in 0 .. 2^16 - 1
      <3>1. d.local_id \in 1 .. 2^16 - 1
        BY Zenon, <1>1 DEF Numbered
      <3> QED BY <3>1
    <2> QED BY Zenon, <2>1, <2>2 DEF Def, Definition
  <1> QED BY Zenon, <1>1, <1>2, TypedMailboxAssumption

\* VisitedAsSent: whatever the registry, as long as it is orderly, and whatever
\* frames came before, receive_any_for() hands the visitor each message as a value
\* of the payload type it was sent as.
THEOREM MailboxVisitsAsSent == Spec => []VisitedAsSent
  <1>1. Init => SyncInv /\ Visited
    <2>1. Nothing.sent = None
      BY DEF Nothing
    <2> QED BY Zenon, <2>1, SyncInit DEF Init, Visited
  <1>2. SyncInv /\ Visited /\ [Next]_vars => (SyncInv /\ Visited)'
    BY Zenon, SyncNext, VisitedNext
  <1>3. SyncInv /\ Visited => VisitedAsSent
    <2> SUFFICES ASSUME SyncInv, Visited, Orderly(defs), result.sent # None PROVE result.seen = result.sent
      BY Zenon DEF VisitedAsSent
    <2>1. reg \in Seq(Def(DOMAIN Size)) /\ Numbered(reg) /\ None \notin ToSet(reg)
      BY Zenon, OrderlyRegistry DEF SyncInv
    <2>2. PICK T \in PayloadTypes(reg) : T = result.sent /\ result.seen = Visit(T)
      BY Zenon DEF Visited, Payloads
    <2>3. PayloadTypeFor(reg, get_message_id(reg, T)) = T
      BY Zenon, <2>1, VisitsWhatWasSent
    <2> QED BY Zenon, <2>2, <2>3 DEF Visit
  <1> QED BY <1>1, <1>2, <1>3, PTL DEF Spec

\* RepliesPaired: in an orderly registry of any length, filter_replies gives
\* the replies of filter_requests in their order, with the ids is_reply looks
\* for; and with payload types used once, send_reply() sends the type whose id
\* is the negated id of the request.
THEOREM MailboxRepliesPaired == Spec => []RepliesPaired
  <1>1. Init => SyncInv
    BY Zenon, SyncInit
  <1>2. SyncInv /\ [Next]_vars => SyncInv'
    BY Zenon, SyncNext
  <1>3. SyncInv => RepliesPaired
    <2> SUFFICES ASSUME SyncInv, Orderly(defs) PROVE RepliesPaired
      BY Zenon DEF RepliesPaired
    <2>1. defs \in Seq(Def(DOMAIN Size)) /\ reg = MessageDefsTuple(defs)
      BY Zenon, Registered DEF SyncInv, Compiled
    <2>2. filter_replies(reg) = Replies(filter_requests(reg))
      BY Zenon, <2>1, RepliesOfRequests
    <2>3. filter_replies(reg) = FilterTuple(reg, {d \in ToSet(reg) : is_reply(d)})
      BY Zenon, <2>1, RepliesOfRequests
    <2>4. IsInjective([k \in DOMAIN reg |-> reg[k].payload]) =>
             \A T \in PayloadTypes(reg) : IsRequestPayload(reg, T) =>
               /\ GetReplyPayloadFor(reg, T) \in PayloadTypes(reg)
               /\ FindMessageDef(reg, GetReplyPayloadFor(reg, T)).local_id + FindMessageDef(reg, T).local_id = 2^16
      BY Zenon, <2>1, RepliesOfRequests
    <2> QED BY Zenon, <2>2, <2>3, <2>4 DEF RepliesPaired, Replies, Payloads
  <1> QED BY <1>1, <1>2, <1>3, PTL DEF Spec
=============================================================================
