------------------------ MODULE EvlRouterDataProofs -------------------------
(***************************************************************************)
(* The messages in EvlRouter: for every number of connections, xbufs and   *)
(* messages, one on its way is in one ring or in the hands of one thread,  *)
(* and one whose fate is settled is nowhere.                               *)
(***************************************************************************)
EXTENDS EvlRouterProofs, FiniteSetTheorems

\* Labels of connection and reader threads with a message in hand
Carrying == {"forward", "write", "upstream"}
Fetched == {"find", "forward"}

\* The messages in each place where messages may be
Kind == {"in", "out", "reader", "thread"}
Where == Evl \cup Xbuf \cup Peer
Content(t, x) ==
  IF t = "in" THEN (IF x \in Evl THEN Within(inbound[x]) ELSE {})
  ELSE IF t = "out" THEN (IF x \in Evl THEN Within(outbound[x]) ELSE {})
  ELSE IF t = "reader" THEN (IF x \in Xbuf /\ rpc[x] \in Fetched THEN {rmsg[x]} ELSE {})
  ELSE IF x \in Peer /\ pc[x] \in Carrying THEN {frame[x].data} ELSE {}

\* A message is in one place while it is routed, and nowhere else.
Located ==
  /\ \A d \in Data, t, u \in Kind, x, y \in Where :
       d \in Content(t, x) /\ d \in Content(u, y) => t = u /\ x = y
  /\ \A d \in Data : fate[d] = "routing" <=> \E t \in Kind, x \in Where : d \in Content(t, x)

\* No message is twice in a ring.
Single(q) == \A i, j \in 1 .. Len(q) : q[i] = q[j] => i = j
Singles == \A m \in Evl : Single(inbound[m]) /\ Single(outbound[m])

DataTypes ==
  /\ inbound \in [Evl -> Seq(Data)] /\ fate = [d \in Data |-> fate[d]]
  /\ \A t \in Kind, x \in Where : Content(t, x) \subseteq Data

CopyInv == DataTypes /\ Singles /\ Located

\* What a message added to a ring changes
LEMMA WithinAppend ==
  ASSUME NEW q \in Seq(Data), NEW d \in Data
  PROVE /\ \A e : e \in Within(Append(q, d)) <=> e = d \/ e \in Within(q)
        /\ Single(q) /\ d \notin Within(q) => Single(Append(q, d))
  <1> DEFINE p == Append(q, d)
             n == Len(p)
  <1>1. n \in 1 .. n /\ p[n] = d
    OBVIOUS
  <1>2. \A i \in 1 .. Len(q) : i \in 1 .. n /\ p[i] = q[i]
    OBVIOUS
  <1>3. \A i \in 1 .. n : i = n \/ i \in 1 .. Len(q)
    OBVIOUS
  <1> HIDE DEF p
  <1>4. \A e : e \in Within(p) <=> e = d \/ e \in Within(q)
    BY Zenon, <1>1, <1>2, <1>3 DEF Within
  <1>5. ASSUME Single(q), d \notin Within(q) PROVE Single(p)
    <2> SUFFICES ASSUME NEW i \in 1 .. n, NEW j \in 1 .. n, p[i] = p[j] PROVE i = j
      BY Zenon DEF Single
    <2>1. \A h \in 1 .. Len(q) : p[h] = q[h] /\ q[h] \in Within(q)
      BY Zenon, <1>2 DEF Within
    <2>2. CASE i \in 1 .. Len(q) /\ j \in 1 .. Len(q)
      BY Zenon, <1>5, <2>1, <2>2 DEF Single
    <2>3. CASE i = n /\ j \in 1 .. Len(q)
      BY Zenon, <1>1, <1>5, <2>1, <2>3
    <2>4. CASE i \in 1 .. Len(q) /\ j = n
      BY Zenon, <1>1, <1>5, <2>1, <2>4
    <2> QED BY Zenon, <1>3, <2>2, <2>3, <2>4
  <1> QED BY Zenon, <1>4, <1>5 DEF p

\* What a message taken from a ring changes
LEMMA WithinTail ==
  ASSUME NEW q \in Seq(Data), q # <<>>, Single(q)
  PROVE /\ Tail(q) \in Seq(Data) /\ Single(Tail(q)) /\ Head(q) \in Within(q) /\ Head(q) \in Data
        /\ \A e : e \in Within(Tail(q)) <=> e # Head(q) /\ e \in Within(q)
  <1> DEFINE p == Tail(q)
  <1>0. Tail(q) \in Seq(Data) /\ Head(q) \in Data
    OBVIOUS
  <1>1. 1 \in 1 .. Len(q) /\ Head(q) = q[1]
    OBVIOUS
  <1>2. \A i \in 1 .. Len(p) : i + 1 \in 1 .. Len(q) /\ i + 1 # 1 /\ p[i] = q[i + 1]
    OBVIOUS
  <1>3. \A j \in 1 .. Len(q) : q[j] = Head(q) \/ \E i \in 1 .. Len(p) : q[j] = p[i]
    <2> SUFFICES ASSUME NEW j \in 1 .. Len(q), j # 1 PROVE \E i \in 1 .. Len(p) : q[j] = p[i]
      BY Zenon, <1>1
    <2>1. j - 1 \in 1 .. Len(p) /\ q[j] = p[j - 1]
      OBVIOUS
    <2> QED BY Zenon, <2>1
  <1>4. \A i, j \in 1 .. Len(p) : i + 1 = j + 1 => i = j
    OBVIOUS
  <1> HIDE DEF p
  <1>5. Head(q) \in Within(q)
    BY Zenon, <1>1 DEF Within
  <1>6. Single(p)
    <2> SUFFICES ASSUME NEW i \in 1 .. Len(p), NEW j \in 1 .. Len(p), p[i] = p[j] PROVE i = j
      BY Zenon DEF Single
    <2>1. /\ i + 1 \in 1 .. Len(q) /\ p[i] = q[i + 1]
          /\ j + 1 \in 1 .. Len(q) /\ p[j] = q[j + 1]
      BY Zenon, <1>2
    <2>2. q[i + 1] = q[j + 1]
      BY Zenon, <2>1
    <2>3. i + 1 = j + 1
      BY Zenon, <2>1, <2>2 DEF Single
    <2> QED BY Zenon, <1>4, <2>3
  <1>7. Head(q) \notin Within(p)
    <2> SUFFICES ASSUME NEW i \in 1 .. Len(p), p[i] = Head(q) PROVE FALSE
      BY Zenon DEF Within
    <2>1. i + 1 \in 1 .. Len(q) /\ i + 1 # 1 /\ q[i + 1] = q[1]
      BY Zenon, <1>1, <1>2
    <2> QED BY Zenon, <1>1, <2>1 DEF Single
  <1>8. \A e : e \in Within(p) => e \in Within(q)
    BY Zenon, <1>2 DEF Within
  <1>9. \A e : e \in Within(q) => e \in Within(p) \/ e = Head(q)
    BY Zenon, <1>3 DEF Within
  <1> QED BY Zenon, <1>0, <1>5, <1>6, <1>7, <1>8, <1>9 DEF p

LEMMA WithinNone == Within(<<>>) = {} /\ Single(<<>>)
  BY DEF Within, Single

-----------------------------------------------------------------------------
(* Steps, by what they do to the places.                                   *)

\* No message moves; one that was nowhere may be lost
Stays ==
  /\ \A t \in Kind, x \in Where : Content(t, x)' = Content(t, x)
  /\ \A d \in Data : fate'[d] = "routing" <=> fate[d] = "routing"
LEMMA Still == ASSUME Located, Stays PROVE Located'
  <1>0. ASSUME NEW d, NEW t \in Kind, NEW x \in Where PROVE d \in Content(t, x)' <=> d \in Content(t, x)
    BY Zenon DEF Stays
  <1>1. ASSUME NEW d \in Data, NEW t \in Kind, NEW u \in Kind, NEW x \in Where, NEW y \in Where,
               d \in Content(t, x)', d \in Content(u, y)'
        PROVE t = u /\ x = y
    <2>1. d \in Content(t, x) /\ d \in Content(u, y)
      BY Zenon, <1>0, <1>1
    <2> QED BY <2>1 DEF Located
  <1>2. ASSUME NEW d \in Data
        PROVE fate'[d] = "routing" <=> \E t \in Kind, x \in Where : d \in Content(t, x)'
    <2>1. fate[d] = "routing" <=> \E t \in Kind, x \in Where : d \in Content(t, x)
      BY Zenon DEF Located
    <2> QED BY <1>0, <2>1 DEF Stays
  <1> QED BY <1>1, <1>2 DEF Located

\* Messages are taken from one place, and their fate is settled
Drops(t, c) ==
  /\ \A u \in Kind, x \in Where : (u = t /\ x = c) \/ Content(u, x)' = Content(u, x)
  /\ \A d : d \in Content(t, c)' => d \in Content(t, c)
  /\ \A d \in Data :
       IF d \in Content(t, c) /\ d \notin Content(t, c)' THEN fate'[d] # "routing"
       ELSE fate'[d] = fate[d]
LEMMA Dropped ==
  ASSUME Located, NEW t \in Kind, NEW c \in Where, Drops(t, c)
  PROVE Located'
  <1>1. ASSUME NEW d, NEW u \in Kind, NEW x \in Where, d \in Content(u, x)' PROVE d \in Content(u, x)
    BY Zenon, <1>1 DEF Drops
  <1>2. ASSUME NEW d \in Data, NEW v \in Kind, NEW u \in Kind, NEW y \in Where, NEW x \in Where,
               d \in Content(v, y)', d \in Content(u, x)'
        PROVE v = u /\ y = x
    <2>1. d \in Content(v, y) /\ d \in Content(u, x)
      BY Zenon, <1>1, <1>2
    <2> QED BY Zenon, <2>1 DEF Located
  <1>3. ASSUME NEW d \in Data
        PROVE fate'[d] = "routing" <=> \E u \in Kind, x \in Where : d \in Content(u, x)'
    <2>1. CASE d \in Content(t, c) /\ d \notin Content(t, c)'
      <3>1. fate'[d] # "routing"
        BY Zenon, <2>1 DEF Drops
      <3>2. \A u \in Kind, x \in Where : d \notin Content(u, x)'
        <4> SUFFICES ASSUME NEW u \in Kind, NEW x \in Where, d \in Content(u, x)' PROVE FALSE
          BY Zenon
        <4>1. d \in Content(u, x)
          BY <1>1
        <4>2. u = t /\ x = c
          BY Zenon, <2>1, <4>1 DEF Located
        <4> QED BY Zenon, <2>1, <4>2
      <3> QED BY Zenon, <3>1, <3>2
    <2>2. CASE d \notin Content(t, c) \/ d \in Content(t, c)'
      <3>1. fate'[d] = fate[d]
        BY Zenon, <2>2 DEF Drops
      <3>2. \A u \in Kind, x \in Where : d \in Content(u, x) => d \in Content(u, x)'
        BY Zenon, <2>2 DEF Drops
      <3>3. fate[d] = "routing" <=> \E u \in Kind, x \in Where : d \in Content(u, x)
        BY Zenon DEF Located
      <3> QED BY Zenon, <1>1, <3>1, <3>2, <3>3
    <2> QED BY Zenon, <2>1, <2>2
  <1> QED BY <1>2, <1>3 DEF Located

\* A message is added to one place, and taken from where it was, if anywhere
MovesTo(t, c, d) ==
  /\ \A u \in Kind, x \in Where, e \in Data :
       e \in Content(u, x)' <=> \/ u = t /\ x = c /\ e = d
                                \/ e # d /\ e \in Content(u, x)
  /\ fate'[d] = "routing" /\ \A e \in Data \ {d} : fate'[e] = fate[e]
LEMMA Moved ==
  ASSUME Located, NEW t \in Kind, NEW c \in Where, NEW d \in Data, MovesTo(t, c, d)
  PROVE Located'
  <1>1. ASSUME NEW e \in Data, NEW v \in Kind, NEW u \in Kind, NEW y \in Where, NEW x \in Where,
               e \in Content(v, y)', e \in Content(u, x)'
        PROVE v = u /\ y = x
    <2>1. CASE e = d
      BY Zenon, <1>1, <2>1 DEF MovesTo
    <2>2. CASE e # d
      <3>1. e \in Content(v, y) /\ e \in Content(u, x)
        BY Zenon, <1>1, <2>2 DEF MovesTo
      <3> QED BY Zenon, <3>1 DEF Located
    <2> QED BY Zenon, <2>1, <2>2
  <1>2. ASSUME NEW e \in Data
        PROVE fate'[e] = "routing" <=> \E u \in Kind, x \in Where : e \in Content(u, x)'
    <2>1. CASE e = d
      BY Zenon, <2>1 DEF MovesTo
    <2>2. CASE e # d
      <3>1. fate'[e] = fate[e] /\ \A u \in Kind, x \in Where : e \in Content(u, x)' <=> e \in Content(u, x)
        BY Zenon, <2>2 DEF MovesTo
      <3> QED BY Zenon, <3>1 DEF Located
    <2> QED BY Zenon, <2>1, <2>2
  <1> QED BY <1>1, <1>2 DEF Located

\* A message that was nowhere enters in one place
Enters(t, c, d) ==
  /\ fate[d] # "routing" /\ fate'[d] = "routing" /\ \A e \in Data \ {d} : fate'[e] = fate[e]
  /\ \A u \in Kind, x \in Where : (u = t /\ x = c) \/ Content(u, x)' = Content(u, x)
  /\ \A e : e \in Content(t, c)' <=> e = d \/ e \in Content(t, c)
LEMMA Entered ==
  ASSUME Located, NEW t \in Kind, NEW c \in Where, NEW d \in Data, Enters(t, c, d)
  PROVE Located'
  <1>1. \A u \in Kind, x \in Where : d \notin Content(u, x)
    BY DEF Located, Enters
  <1>2. ASSUME NEW u \in Kind, NEW x \in Where, NEW e \in Data
        PROVE e \in Content(u, x)' <=> \/ u = t /\ x = c /\ e = d
                                       \/ e # d /\ e \in Content(u, x)
    <2>1. CASE u = t /\ x = c
      BY Zenon, <1>1, <2>1 DEF Enters
    <2>2. CASE ~(u = t /\ x = c)
      <3>1. Content(u, x)' = Content(u, x)
        BY Zenon, <2>2 DEF Enters
      <3> QED BY Zenon, <1>1, <2>2, <3>1
    <2> QED BY Zenon, <2>1, <2>2
  <1>3. \A u \in Kind, x \in Where, e \in Data :
          e \in Content(u, x)' <=> \/ u = t /\ x = c /\ e = d
                                   \/ e # d /\ e \in Content(u, x)
    BY Zenon, <1>2
  <1>4. MovesTo(t, c, d)
    BY Zenon, <1>3 DEF MovesTo, Enters
  <1> QED BY Zenon, <1>4, Moved

\* A message is passed from one place to another
Passes(t, c, u, x, d) ==
  /\ d \in Content(t, c) /\ ~(t = u /\ c = x)
  /\ \A v \in Kind, y \in Where :
       (v = t /\ y = c) \/ (v = u /\ y = x) \/ Content(v, y)' = Content(v, y)
  /\ \A e : e \in Content(t, c)' <=> e # d /\ e \in Content(t, c)
  /\ \A e : e \in Content(u, x)' <=> e = d \/ e \in Content(u, x)
  /\ \A e \in Data : fate'[e] = fate[e]
LEMMA Passed ==
  ASSUME Located, NEW t \in Kind, NEW u \in Kind, NEW c \in Where, NEW x \in Where, NEW d \in Data,
         Passes(t, c, u, x, d)
  PROVE Located'
  <1> USE DEF Passes
  <1>1. fate'[d] = "routing"
    BY DEF Located
  <1>2. ASSUME NEW v \in Kind, NEW y \in Where, NEW e \in Data
        PROVE e \in Content(v, y)' <=> \/ v = u /\ y = x /\ e = d
                                       \/ e # d /\ e \in Content(v, y)
    <2>1. CASE v = t /\ y = c
      BY Zenon, <2>1
    <2>2. CASE v = u /\ y = x
      BY Zenon, <2>2
    <2>3. CASE ~(v = t /\ y = c) /\ ~(v = u /\ y = x)
      <3>1. Content(v, y)' = Content(v, y)
        BY Zenon, <2>3
      <3>2. d \notin Content(v, y)
        BY <2>3 DEF Located
      <3> QED BY Zenon, <2>3, <3>1, <3>2
    <2> QED BY Zenon, <2>1, <2>2, <2>3
  <1>3. \A e \in Data \ {d} : fate'[e] = fate[e]
    BY Zenon
  <1>4. \A v \in Kind, y \in Where, e \in Data :
          e \in Content(v, y)' <=> \/ v = u /\ y = x /\ e = d
                                   \/ e # d /\ e \in Content(v, y)
    BY Zenon, <1>2
  <1>5. MovesTo(u, x, d)
    BY Zenon, <1>1, <1>3, <1>4 DEF MovesTo
  <1> QED BY Zenon, <1>5, Moved

\* The types of what a step leaves behind
Tidy == inbound' \in [Evl -> Seq(Data)] /\ fate' = [d \in Data |-> fate'[d]] /\ Singles'
LEMMA TidyCopies ==
  ASSUME CopyInv, Tidy,
         \/ Stays
         \/ \E t \in Kind, c \in Where : Drops(t, c)
         \/ \E t \in Kind, c \in Where, d \in Data : Enters(t, c, d)
         \/ \E t, u \in Kind, c, x \in Where, d \in Data : Passes(t, c, u, x, d)
  PROVE CopyInv'
  <1> USE DEF CopyInv
  <1>1. Located'
    BY Zenon, Still, Dropped, Entered, Passed
  <1>2. ASSUME NEW v \in Kind, NEW y \in Where, NEW e \in Content(v, y)' PROVE e \in Data
    <2>1. Content(v, y) \subseteq Data
      BY Zenon DEF DataTypes
    <2>2. CASE Stays
      BY Zenon, <2>1, <2>2 DEF Stays
    <2>3. ASSUME NEW t \in Kind, NEW c \in Where, Drops(t, c) PROVE e \in Data
      BY Zenon, <2>1, <2>3 DEF Drops
    <2>4. ASSUME NEW t \in Kind, NEW c \in Where, NEW d \in Data, Enters(t, c, d) PROVE e \in Data
      BY Zenon, <2>1, <2>4 DEF Enters
    <2>5. ASSUME NEW t \in Kind, NEW u \in Kind, NEW c \in Where, NEW x \in Where, NEW d \in Data,
                 Passes(t, c, u, x, d)
          PROVE e \in Data
      BY ZenonT(40), <2>1, <2>5 DEF Passes
    <2> QED BY Zenon, <2>2, <2>3, <2>4, <2>5
  <1> QED BY Zenon, <1>1, <1>2 DEF DataTypes, Tidy

\* Threads and readers that do not gain or lose a message
QuietThreads ==
  \A c \in Peer : \/ pc'[c] = pc[c] /\ frame'[c] = frame[c]
                  \/ pc[c] \notin Carrying /\ pc'[c] \notin Carrying
QuietReaders ==
  \A x \in Xbuf : \/ rpc'[x] = rpc[x] /\ rmsg'[x] = rmsg[x]
                  \/ rpc[x] \notin Fetched /\ rpc'[x] \notin Fetched

LEMMA ThreadsSame == ASSUME QuietThreads, NEW x PROVE Content("thread", x)' = Content("thread", x)
  BY Zenon DEF QuietThreads, Content
LEMMA ReadersSame == ASSUME QuietReaders, NEW x PROVE Content("reader", x)' = Content("reader", x)
  BY Zenon DEF QuietReaders, Content
LEMMA InSame ==
  ASSUME NEW x, inbound'[x] = inbound[x] PROVE Content("in", x)' = Content("in", x)
  BY Zenon DEF Content
LEMMA OutSame ==
  ASSUME NEW x, outbound'[x] = outbound[x] PROVE Content("out", x)' = Content("out", x)
  BY Zenon DEF Content

\* A step that touches no ring and moves no message
LEMMA QuietCopies ==
  ASSUME CopyInv, UNCHANGED <<inbound, outbound>>, QuietThreads, QuietReaders,
         \/ UNCHANGED fate
         \/ \E d \in Data : \E f : fate[d] = "unsent" /\ f # "routing" /\ Settle(d, f)
  PROVE CopyInv'
  <1>1. \A t \in Kind, x \in Where : Content(t, x)' = Content(t, x)
    BY Zenon, ThreadsSame, ReadersSame, InSame, OutSame DEF Kind
  <1>2. fate' = [d \in Data |-> fate'[d]] /\ \A d \in Data : fate'[d] = "routing" <=> fate[d] = "routing"
    <2>1. CASE UNCHANGED fate
      BY Zenon, <2>1 DEF CopyInv, DataTypes
    <2>2. ASSUME NEW d \in Data, NEW f, fate[d] = "unsent", f # "routing", Settle(d, f)
          PROVE fate' = [e \in Data |-> fate'[e]] /\ \A e \in Data : fate'[e] = "routing" <=> fate[e] = "routing"
      <3>1. fate' = [e \in Data |-> IF e = d THEN f ELSE fate[e]]
        BY <2>2 DEF CopyInv, DataTypes, Settle
      <3> QED BY <2>2, <3>1
    <2> QED BY Zenon, <2>1, <2>2
  <1>3. Stays
    BY Zenon, <1>1, <1>2 DEF Stays
  <1>4. Tidy
    BY Zenon, <1>2 DEF Tidy, CopyInv, DataTypes, Singles
  <1> QED BY Zenon, <1>3, <1>4, TidyCopies

\* The thread of c moves without a message.
LEMMA MoveThread ==
  ASSUME OwnTypes, NEW c \in Peer, NEW l, l \notin Carrying, Goto(c, l), pc[c] \notin Carrying,
         \A b \in Peer \ {c} : frame'[b] = frame[b]
  PROVE QuietThreads
  <1>1. \A b \in Peer : pc'[b] = IF b = c THEN l ELSE pc[b]
    BY Zenon DEF Goto, OwnTypes
  <1> QED BY Zenon, <1>1 DEF QuietThreads
LEMMA WorkThread ==
  ASSUME OwnTypes, NEW c \in Peer, NEW l, NEW f, NEW S, l \notin Carrying, Work(c, l, f, S),
         pc[c] \notin Carrying
  PROVE QuietThreads
  <1>1. \A b \in Peer \ {c} : frame'[b] = frame[b]
    BY Zenon DEF Work, OwnTypes
  <1> QED BY Zenon, <1>1, MoveThread DEF Work

\* A reader moves without a message.
LEMMA MoveReader ==
  ASSUME OwnTypes, NEW x \in Xbuf, NEW l, l \notin Fetched, rpc' = [rpc EXCEPT ![x] = l],
         rpc[x] \notin Fetched, UNCHANGED rmsg
  PROVE QuietReaders
  <1>1. \A y \in Xbuf : rpc'[y] = IF y = x THEN l ELSE rpc[y]
    BY Zenon DEF OwnTypes
  <1> QED BY Zenon, <1>1 DEF QuietReaders
LEMMA ReadersKept == ASSUME UNCHANGED readerVars PROVE QuietReaders
  BY Zenon DEF QuietReaders, readerVars
LEMMA ThreadsKept == ASSUME UNCHANGED threadVars PROVE QuietThreads
  BY Zenon DEF QuietThreads, threadVars

\* The accept loop, and the sockets' other sides
LEMMA CopyConn ==
  ASSUME OwnInv, CopyInv,
         (\E c \in Conn : ConnectPeer(c) \/ Accept(c) \/ List(c)) \/ (\E c \in Peer : Close(c))
  PROVE CopyInv'
  <1> USE DEF OwnInv
  <1>1. UNCHANGED <<inbound, outbound, readerVars, fate>>
    BY Zenon DEF ConnectPeer, Accept, List, Close, deviceVars
  <1>2. CASE UNCHANGED threadVars
    BY Zenon, <1>1, <1>2, ReadersKept, ThreadsKept, QuietCopies
  <1>3. ASSUME NEW c \in Conn, NEW l \in {"snapshot", "run"}, Goto(c, l), pc[c] = "none", UNCHANGED frame
        PROVE CopyInv'
    <2>1. c \in Peer /\ pc[c] \notin Carrying /\ l \notin Carrying
      BY Zenon, <1>3 DEF Peer, Carrying
    <2>2. QuietThreads
      BY Zenon, <1>3, <2>1, MoveThread
    <2> QED BY Zenon, <1>1, <2>2, ReadersKept, QuietCopies
  <1> QED BY Zenon, <1>2, <1>3 DEF ConnectPeer, Accept, List, Close, Started

\* What handlers do between messages
Control(c) ==
  \/ Add(c) \/ StartReader(c) \/ UpdateLocal(c) \/ PeersSnapshot(c) \/ Broadcast(c)
  \/ Release(c) \/ Join(c) \/ local_mailboxes_snapshot(c) \/ Advertise(c) \/ Disconnect(c)
  \/ RecvHello(c)
  \/ \E m \in Mailbox : \/ RecvInit(c, m) \/ RecvDelete(c, m)
                         \/ RecvPeerRegister(c, m) \/ RecvPeerDelete(c, m)

LEMMA ControlThreads ==
  ASSUME OwnInv, NEW c \in Peer, Control(c)
  PROVE QuietThreads /\ UNCHANGED <<inbound, outbound, fate>>
  <1> USE DEF OwnInv
  <1>1. UNCHANGED <<inbound, outbound, fate>>
    BY Zenon DEF Control, Add, StartReader, UpdateLocal, PeersSnapshot, Broadcast, Release, Join,
       local_mailboxes_snapshot, Advertise, Disconnect, RecvHello, RecvInit, RecvDelete, Remove,
       RecvPeerRegister, RecvPeerDelete, deviceVars
  <1>2. CASE \E m \in Mailbox : RecvPeerRegister(c, m)
    BY Zenon, <1>1, <1>2, ThreadsKept DEF RecvPeerRegister
  <1> DEFINE After == {"release", "insert", "start", "peers", "erase", "exit", "snapshot", "broadcast",
                       "join", "run", "advertise", "add"}
  <1>3. ASSUME NEW l \in After PROVE l \notin Carrying
    BY Zenon, <1>3 DEF Carrying
  <1>4. CASE Add(c) \/ StartReader(c) \/ UpdateLocal(c) \/ Disconnect(c) \/ RecvHello(c)
    <2>1. pc[c] \notin Carrying
      BY Zenon, <1>4 DEF Add, StartReader, UpdateLocal, Disconnect, RecvHello, Carrying
    <2>2. PICK l \in After : Goto(c, l)
      BY <1>4 DEF Add, StartReader, UpdateLocal, Disconnect, RecvHello
    <2>3. UNCHANGED frame
      BY Zenon, <1>4 DEF Add, StartReader, UpdateLocal, Disconnect, RecvHello
    <2>4. l \notin Carrying
      BY Zenon, <1>3
    <2> QED BY Zenon, <1>1, <2>1, <2>2, <2>3, <2>4, MoveThread
  <1>5. CASE PeersSnapshot(c) \/ Broadcast(c) \/ local_mailboxes_snapshot(c) \/ Advertise(c)
    <2>1. pc[c] \notin Carrying
      BY Zenon, <1>5 DEF PeersSnapshot, Broadcast, local_mailboxes_snapshot, Advertise, Carrying
    <2>2. \E l \in After : \E f, S : Work(c, l, f, S)
      <3> DEFINE W == \E l \in After : \E f, S : Work(c, l, f, S)
      <3>1. PeersSnapshot(c) => W
        BY DEF PeersSnapshot
      <3>2. Broadcast(c) => W
        BY DEF Broadcast
      <3>3. local_mailboxes_snapshot(c) => W
        BY DEF local_mailboxes_snapshot
      <3>4. Advertise(c) => W
        BY DEF Advertise
      <3> QED BY Zenon, <1>5, <3>1, <3>2, <3>3, <3>4
    <2> QED BY Zenon, <1>1, <1>3, <2>1, <2>2, WorkThread
  <1>6. CASE Release(c) \/ Join(c)
    <2>1. pc[c] \notin Carrying
      BY Zenon, <1>6 DEF Release, Join, Carrying
    <2>2. \/ \E l \in After : Goto(c, l) /\ UNCHANGED frame
          \/ \E l \in After : \E f, S : Work(c, l, f, S)
      BY Zenon, <1>6 DEF Release, Join, Done
    <2> QED BY Zenon, <1>1, <1>3, <2>1, <2>2, WorkThread, MoveThread
  <1>7. CASE \E m \in Mailbox : RecvInit(c, m) \/ RecvDelete(c, m) \/ RecvPeerDelete(c, m)
    <2>1. pc[c] \notin Carrying
      BY Zenon, <1>7 DEF RecvInit, RecvDelete, RecvPeerDelete, Remove, Carrying
    <2>2. \E l \in After : \E f, S : Work(c, l, f, S)
      BY Zenon, <1>7 DEF RecvInit, RecvDelete, RecvPeerDelete, Remove, Done
    <2> QED BY Zenon, <1>1, <1>3, <2>1, <2>2, WorkThread
  <1> QED BY Zenon, <1>2, <1>4, <1>5, <1>6, <1>7 DEF Control

LEMMA ControlReaders ==
  ASSUME OwnInv, NEW c \in Peer, Control(c)
  PROVE QuietReaders
  <1> USE DEF OwnInv
  <1>1. CASE StartReader(c)
    <2>1. held[c] # None /\ held[c] \in Xbuf /\ rpc[held[c]] = "idle"
      BY Zenon, <1>1 DEF StartReader, Holding, OwnTypes
    <2>2. rpc[held[c]] \notin Fetched /\ "poll" \notin Fetched
      BY Zenon, <2>1 DEF Fetched
    <2> QED BY Zenon, <1>1, <2>1, <2>2, MoveReader DEF StartReader
  <1>2. CASE Join(c)
    <2>1. held[c] # None /\ held[c] \in Xbuf
      BY Zenon, <1>2 DEF Join, Holding, OwnTypes
    <2>2. rpc[held[c]] \notin Fetched /\ "free" \notin Fetched
      BY Zenon, <1>2 DEF Join, Fetched
    <2> QED BY Zenon, <1>2, <2>1, <2>2, MoveReader DEF Join
  <1>3. ASSUME NEW m \in Mailbox, RecvInit(c, m) PROVE QuietReaders
    <2>1. CASE m \in device
      <3> DEFINE x == CHOOSE y \in Xbuf : rpc[y] = "free"
      <3>1. x \in Xbuf /\ rpc[x] = "free" /\ rpc' = [rpc EXCEPT ![x] = "idle"] /\ UNCHANGED rmsg
        BY Zenon, <1>3, <2>1 DEF RecvInit
      <3> HIDE DEF x
      <3>2. rpc[x] \notin Fetched /\ "idle" \notin Fetched
        BY Zenon, <3>1 DEF Fetched
      <3> QED BY Zenon, <3>1, <3>2, MoveReader
    <2>2. CASE m \notin device
      BY Zenon, <1>3, <2>2 DEF RecvInit, QuietReaders
    <2> QED BY Zenon, <2>1, <2>2
  <1>4. CASE UNCHANGED readerVars
    BY Zenon, <1>4, ReadersKept
  <1> QED BY Zenon, <1>1, <1>2, <1>3, <1>4 DEF Control, Add, UpdateLocal, PeersSnapshot, Broadcast,
         Release, local_mailboxes_snapshot, Advertise, Disconnect, RecvHello, RecvDelete, Remove,
         RecvPeerRegister, RecvPeerDelete

LEMMA CopyControl == ASSUME OwnInv, CopyInv, NEW c \in Peer, Control(c) PROVE CopyInv'
  BY Zenon, ControlThreads, ControlReaders, QuietCopies

\* Readers between messages, and one that has found a connection
LEMMA CopyReader ==
  ASSUME OwnInv, CopyInv, NEW x \in Xbuf, ReaderDrop(x) \/ ReaderJoin(x) \/ ReaderExit(x)
  PROVE CopyInv'
  <1> USE DEF OwnInv
  <1>1. UNCHANGED <<inbound, outbound, threadVars, fate, rmsg>>
    BY Zenon DEF ReaderDrop, ReaderJoin, ReaderExit, deviceVars
  <1>2. QuietReaders
    <2>1. CASE ReaderDrop(x) \/ ReaderExit(x)
      <3>1. rpc[x] \notin Fetched
        BY Zenon, <2>1 DEF ReaderDrop, ReaderExit, Fetched
      <3>2. PICK l \in {"poll", "join", "exit"} : rpc' = [rpc EXCEPT ![x] = l]
        BY Zenon, <2>1 DEF ReaderDrop, ReaderExit
      <3>3. l \notin Fetched
        BY Zenon DEF Fetched
      <3> QED BY Zenon, <1>1, <3>1, <3>2, <3>3, MoveReader
    <2>2. CASE ReaderJoin(x)
      <3>1. rdest[x] \in Xbuf /\ rpc[x] \notin Fetched /\ rpc[rdest[x]] \notin Fetched
        BY Zenon, <2>2 DEF ReaderJoin, Reading, Fetched
      <3>2. \A y \in Xbuf \ {x, rdest[x]} : rpc'[y] = rpc[y]
        BY Zenon, <2>2, <3>1 DEF ReaderJoin, OwnTypes
      <3>3. \A y \in {x, rdest[x]} : rpc'[y] \in {"free", "poll"}
        BY <2>2, <3>1 DEF ReaderJoin, OwnTypes
      <3>4. \A y \in {x, rdest[x]} : rpc'[y] \notin Fetched
        BY Zenon, <3>3 DEF Fetched
      <3> QED BY Zenon, <1>1, <3>1, <3>2, <3>4 DEF QuietReaders
    <2> QED BY Zenon, <2>1, <2>2
  <1> QED BY Zenon, <1>1, <1>2, ThreadsKept, QuietCopies

-----------------------------------------------------------------------------
(* Steps that move a message.                                              *)

LEMMA SettleFate ==
  ASSUME CopyInv, NEW d \in Data, NEW f, Settle(d, f)
  PROVE /\ fate' = [e \in Data |-> fate'[e]] /\ fate'[d] = f
        /\ \A e \in Data \ {d} : fate'[e] = fate[e]
  <1>1. fate' = [e \in Data |-> IF e = d THEN f ELSE fate[e]]
    BY DEF CopyInv, DataTypes, Settle
  <1> QED BY <1>1

\* What a thread or a reader has in hand
LEMMA InHand == ASSUME NEW c \in Peer, pc[c] \in Carrying PROVE Content("thread", c) = {frame[c].data}
  BY DEF Content
LEMMA EmptyHand == ASSUME NEW c \in Peer, pc[c] \notin Carrying PROVE Content("thread", c) = {}
  BY DEF Content
LEMMA InHandNext ==
  ASSUME NEW c \in Peer, pc'[c] \in Carrying PROVE Content("thread", c)' = {frame'[c].data}
  BY DEF Content
LEMMA EmptyHandNext == ASSUME NEW c \in Peer, pc'[c] \notin Carrying PROVE Content("thread", c)' = {}
  BY DEF Content
LEMMA OtherThreads ==
  ASSUME OwnTypes, NEW c \in Peer, NEW l, Goto(c, l), \A b \in Peer \ {c} : frame'[b] = frame[b]
  PROVE pc'[c] = l /\ \A x : x # c => Content("thread", x)' = Content("thread", x)
  <1>1. \A b \in Peer : pc'[b] = IF b = c THEN l ELSE pc[b]
    BY Zenon DEF Goto, OwnTypes
  <1> QED BY Zenon, <1>1 DEF Content
LEMMA OtherReaders ==
  ASSUME OwnTypes, Outgoing, NEW x \in Xbuf, NEW l, NEW r,
         rpc' = [rpc EXCEPT ![x] = l], rmsg' = [rmsg EXCEPT ![x] = r]
  PROVE /\ \A y : y # x => Content("reader", y)' = Content("reader", y)
        /\ Content("reader", x)' = IF l \in Fetched THEN {r} ELSE {}
  <1>1. \A y \in Xbuf : rpc'[y] = (IF y = x THEN l ELSE rpc[y]) /\ rmsg'[y] = (IF y = x THEN r ELSE rmsg[y])
    BY Zenon DEF OwnTypes, Outgoing
  <1> QED BY Zenon, <1>1 DEF Content

\* A connection thread that is done with its message
LEMMA ThreadDrops ==
  ASSUME OwnInv, CopyInv, UNCHANGED <<inbound, outbound, readerVars>>,
         NEW c \in Peer, pc[c] \in Carrying, NEW l, l \notin Carrying, Goto(c, l),
         \A b \in Peer \ {c} : frame'[b] = frame[b],
         NEW f, f # "routing", Settle(frame[c].data, f)
  PROVE CopyInv'
  <1> USE DEF OwnInv
  <1> DEFINE d == frame[c].data
  <1>1. "thread" \in Kind /\ c \in Where
    BY Zenon DEF Kind, Where
  <1>2. Content("thread", c) = {d} /\ d \in Data
    BY Zenon, <1>1, InHand DEF CopyInv, DataTypes
  <1>3. pc'[c] = l /\ \A x : x # c => Content("thread", x)' = Content("thread", x)
    BY Zenon, OtherThreads
  <1>4. Content("thread", c)' = {}
    BY Zenon, <1>3, EmptyHandNext
  <1>5. fate' = [e \in Data |-> fate'[e]] /\ fate'[d] = f /\ \A e \in Data \ {d} : fate'[e] = fate[e]
    BY Zenon, <1>2, SettleFate
  <1> HIDE DEF d
  <1>6. \A u \in Kind, x \in Where : (u = "thread" /\ x = c) \/ Content(u, x)' = Content(u, x)
    BY Zenon, <1>3, InSame, OutSame, ReadersKept, ReadersSame DEF Kind
  <1>7. Drops("thread", c)
    BY Zenon, <1>2, <1>4, <1>5, <1>6 DEF Drops
  <1>8. Tidy
    BY Zenon, <1>5 DEF Tidy, CopyInv, DataTypes, Singles
  <1> QED BY Zenon, <1>1, <1>7, <1>8, TidyCopies

LEMMA CopyForward ==
  ASSUME OwnInv, CopyInv, NEW c \in Peer, Forward(c) \/ ForwardUpstream(c)
  PROVE CopyInv'
  <1> USE DEF OwnInv
  <1>1. pc[c] \in Carrying /\ "run" \notin Carrying
    BY Zenon DEF Forward, ForwardUpstream, Carrying
  <1>2. Goto(c, "run") /\ \A b \in Peer \ {c} : frame'[b] = frame[b]
    BY Zenon DEF Forward, ForwardUpstream, Done, Work, OwnTypes
  <1>3. PICK f \in {"delivered", "lost", "upstream", "refused"} : Settle(frame[c].data, f)
    BY Zenon DEF Forward, ForwardUpstream
  <1>4. f # "routing"
    BY Zenon, <1>3
  <1>5. UNCHANGED <<inbound, outbound, readerVars>>
    BY Zenon DEF Forward, ForwardUpstream, deviceVars
  <1> QED BY Zenon, <1>1, <1>2, <1>3, <1>4, <1>5, ThreadDrops

LEMMA CopyRecvData ==
  ASSUME OwnInv, CopyInv, NEW c \in Peer, NEW d \in Data, RecvData(c, d) \/ Oversized(c, d)
  PROVE CopyInv'
  <1> USE DEF OwnInv
  <1>1. pc[c] = "run" /\ pc[c] \notin Carrying /\ fate[d] = "unsent"
    BY Zenon DEF RecvData, Oversized, Carrying
  <1>2. UNCHANGED <<inbound, outbound, readerVars>>
    BY Zenon DEF RecvData, Oversized, deviceVars
  <1>3. CASE Oversized(c, d)
    <2>1. PICK l \in {"exit", "stuck"} : Goto(c, l)
      BY Zenon, <1>3 DEF Oversized
    <2>2. l \notin Carrying /\ UNCHANGED frame /\ Settle(d, "lost") /\ "lost" # "routing"
      BY Zenon, <1>3 DEF Oversized, Carrying
    <2>3. QuietThreads
      BY Zenon, <1>1, <2>1, <2>2, MoveThread
    <2> QED BY Zenon, <1>1, <1>2, <2>2, <2>3, ReadersKept, QuietCopies
  <1>4. CASE RecvData(c, d)
    <2>1. PICK l, S : LET kept == l \in {"forward", "write", "upstream"}
                      IN  /\ Work(c, l, IF kept THEN Frame("data", Dest[d], d) ELSE Idle, S)
                          /\ Settle(d, IF kept THEN "routing" ELSE "lost")
      BY Zenon, <1>4 DEF RecvData
    <2>2. Goto(c, l) /\ \A b \in Peer \ {c} : frame'[b] = frame[b]
      BY Zenon, <2>1 DEF Work, OwnTypes
    <2>3. CASE l \notin Carrying
      <3>1. Settle(d, "lost") /\ "lost" # "routing"
        BY Zenon, <2>1, <2>3 DEF Carrying
      <3>2. QuietThreads
        BY Zenon, <1>1, <2>2, <2>3, MoveThread
      <3> QED BY Zenon, <1>1, <1>2, <3>1, <3>2, ReadersKept, QuietCopies
    <2>4. CASE l \in Carrying
      <3>1. Settle(d, "routing") /\ frame'[c] = Frame("data", Dest[d], d)
        BY Zenon, <2>1, <2>4 DEF Carrying, Work, OwnTypes
      <3>2. frame'[c].data = d
        BY <3>1 DEF Frame
      <3>3. "thread" \in Kind /\ c \in Where
        BY Zenon DEF Kind, Where
      <3>4. pc'[c] = l /\ \A x : x # c => Content("thread", x)' = Content("thread", x)
        BY Zenon, <2>2, OtherThreads
      <3>5. Content("thread", c) = {} /\ Content("thread", c)' = {d}
        BY Zenon, <1>1, <2>4, <3>2, <3>4, EmptyHand, InHandNext
      <3>6. /\ fate' = [e \in Data |-> fate'[e]] /\ fate'[d] = "routing"
            /\ \A e \in Data \ {d} : fate'[e] = fate[e]
        BY Zenon, <3>1, SettleFate
      <3>7. \A u \in Kind, x \in Where : (u = "thread" /\ x = c) \/ Content(u, x)' = Content(u, x)
        BY Zenon, <1>2, <3>4, InSame, OutSame, ReadersKept, ReadersSame DEF Kind
      <3>8. fate[d] # "routing"
        BY Zenon, <1>1
      <3>9. Enters("thread", c, d)
        BY Zenon, <3>5, <3>6, <3>7, <3>8 DEF Enters
      <3>10. Tidy
        BY Zenon, <1>2, <3>6 DEF Tidy, CopyInv, DataTypes, Singles
      <3> QED BY Zenon, <3>3, <3>9, <3>10, TidyCopies
    <2> QED BY Zenon, <2>3, <2>4
  <1> QED BY Zenon, <1>3, <1>4

LEMMA CopyEvlSend ==
  ASSUME OwnInv, CopyInv, NEW d \in Data, EvlSend(d)
  PROVE CopyInv'
  <1> USE DEF OwnInv
  <1> DEFINE m == Src[d]
  <1>1. m \in Evl /\ "out" \in Kind /\ m \in Where
    BY Zenon DEF EvlSend, Outgoing, Kind, Where
  <1>2. outbound[m] \in Seq(Data) /\ Single(outbound[m])
    BY Zenon, <1>1 DEF Outgoing, CopyInv, Singles
  <1>3. outbound'[m] = Append(outbound[m], d) /\ \A n \in Evl \ {m} : outbound'[n] = outbound[n]
    BY Zenon, <1>1 DEF EvlSend, Outgoing
  <1>4. fate[d] # "routing"
    BY Zenon DEF EvlSend
  <1>5. /\ fate' = [e \in Data |-> fate'[e]] /\ fate'[d] = "routing"
        /\ \A e \in Data \ {d} : fate'[e] = fate[e]
    BY Zenon, SettleFate DEF EvlSend
  <1>6. UNCHANGED <<inbound, threadVars, readerVars>>
    BY Zenon DEF EvlSend
  <1> HIDE DEF m
  <1>7. Content("out", m) = Within(outbound[m]) /\ Content("out", m)' = Within(outbound'[m])
    BY <1>1 DEF Content
  <1>8. d \notin Within(outbound[m])
    <2>1. d \notin Content("out", m)
      BY <1>1, <1>4 DEF CopyInv, Located
    <2> QED BY Zenon, <1>7, <2>1
  <1>9. \A x \in Where : x # m => Content("out", x)' = Content("out", x)
    BY Zenon, <1>3 DEF Content
  <1>10. \A u \in Kind, x \in Where : (u = "out" /\ x = m) \/ Content(u, x)' = Content(u, x)
    BY Zenon, <1>6, <1>9, InSame, ReadersKept, ReadersSame, ThreadsKept, ThreadsSame DEF Kind
  <1>11. \A e : e \in Content("out", m)' <=> e = d \/ e \in Content("out", m)
    <2>1. \A e : e \in Within(Append(outbound[m], d)) <=> e = d \/ e \in Within(outbound[m])
      BY Zenon, <1>2, WithinAppend
    <2> QED BY <1>3, <1>7, <2>1
  <1>12. Enters("out", m, d)
    BY Zenon, <1>4, <1>5, <1>10, <1>11 DEF Enters
  <1>13. Single(outbound'[m])
    BY Zenon, <1>2, <1>3, <1>8, WithinAppend
  <1>14. \A n \in Evl : Single(outbound'[n])
    BY Zenon, <1>3, <1>13 DEF CopyInv, Singles
  <1>15. Tidy
    BY Zenon, <1>5, <1>6, <1>14 DEF Tidy, CopyInv, DataTypes, Singles
  <1> QED BY Zenon, <1>1, <1>12, <1>15, TidyCopies

\* An EVL process takes messages from its ring.
LEMMA CopyEvlProcess ==
  ASSUME OwnInv, CopyInv, NEW m \in Evl, Evl_process(m)
  PROVE CopyInv'
  <1> USE DEF OwnInv
  <1>1. "in" \in Kind /\ m \in Where
    BY Zenon DEF Kind, Where
  <1>2. inbound[m] \in Seq(Data) /\ Single(inbound[m]) /\ inbound = [n \in Evl |-> inbound[n]]
    BY Zenon DEF CopyInv, DataTypes, Singles
  <1>3. UNCHANGED <<outbound, threadVars, readerVars>>
    BY Zenon DEF Evl_process, EvlReceive, EvlExit
  <1>4. Content("in", m) = Within(inbound[m]) /\ Content("in", m)' = Within(inbound'[m])
    BY DEF Content
  <1>5. /\ inbound'[m] \in Seq(Data) /\ Single(inbound'[m])
        /\ \A n \in Evl \ {m} : inbound'[n] = inbound[n]
        /\ inbound' = [n \in Evl |-> inbound'[n]]
        /\ \A e : e \in Within(inbound'[m]) => e \in Within(inbound[m])
        /\ fate' = [d \in Data |-> fate'[d]]
        /\ \A d \in Data : IF d \in Within(inbound[m]) /\ d \notin Within(inbound'[m])
                           THEN fate'[d] # "routing" ELSE fate'[d] = fate[d]
    <2>1. CASE EvlReceive(m)
      <3>1. inbound[m] # <<>> /\ inbound' = [inbound EXCEPT ![m] = Tail(inbound[m])]
            /\ Settle(Head(inbound[m]), "delivered")
        BY Zenon, <2>1 DEF EvlReceive
      <3>2. inbound'[m] = Tail(inbound[m]) /\ \A n \in Evl \ {m} : inbound'[n] = inbound[n]
        BY Zenon, <1>2, <3>1
      <3>3. inbound' = [n \in Evl |-> inbound'[n]]
        BY Zenon, <1>2, <3>1
      <3>4. /\ Tail(inbound[m]) \in Seq(Data) /\ Single(Tail(inbound[m]))
            /\ Head(inbound[m]) \in Within(inbound[m]) /\ Head(inbound[m]) \in Data
            /\ \A e : e \in Within(Tail(inbound[m])) <=> e # Head(inbound[m]) /\ e \in Within(inbound[m])
        BY Zenon, <1>2, <3>1, WithinTail
      <3>5. /\ fate' = [d \in Data |-> fate'[d]] /\ fate'[Head(inbound[m])] = "delivered"
            /\ \A d \in Data \ {Head(inbound[m])} : fate'[d] = fate[d]
        BY Zenon, <3>1, <3>4, SettleFate
      <3> QED BY <3>2, <3>3, <3>4, <3>5
    <2>2. CASE EvlExit(m)
      <3>1. inbound' = [inbound EXCEPT ![m] = <<>>] /\ Lose(Within(inbound[m]))
        BY Zenon, <2>2 DEF EvlExit
      <3>2. inbound'[m] = <<>> /\ \A n \in Evl \ {m} : inbound'[n] = inbound[n]
        BY Zenon, <1>2, <3>1
      <3>3. inbound' = [n \in Evl |-> inbound'[n]]
        BY Zenon, <1>2, <3>1
      <3>4. \A d \in Data : fate'[d] = IF d \in Within(inbound[m]) THEN "lost" ELSE fate[d]
        BY Zenon, <3>1 DEF Lose
      <3>5. fate' = [d \in Data |-> fate'[d]]
        BY Zenon, <3>1 DEF Lose
      <3>6. <<>> \in Seq(Data)
        OBVIOUS
      <3> QED BY <3>2, <3>3, <3>4, <3>5, <3>6, WithinNone
    <2> QED BY Zenon, <2>1, <2>2 DEF Evl_process
  <1>6. \A x \in Where : x # m => Content("in", x)' = Content("in", x)
    BY Zenon, <1>5 DEF Content
  <1>7. \A u \in Kind, x \in Where : (u = "in" /\ x = m) \/ Content(u, x)' = Content(u, x)
    BY Zenon, <1>3, <1>6, OutSame, ReadersKept, ReadersSame, ThreadsKept, ThreadsSame DEF Kind
  <1>8. Drops("in", m)
    BY Zenon, <1>4, <1>5, <1>7 DEF Drops
  <1>9. \A n \in Evl : inbound'[n] \in Seq(Data) /\ Single(inbound'[n])
    BY Zenon, <1>5 DEF CopyInv, DataTypes, Singles
  <1>10. inbound' \in [Evl -> Seq(Data)]
    BY <1>5, <1>9
  <1>11. Tidy
    BY Zenon, <1>3, <1>5, <1>9, <1>10 DEF Tidy, CopyInv, Singles
  <1> QED BY Zenon, <1>1, <1>8, <1>11, TidyCopies

\* A reader takes a message from its ring.
LEMMA CopyReaderRead ==
  ASSUME OwnInv, CopyInv, NEW x \in Xbuf, ReaderRead(x)
  PROVE CopyInv'
  <1> USE DEF OwnInv
  <1>0. PICK m, q, d : m = mbx[x] /\ q = outbound[m] /\ d = Head(q)
    OBVIOUS
  <1>1. rpc[x] = "poll" /\ q # <<>> /\ outbound' = [outbound EXCEPT ![m] = Tail(q)]
        /\ rmsg' = [rmsg EXCEPT ![x] = d] /\ rpc' = [rpc EXCEPT ![x] = "find"]
        /\ UNCHANGED <<threadVars, inbound, fate>>
    BY <1>0 DEF ReaderRead
  <1>2. m \in Evl
    BY Zenon, <1>0, <1>1 DEF Outgoing
  <1>3. "out" \in Kind /\ "reader" \in Kind /\ m \in Where /\ x \in Where /\ "out" # "reader"
    BY Zenon, <1>2 DEF Kind, Where
  <1>4. q \in Seq(Data) /\ Single(q)
    BY Zenon, <1>0, <1>2 DEF Outgoing, CopyInv, Singles
  <1>5. outbound'[m] = Tail(q) /\ \A n \in Evl \ {m} : outbound'[n] = outbound[n]
    BY Zenon, <1>1, <1>2 DEF Outgoing
  <1>6. /\ Tail(q) \in Seq(Data) /\ Single(Tail(q)) /\ d \in Within(q) /\ d \in Data
        /\ \A e : e \in Within(Tail(q)) <=> e # d /\ e \in Within(q)
    BY Zenon, <1>0, <1>1, <1>4, WithinTail
  <1>7. rpc[x] \notin Fetched /\ "find" \in Fetched
    BY Zenon, <1>1 DEF Fetched
  <1>8. /\ \A y : y # x => Content("reader", y)' = Content("reader", y)
        /\ Content("reader", x)' = IF "find" \in Fetched THEN {d} ELSE {}
    BY Zenon, <1>1, OtherReaders
  <1>9. Content("out", m) = Within(q) /\ Content("out", m)' = Within(outbound'[m])
    BY <1>0, <1>2 DEF Content
  <1>10. \A y \in Where : y # m => Content("out", y)' = Content("out", y)
    BY Zenon, <1>5 DEF Content
  <1>11. Content("reader", x) = {}
    BY <1>7 DEF Content
  <1>12. \A v \in Kind, y \in Where :
           (v = "out" /\ y = m) \/ (v = "reader" /\ y = x) \/ Content(v, y)' = Content(v, y)
    BY Zenon, <1>1, <1>8, <1>10, InSame, ThreadsKept, ThreadsSame DEF Kind
  <1>13. \A e : e \in Content("out", m)' <=> e # d /\ e \in Content("out", m)
    BY <1>5, <1>6, <1>9
  <1>14. \A e : e \in Content("reader", x)' <=> e = d \/ e \in Content("reader", x)
    BY Zenon, <1>7, <1>8, <1>11
  <1>15. d \in Content("out", m) /\ ~("out" = "reader" /\ m = x)
    BY Zenon, <1>3, <1>6, <1>9
  <1>16. \A e \in Data : fate'[e] = fate[e]
    BY Zenon, <1>1
  <1>17. Passes("out", m, "reader", x, d)
    BY Zenon, <1>12, <1>13, <1>14, <1>15, <1>16 DEF Passes
  <1>18. \A n \in Evl : Single(outbound'[n])
    BY Zenon, <1>5, <1>6 DEF CopyInv, Singles
  <1>19. Tidy
    BY Zenon, <1>1, <1>18 DEF Tidy, CopyInv, DataTypes, Singles
  <1> QED BY Zenon, <1>3, <1>6, <1>17, <1>19, TidyCopies

\* A reader finds the receiver, or drops the message.
LEMMA CopyReaderFind ==
  ASSUME OwnInv, CopyInv, NEW x \in Xbuf, ReaderFind(x) \/ ReaderForward(x)
  PROVE CopyInv'
  <1> USE DEF OwnInv
  <1>1. UNCHANGED <<inbound, outbound, threadVars>>
    BY Zenon DEF ReaderFind, ReaderForward, deviceVars
  <1>2. rpc[x] \in Fetched
    BY Zenon DEF ReaderFind, ReaderForward, Fetched
  <1>3. "reader" \in Kind /\ x \in Where
    BY Zenon DEF Kind, Where
  <1>4. Content("reader", x) = {rmsg[x]}
    BY <1>2 DEF Content
  <1>5. rmsg[x] \in Data
    BY Zenon, <1>3, <1>4 DEF CopyInv, DataTypes
  <1>6. CASE rpc' = [rpc EXCEPT ![x] = "forward"] /\ UNCHANGED <<rmsg, fate>>
    <2>1. Content("reader", x)' = {rmsg[x]}
      BY <1>6 DEF Content, Fetched, OwnTypes
    <2>2. \A y : y # x => Content("reader", y)' = Content("reader", y)
      BY <1>6 DEF Content, OwnTypes
    <2>3. \A v \in Kind, y \in Where : Content(v, y)' = Content(v, y)
      BY Zenon, <1>1, <1>4, <2>1, <2>2, InSame, OutSame, ThreadsKept, ThreadsSame DEF Kind
    <2>4. Stays
      BY Zenon, <1>6, <2>3 DEF Stays
    <2>5. Tidy
      BY Zenon, <1>1, <1>6 DEF Tidy, CopyInv, DataTypes, Singles
    <2> QED BY Zenon, <2>4, <2>5, TidyCopies
  <1>7. ASSUME NEW l \in {"poll", "drop"}, rpc' = [rpc EXCEPT ![x] = l], rmsg' = [rmsg EXCEPT ![x] = None],
               fate' = [e \in Data |-> fate'[e]], fate'[rmsg[x]] # "routing",
               \A e \in Data \ {rmsg[x]} : fate'[e] = fate[e]
        PROVE CopyInv'
    <2>1. l \notin Fetched
      BY Zenon DEF Fetched
    <2>2. /\ \A y : y # x => Content("reader", y)' = Content("reader", y)
          /\ Content("reader", x)' = IF l \in Fetched THEN {None} ELSE {}
      BY Zenon, <1>7, OtherReaders
    <2>3. Content("reader", x)' = {}
      BY Zenon, <2>1, <2>2
    <2>4. \A v \in Kind, y \in Where : (v = "reader" /\ y = x) \/ Content(v, y)' = Content(v, y)
      BY Zenon, <1>1, <2>2, InSame, OutSame, ThreadsKept, ThreadsSame DEF Kind
    <2>5. Drops("reader", x)
      BY Zenon, <1>4, <1>7, <2>3, <2>4 DEF Drops
    <2>6. Tidy
      BY Zenon, <1>1, <1>7 DEF Tidy, CopyInv, DataTypes, Singles
    <2> QED BY Zenon, <1>3, <2>5, <2>6, TidyCopies
  <1>8. CASE ReaderForward(x)
    <2>1. PICK f \in {"delivered", "lost"} : Settle(rmsg[x], f)
      BY Zenon, <1>8 DEF ReaderForward
    <2>2. /\ fate' = [e \in Data |-> fate'[e]] /\ fate'[rmsg[x]] = f
          /\ \A e \in Data \ {rmsg[x]} : fate'[e] = fate[e]
      BY Zenon, <1>5, <2>1, SettleFate
    <2>3. fate'[rmsg[x]] # "routing"
      BY Zenon, <2>2
    <2> QED BY Zenon, <1>7, <1>8, <2>2, <2>3 DEF ReaderForward
  <1>9. CASE ReaderFind(x)
    <2>1. ASSUME Lose({rmsg[x]})
          PROVE /\ fate' = [e \in Data |-> fate'[e]] /\ fate'[rmsg[x]] # "routing"
                /\ \A e \in Data \ {rmsg[x]} : fate'[e] = fate[e]
      BY <1>5, <2>1 DEF Lose
    <2>2. \/ rpc' = [rpc EXCEPT ![x] = "forward"] /\ UNCHANGED <<rmsg, fate>>
          \/ \E l \in {"poll", "drop"} : /\ rpc' = [rpc EXCEPT ![x] = l] /\ Lose({rmsg[x]})
                                         /\ rmsg' = [rmsg EXCEPT ![x] = None]
      BY Zenon, <1>9 DEF ReaderFind
    <2> QED BY Zenon, <1>6, <1>7, <2>1, <2>2
  <1> QED BY Zenon, <1>8, <1>9

\* write_body() puts the message into the ring, or it ends here.
LEMMA CopyWriteBody ==
  ASSUME OwnInv, CopyInv, NEW c \in Peer, WriteBody(c)
  PROVE CopyInv'
  <1> USE DEF OwnInv
  <1>0. PICK m, d : m = mbx[held[c]] /\ d = frame[c].data
    OBVIOUS
  <1>1. pc[c] \in Carrying /\ "release" \notin Carrying
    BY Zenon DEF WriteBody, Carrying
  <1>2. Goto(c, "release") /\ \A b \in Peer \ {c} : frame'[b] = frame[b]
    BY Zenon DEF WriteBody
  <1>3. UNCHANGED <<outbound, readerVars>>
    BY Zenon DEF WriteBody
  <1>4. CASE UNCHANGED inbound /\ (Settle(d, "refused") \/ Settle(d, "lost"))
    <2>1. "refused" # "routing" /\ "lost" # "routing"
      OBVIOUS
    <2> QED BY Zenon, <1>0, <1>1, <1>2, <1>3, <1>4, <2>1, ThreadDrops
  <1>5. CASE /\ held[c] \in fd /\ inbound' = [inbound EXCEPT ![m] = Append(inbound[m], d)]
             /\ Settle(d, "routing")
    <2>1. held[c] \in Xbuf /\ rpc[held[c]] # "free"
      BY Zenon, <1>5 DEF OwnTypes, Alive
    <2>2. m \in Evl
      BY Zenon, <1>0, <2>1 DEF Outgoing
    <2>3. "in" \in Kind /\ "thread" \in Kind /\ m \in Where /\ c \in Where /\ "in" # "thread"
      BY Zenon, <2>2 DEF Kind, Where
    <2>4. Content("thread", c) = {d} /\ d \in Data
      BY Zenon, <1>0, <1>1, <2>3, InHand DEF CopyInv, DataTypes
    <2>5. inbound[m] \in Seq(Data) /\ Single(inbound[m]) /\ inbound = [n \in Evl |-> inbound[n]]
      BY Zenon, <2>2 DEF CopyInv, DataTypes, Singles
    <2>6. inbound'[m] = Append(inbound[m], d) /\ \A n \in Evl \ {m} : inbound'[n] = inbound[n]
      BY Zenon, <1>5, <2>2, <2>5
    <2>7. Content("in", m) = Within(inbound[m]) /\ Content("in", m)' = Within(inbound'[m])
      BY <2>2 DEF Content
    <2>8. \A y \in Where : y # m => Content("in", y)' = Content("in", y)
      BY Zenon, <2>6 DEF Content
    <2>9. pc'[c] = "release" /\ \A x : x # c => Content("thread", x)' = Content("thread", x)
      BY Zenon, <1>2, OtherThreads
    <2>10. Content("thread", c)' = {}
      BY Zenon, <1>1, <2>9, EmptyHandNext
    <2>11. d \notin Content("in", m) /\ fate[d] = "routing"
      BY <2>3, <2>4 DEF CopyInv, Located
    <2>12. /\ fate' = [e \in Data |-> fate'[e]] /\ fate'[d] = "routing"
           /\ \A e \in Data \ {d} : fate'[e] = fate[e]
      BY Zenon, <1>5, <2>4, SettleFate
    <2>13. \A v \in Kind, y \in Where :
             (v = "thread" /\ y = c) \/ (v = "in" /\ y = m) \/ Content(v, y)' = Content(v, y)
      BY Zenon, <1>3, <2>8, <2>9, OutSame, ReadersKept, ReadersSame DEF Kind
    <2>14. \A e : e \in Content("in", m)' <=> e = d \/ e \in Content("in", m)
      <3>1. \A e : e \in Within(Append(inbound[m], d)) <=> e = d \/ e \in Within(inbound[m])
        BY Zenon, <2>4, <2>5, WithinAppend
      <3> QED BY <2>6, <2>7, <3>1
    <2>15. \A e : e \in Content("thread", c)' <=> e # d /\ e \in Content("thread", c)
      BY Zenon, <2>4, <2>10
    <2>16. d \in Content("thread", c) /\ ~("thread" = "in" /\ c = m)
      BY Zenon, <2>3, <2>4
    <2>17. \A e \in Data : fate'[e] = fate[e]
      BY Zenon, <2>11, <2>12
    <2>18. Passes("thread", c, "in", m, d)
      BY Zenon, <2>13, <2>14, <2>15, <2>16, <2>17 DEF Passes
    <2>19. Single(inbound'[m])
      BY Zenon, <2>4, <2>5, <2>6, <2>7, <2>11, WithinAppend
    <2>20. \A n \in Evl : Single(inbound'[n])
      BY Zenon, <2>6, <2>19 DEF CopyInv, Singles
    <2>21. inbound' \in [Evl -> Seq(Data)]
      BY <1>5, <2>2, <2>4, <2>5 DEF CopyInv, DataTypes
    <2>22. Tidy
      BY Zenon, <1>3, <2>12, <2>20, <2>21 DEF Tidy, CopyInv, Singles
    <2> QED BY Zenon, <2>3, <2>4, <2>18, <2>22, TidyCopies
  <1> QED BY <1>0, <1>4, <1>5 DEF WriteBody

LEMMA CopyInit == Init => CopyInv
  <1> SUFFICES ASSUME Init PROVE CopyInv
    OBVIOUS
  <1>1. \A m \in Evl : inbound[m] = <<>> /\ outbound[m] = <<>>
    BY Zenon DEF Init
  <1>2. \A x \in Xbuf : rpc[x] \notin Fetched
    BY DEF Init, Fetched
  <1>3. \A c \in Peer : pc[c] \notin Carrying
    BY DEF Init, Carrying
  <1>4. \A t \in Kind, x \in Where : Content(t, x) = {}
    BY Zenon, <1>1, <1>2, <1>3, WithinNone DEF Content
  <1>5. fate = [d \in Data |-> fate[d]] /\ \A d \in Data : fate[d] # "routing"
    BY DEF Init
  <1>6. Singles
    BY Zenon, <1>1, WithinNone DEF Singles
  <1>7. inbound \in [Evl -> Seq(Data)]
    BY DEF Init
  <1>8. Located
    BY Zenon, <1>4, <1>5 DEF Located
  <1>9. DataTypes
    BY Zenon, <1>4, <1>5, <1>7 DEF DataTypes
  <1> QED BY Zenon, <1>6, <1>8, <1>9 DEF CopyInv

LEMMA CopyNext == OwnInv /\ CopyInv /\ [Next]_vars => CopyInv'
  <1> SUFFICES ASSUME OwnInv, CopyInv, [Next]_vars PROVE CopyInv'
    OBVIOUS
  <1>1. CASE UNCHANGED vars
    <2>1. UNCHANGED <<inbound, outbound, fate, threadVars, readerVars>>
      BY Zenon, <1>1 DEF vars, deviceVars
    <2> QED BY Zenon, <2>1, ThreadsKept, ReadersKept, QuietCopies
  <1>2. ASSUME NEW c \in Peer, Receive(c) PROVE CopyInv'
    BY Zenon, <1>2, CopyControl, CopyRecvData DEF Receive, Control
  <1>3. ASSUME NEW c \in Peer, Work_on(c) PROVE CopyInv'
    BY Zenon, <1>3, CopyControl, CopyForward, CopyWriteBody DEF Work_on, Control
  <1>4. ASSUME NEW x \in Xbuf, ReaderStep(x) PROVE CopyInv'
    BY Zenon, <1>4, CopyReader, CopyReaderRead, CopyReaderFind DEF ReaderStep
  <1> QED BY Zenon, <1>1, <1>2, <1>3, <1>4, CopyConn, CopyEvlProcess, CopyEvlSend DEF Next
LEMMA CopyHolds == Spec => []CopyInv
  BY CopyInit, CopyNext, OwnHolds, PTL DEF Spec

\* The router neither copies nor forgets a message, however its threads
\* interleave and whatever is registered and removed meanwhile: one on its way
\* is in one ring or in the hands of one thread, a settled one is nowhere.
THEOREM RouterOneCopy == Spec => []OneCopy
  <1>1. OwnInv /\ CopyInv => OneCopy
    <2> SUFFICES ASSUME OwnInv, CopyInv, NEW d \in Data
                 PROVE Cardinality(Places(d)) = IF fate[d] = "routing" THEN 1 ELSE 0
      BY Zenon DEF OneCopy
    <2> DEFINE Spot(x, t, i) ==
                 \/ t = "in" /\ x \in Evl /\ i \in 1 .. Len(inbound[x]) /\ inbound[x][i] = d
                 \/ t = "out" /\ x \in Evl /\ i \in 1 .. Len(outbound[x]) /\ outbound[x][i] = d
                 \/ t = "reader" /\ i = 0 /\ x \in Xbuf /\ rpc[x] \in Fetched /\ rmsg[x] = d
                 \/ t = "thread" /\ i = 0 /\ x \in Peer /\ pc[x] \in Carrying /\ frame[x].data = d
    <2>1. \A p : p \in Places(d) <=> \E x \in Where, t \in Kind : \E i : p = <<x, t, i>> /\ Spot(x, t, i)
      <3> DEFINE In(m) == {<<m, "in", i>> : i \in Positions(inbound[m], d)}
                 Out(m) == {<<m, "out", i>> : i \in Positions(outbound[m], d)}
                 Reads == {<<x, "reader", 0>> : x \in {y \in Xbuf : rpc[y] \in {"find", "forward"} /\ rmsg[y] = d}}
                 Hands == {<<c, "thread", 0>> : c \in {b \in Peer : /\ pc[b] \in {"forward", "write", "upstream"}
                                                                    /\ frame[b].data = d}}
      <3>1. \A m \in Evl : \A i : i \in Positions(inbound[m], d) <=> Spot(m, "in", i)
        <4>1. \A m \in Evl : DOMAIN inbound[m] = 1 .. Len(inbound[m])
          BY DEF CopyInv, DataTypes
        <4> QED BY Zenon, <4>1 DEF Positions
      <3>2. \A m \in Evl : \A i : i \in Positions(outbound[m], d) <=> Spot(m, "out", i)
        <4>1. \A m \in Evl : DOMAIN outbound[m] = 1 .. Len(outbound[m])
          BY DEF OwnInv, Outgoing
        <4> QED BY Zenon, <4>1 DEF Positions
      <3>3. \A p : p \in Reads <=> \E x \in Xbuf : p = <<x, "reader", 0>> /\ Spot(x, "reader", 0)
        BY Zenon DEF Fetched
      <3>4. \A p : p \in Hands <=> \E c \in Peer : p = <<c, "thread", 0>> /\ Spot(c, "thread", 0)
        BY Zenon DEF Carrying
      <3>5. \A p : \A m \in Evl : p \in In(m) <=> \E i : p = <<m, "in", i>> /\ Spot(m, "in", i)
        BY Zenon, <3>1
      <3>6. \A p : \A m \in Evl : p \in Out(m) <=> \E i : p = <<m, "out", i>> /\ Spot(m, "out", i)
        BY Zenon, <3>2
      <3>7. \A p : p \in Places(d) <=> \/ \E m \in Evl : p \in In(m)
                                       \/ \E m \in Evl : p \in Out(m)
                                       \/ p \in Reads
                                       \/ p \in Hands
        <4> DEFINE I == UNION {In(m) : m \in Evl}
                   O == UNION {Out(m) : m \in Evl}
        <4>1. Places(d) = I \cup O \cup Reads \cup Hands
          BY Zenon DEF Places
        <4> HIDE DEF In, Out, Reads, Hands
        <4>2. \A p : p \in I <=> \E m \in Evl : p \in In(m)
          BY Zenon
        <4>3. \A p : p \in O <=> \E m \in Evl : p \in Out(m)
          BY Zenon
        <4> HIDE DEF I, O
        <4> QED BY ONLY Zenon, <4>1, <4>2, <4>3
      <3>8. \A x, i : /\ Spot(x, "in", i) => x \in Evl
                      /\ Spot(x, "out", i) => x \in Evl
                      /\ Spot(x, "reader", i) => x \in Xbuf /\ i = 0
                      /\ Spot(x, "thread", i) => x \in Peer /\ i = 0
        BY ZenonT(40)
      <3>9. \A t \in Kind : t = "in" \/ t = "out" \/ t = "reader" \/ t = "thread"
        BY Zenon DEF Kind
      <3> HIDE DEF In, Out, Reads, Hands, Spot
      <3>10. ASSUME NEW p, NEW x \in Where, NEW t \in Kind, NEW i, p = <<x, t, i>>, Spot(x, t, i)
             PROVE p \in Places(d)
        <4>1. CASE t = "in"
          BY Zenon, <3>5, <3>7, <3>8, <3>10, <4>1
        <4>2. CASE t = "out"
          BY Zenon, <3>6, <3>7, <3>8, <3>10, <4>2
        <4>3. CASE t = "reader"
          <5>1. x \in Xbuf /\ i = 0 /\ p = <<x, "reader", 0>> /\ Spot(x, "reader", 0)
            <6>1. Spot(x, "reader", i)
              BY Zenon, <3>10, <4>3
            <6>2. x \in Xbuf /\ i = 0
              BY <6>1 DEF Spot
            <6> QED BY Zenon, <3>10, <4>3, <6>1, <6>2
          <5> QED BY Zenon, <3>3, <3>7, <5>1
        <4>4. CASE t = "thread"
          <5>1. x \in Peer /\ i = 0 /\ p = <<x, "thread", 0>> /\ Spot(x, "thread", 0)
            <6>1. Spot(x, "thread", i)
              BY Zenon, <3>10, <4>4
            <6>2. x \in Peer /\ i = 0
              BY <6>1 DEF Spot
            <6> QED BY Zenon, <3>10, <4>4, <6>1, <6>2
          <5> QED BY Zenon, <3>4, <3>7, <5>1
        <4> QED BY Zenon, <3>9, <4>1, <4>2, <4>3, <4>4
      <3>11. ASSUME NEW p, p \in Places(d)
             PROVE \E x \in Where, t \in Kind : \E i : p = <<x, t, i>> /\ Spot(x, t, i)
        BY Zenon, <3>3, <3>4, <3>5, <3>6, <3>7, <3>11 DEF Kind, Where
      <3> QED BY Zenon, <3>10, <3>11
    <2>2. ASSUME NEW x \in Where, NEW t \in Kind, NEW i, Spot(x, t, i) PROVE d \in Content(t, x)
      BY <2>2 DEF Content, Within
    <2>3. ASSUME NEW x \in Where, NEW t \in Kind, d \in Content(t, x) PROVE \E i : Spot(x, t, i)
      BY Zenon, <2>3 DEF Content, Within, Kind
    <2>4. ASSUME NEW x \in Where, NEW t \in Kind, NEW i, NEW j, Spot(x, t, i), Spot(x, t, j) PROVE i = j
      <3>1. CASE t = "in"
        BY Zenon, <2>4, <3>1 DEF CopyInv, Singles, Single
      <3>2. CASE t = "out"
        BY Zenon, <2>4, <3>2 DEF CopyInv, Singles, Single
      <3>3. CASE t \in {"reader", "thread"}
        BY Zenon, <2>4, <3>3
      <3> QED BY Zenon, <3>1, <3>2, <3>3 DEF Kind
    <2> HIDE DEF Spot
    <2>5. CASE fate[d] = "routing"
      <3>1. PICK x \in Where, t \in Kind : d \in Content(t, x)
        BY Zenon, <2>5 DEF CopyInv, Located
      <3>2. PICK i : Spot(x, t, i)
        BY Zenon, <2>3, <3>1
      <3>3. \A p : p \in Places(d) <=> p = <<x, t, i>>
        <4>1. ASSUME NEW y \in Where, NEW u \in Kind, NEW j, Spot(y, u, j) PROVE <<y, u, j>> = <<x, t, i>>
          <5>1. y = x /\ u = t
            BY <2>2, <3>1, <4>1 DEF CopyInv, Located
          <5> QED BY Zenon, <2>4, <3>2, <4>1, <5>1
        <4> QED BY Zenon, <2>1, <3>2, <4>1
      <3>4. Places(d) = {<<x, t, i>>}
        BY Zenon, <3>3
      <3>5. Cardinality({<<x, t, i>>}) = 1
        BY Zenon, FS_Singleton
      <3> QED BY Zenon, <2>5, <3>4, <3>5
    <2>6. CASE fate[d] # "routing"
      <3>1. \A x \in Where, t \in Kind : d \notin Content(t, x)
        BY Zenon, <2>6 DEF CopyInv, Located
      <3>2. Places(d) = {}
        BY Zenon, <2>1, <2>2, <3>1
      <3> QED BY <2>6, <3>2, FS_EmptySet
    <2> QED BY Zenon, <2>5, <2>6
  <1> QED BY <1>1, CopyHolds, OwnHolds, PTL
=============================================================================
