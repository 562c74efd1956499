-------------------------- MODULE TcpRouterProofs --------------------------
(***************************************************************************)
(* What TcpRouter promises for any network: type correctness, no route to  *)
(* a connection whose thread has ended, and, with one client per mailbox   *)
(* id, no route of a client removed by anybody else; then what it does     *)
(* with messages: one hop between routers at most, and one place until     *)
(* their fate is settled.                                                  *)
(***************************************************************************)
EXTENDS TcpRouter, FiniteSetTheorems, TLAPS

\* Mailboxes of the clients of router r
Owned(r) == {Id[k] : k \in {x \in Client : At[x] = r}}

\* A message in its frame, addressed to its destination
Message == {f \in FrameRecord : f.type = "data" /\ f.data \in Data /\ f.mbx = Dest[f.data]}

\* The frames that may be under way to the router on connection c: a client
\* names its own mailbox, a link those of the clients at its other end, and
\* only data frames carry a message.
Allowed(c) ==
  {f \in FrameRecord :
     /\ c \in Client /\ f.type \in {"init", "delete"} => f.mbx = Id[c]
     /\ c \in End /\ f.type \in {"peer_register", "peer_delete"} => f.mbx \in Owned(At[Far[c]])
     /\ f \in Message \/ (f.type # "data" /\ f.data = None)}

Frames == \A c \in Conn : inbox[c] \in Seq(Allowed(c))

\* What the frame and the loop of a thread are while it handles a frame
HandlingOf(c) ==
  /\ c \in Client /\ pc[c] \in {"accept", "insert", "erase", "peers", "broadcast"}
       => frame[c].mbx = Id[c]
  /\ c \in Client /\ pc[c] = "broadcast" => \A e \in todo[c] : e \in End /\ At[e] = At[c]
  /\ c \in End /\ pc[c] = "advertise" => todo[c] \subseteq Owned(At[c])
  /\ pc[c] \in {"forward", "upstream"} => frame[c] \in Message
  /\ pc[c] = "forward" => todo[c] \subseteq Client \cup End

Handling == \A c \in Conn : HandlingOf(c)

Local == \A r \in Router : local_mailboxes[r] \subseteq Owned(r)

IInv == TypeOK /\ Frames /\ Handling /\ Local /\ NoDanglingRoute

\* The mailboxes of clients are mailboxes.
LEMMA OwnedMailboxes == \A r : Owned(r) \subseteq Mailbox
  BY NetworkAssumption DEF Owned, Conn

\* Connections of different kinds differ, and link ends have another end.
LEMMA Kinds ==
  /\ \A k \in Client : k \in Conn /\ k \notin End /\ k \notin Uplink /\ At[k] \in Router
                       /\ Id[k] \in Mailbox /\ Id[k] \in Owned(At[k])
  /\ \A e \in End : e \in Conn /\ e \notin Client /\ e \notin Uplink /\ At[e] \in Router
                    /\ Far[e] \in End /\ Far[Far[e]] = e
  /\ \A u \in Uplink : u \in Conn /\ u \notin Client /\ u \notin End /\ u # None
  /\ \A c \in Conn : At[c] \in Router /\ c # None
  BY NetworkAssumption DEF Conn, Owned

\* send_all() keeps the streams well formed if what it sends on a link names
\* only mailboxes of this end's router.
LEMMA SendToFrames ==
  ASSUME TypeOK, Frames, NEW c, NEW f \in FrameRecord, SendTo(c, f),
         c \in End => f \in Allowed(Far[c])
  PROVE /\ Frames'
        /\ inbox' \in [Conn -> Seq(FrameRecord)]
        /\ mail' \in [Client -> Seq(FrameRecord)]
  <1>1. mail' \in [Client -> Seq(FrameRecord)]
    BY DEF SendTo, TypeOK
  <1>2. CASE c \in End \cap open
    <2>1. inbox' = [inbox EXCEPT ![Far[c]] = Append(@, f)] /\ Far[c] \in Conn
      BY Zenon, <1>2, Kinds DEF SendTo
    <2>2. inbox' \in [Conn -> Seq(FrameRecord)]
      BY <2>1 DEF TypeOK
    <2>3. Frames'
      <3> SUFFICES ASSUME NEW x \in Conn PROVE inbox'[x] \in Seq(Allowed(x))
        BY Zenon DEF Frames, Allowed, Message, Owned
      <3>1. inbox[x] \in Seq(Allowed(x))
        BY Zenon DEF Frames
      <3>2. inbox'[x] = IF x = Far[c] THEN Append(inbox[x], f) ELSE inbox[x]
        BY Zenon, <2>1 DEF TypeOK
      <3> QED BY <1>2, <3>1, <3>2
    <2> QED BY Zenon, <1>1, <2>2, <2>3
  <1>3. CASE c \notin End \cap open
    <2>1. inbox' = inbox
      BY Zenon, <1>3 DEF SendTo
    <2> QED BY Zenon, <1>1, <2>1 DEF Frames, TypeOK, Allowed, Message, Owned
  <1> QED BY Zenon, <1>2, <1>3

\* A thread that reads a frame gets one its connection may carry.
LEMMA ReadFrames ==
  ASSUME TypeOK, Frames, NEW c \in Conn, NEW t, Read(c, t)
  PROVE /\ Frames'
        /\ inbox' \in [Conn -> Seq(FrameRecord)]
        /\ Head(inbox[c]) \in Allowed(c) /\ Head(inbox[c]) \in FrameRecord
        /\ Head(inbox[c]).type = t
  <1>1. inbox[c] \in Seq(Allowed(c)) /\ inbox[c] # <<>> /\ inbox[c] \in Seq(FrameRecord)
    BY Zenon DEF Frames, Read, TypeOK
  <1>2. inbox' = [inbox EXCEPT ![c] = Tail(@)]
    BY Zenon DEF Read
  <1>3. Head(inbox[c]) \in Allowed(c) /\ Tail(inbox[c]) \in Seq(Allowed(c))
        /\ Tail(inbox[c]) \in Seq(FrameRecord)
    BY <1>1
  <1>4. Frames'
    <2> SUFFICES ASSUME NEW x \in Conn PROVE inbox'[x] \in Seq(Allowed(x))
      BY Zenon DEF Frames
    <2> QED BY Zenon, <1>2, <1>3 DEF Frames, TypeOK
  <1>5. inbox' \in [Conn -> Seq(FrameRecord)]
    BY Zenon, <1>2, <1>3 DEF TypeOK
  <1> QED BY Zenon, <1>3, <1>4, <1>5 DEF Read, Allowed

\* A network before any router is up satisfies the inductive invariant.
LEMMA InitIInv == Init => IInv
  <1> SUFFICES ASSUME Init PROVE IInv
    BY Zenon
  <1> USE NetworkAssumption DEF Init
  <1>1. Hello \in FrameRecord
    BY Zenon DEF Hello, Frame, FrameRecord, FrameType
  <1>2. TypeOK
    BY <1>1 DEF TypeOK, PC, Conn
  <1>3. Frames
    BY DEF Frames
  <1>4. Handling /\ Local /\ NoDanglingRoute
    BY Zenon DEF Handling, HandlingOf, Local, NoDanglingRoute, Conn
  <1> QED BY Zenon, <1>2, <1>3, <1>4 DEF IInv

-----------------------------------------------------------------------------
(* What the parts of a step preserve.                                      *)

Threads == /\ pc \in [Conn -> PC] /\ frame \in [Conn -> FrameRecord]
           /\ todo \in [Conn -> SUBSET (Client \cup End \cup Mailbox)]

\* A thread that moves on leaves the others where they are.
LEMMA WorkHandling ==
  ASSUME TypeOK, Handling, NEW c \in Conn, NEW l \in PC, NEW f \in FrameRecord,
         NEW S \in SUBSET (Client \cup End \cup Mailbox), Work(c, l, f, S),
         c \in Client /\ l \in {"accept", "insert", "erase", "peers", "broadcast"}
           => f.mbx = Id[c],
         c \in Client /\ l = "broadcast" => \A e \in S : e \in End /\ At[e] = At[c],
         c \in End /\ l = "advertise" => S \subseteq Owned(At[c]),
         l \in {"forward", "upstream"} => f \in Message,
         l = "forward" => S \subseteq Client \cup End
  PROVE Handling' /\ Threads'
  <1>1. /\ pc' = [pc EXCEPT ![c] = l] /\ frame' = [frame EXCEPT ![c] = f]
        /\ todo' = [todo EXCEPT ![c] = S]
    BY Zenon DEF Work, Goto
  <1>2. Threads'
    BY Zenon, <1>1 DEF Threads, TypeOK
  <1>3. ASSUME NEW x \in Conn PROVE HandlingOf(x)'
    <2>1. CASE x = c
      <3>1. pc'[x] = l /\ frame'[x] = f /\ todo'[x] = S
        BY Zenon, <1>1, <2>1 DEF TypeOK
      <3> QED BY Zenon, <2>1, <3>1 DEF HandlingOf, Owned
    <2>2. CASE x # c
      <3>1. pc'[x] = pc[x] /\ frame'[x] = frame[x] /\ todo'[x] = todo[x]
        BY Zenon, <1>1, <2>2 DEF TypeOK
      <3> QED BY Zenon, <3>1 DEF Handling, HandlingOf, Owned
    <2> QED BY Zenon, <2>1, <2>2
  <1> QED BY Zenon, <1>2, <1>3 DEF Handling

\* Goto is Work that keeps frame and loop.
LEMMA GotoWork ==
  ASSUME TypeOK, NEW c \in Conn, NEW l, Goto(c, l), UNCHANGED <<frame, todo>>
  PROVE /\ Work(c, l, frame[c], todo[c]) /\ frame[c] \in FrameRecord
        /\ todo[c] \in SUBSET (Client \cup End \cup Mailbox)
  BY Zenon DEF Work, TypeOK

\* Threads that do not move keep their state.
LEMMA SameHandling ==
  ASSUME TypeOK, Handling, UNCHANGED threadVars
  PROVE Handling' /\ Threads'
  BY Zenon DEF Handling, HandlingOf, Threads, TypeOK, threadVars, Owned

\* Streams nobody touches stay well formed.
LEMMA SameFrames ==
  ASSUME TypeOK, Frames, UNCHANGED inbox
  PROVE Frames' /\ inbox' \in [Conn -> Seq(FrameRecord)]
  BY Zenon DEF Frames, TypeOK, Allowed, Message, Owned

Routes == registry \in [Router -> [Mailbox -> Client \cup End \cup {None}]]

\* No route changes and no thread ends.
LEMMA SameRoutes ==
  ASSUME TypeOK, NoDanglingRoute, UNCHANGED registry,
         \A c \in Conn : pc'[c] = "exit" => pc[c] = "exit"
  PROVE NoDanglingRoute' /\ Routes'
  BY Zenon DEF NoDanglingRoute, Routes, TypeOK

\* Where a thread that does not end goes, the others stay.
LEMMA GotoAlive ==
  ASSUME TypeOK, NEW c \in Conn, NEW l \in PC, Goto(c, l), l # "exit"
  PROVE \A x \in Conn : pc'[x] = "exit" => pc[x] = "exit" /\ x # c
  BY Zenon DEF Goto, TypeOK

\* registry_.add(): the new route leads to a thread that runs.
LEMMA AddRoutes ==
  ASSUME TypeOK, NoDanglingRoute, NEW c \in Client \cup End, NEW m \in Mailbox, add(c, m),
         \A x \in Conn : pc'[x] = "exit" => pc[x] = "exit" /\ x # c
  PROVE NoDanglingRoute' /\ Routes'
  <1>1. At[c] \in Router
    BY Zenon, Kinds
  <1>2. Routes'
    BY Zenon, <1>1 DEF add, Routes, TypeOK
  <1>3. \A r \in Router, n \in Mailbox : registry'[r][n] \in {registry[r][n], c}
    BY Zenon, <1>1 DEF add, TypeOK
  <1>4. NoDanglingRoute'
    BY <1>3, Kinds DEF NoDanglingRoute
  <1> QED BY Zenon, <1>2, <1>4

\* registry_.remove()
LEMMA RemoveRoutes ==
  ASSUME TypeOK, NoDanglingRoute, NEW c \in Conn, NEW m \in Mailbox, remove(c, m),
         \A x \in Conn : pc'[x] = "exit" => pc[x] = "exit"
  PROVE NoDanglingRoute' /\ Routes'
  <1>1. At[c] \in Router
    BY Zenon, Kinds
  <1>2. Routes'
    BY Zenon, <1>1 DEF remove, Routes, TypeOK
  <1>3. \A r \in Router, n \in Mailbox : registry'[r][n] \in {registry[r][n], None}
    BY Zenon, <1>1 DEF remove, TypeOK
  <1>4. NoDanglingRoute'
    BY <1>3, Kinds DEF NoDanglingRoute
  <1> QED BY Zenon, <1>2, <1>4

\* registry_.remove_all() before the thread ends
LEMMA RemoveAllRoutes ==
  ASSUME TypeOK, NoDanglingRoute, NEW c \in Conn, remove_all(c), Goto(c, "exit")
  PROVE NoDanglingRoute' /\ Routes'
  <1>1. At[c] \in Router
    BY Zenon, Kinds
  <1>2. Routes'
    BY <1>1 DEF remove_all, Routes, TypeOK
  <1>3. \A r \in Router, n \in Mailbox :
          /\ registry'[r][n] \in {registry[r][n], None}
          /\ registry'[At[c]][n] # c
    BY <1>1, Kinds DEF remove_all, TypeOK
  <1>4. \A x \in Conn : pc'[x] = "exit" => pc[x] = "exit" \/ x = c
    BY Zenon DEF Goto, TypeOK
  <1>5. NoDanglingRoute'
    BY <1>3, <1>4, Kinds DEF NoDanglingRoute
  <1> QED BY Zenon, <1>2, <1>5

Fates == fate \in [Data -> {"unsent", "routing", "delivered", "upstream", "refused", "lost"}]

\* Losing messages settles their fate.
LEMMA LoseFates == ASSUME TypeOK, NEW D, Lose(D) PROVE Fates'
  BY Zenon DEF Lose, Fates, TypeOK

-----------------------------------------------------------------------------
(* The steps.                                                              *)

\* The rest of TypeOK: what no thread's handler is at the centre of
Others ==
  /\ local_mailboxes \in [Router -> SUBSET Mailbox]
  /\ accepting \subseteq Router /\ open \subseteq Conn
  /\ listed \subseteq End /\ is_peer \subseteq End
  /\ client \in [Client -> {"off", "waiting", "ready", "garbled", "deleted", "closed"}]
Streams == inbox \in [Conn -> Seq(FrameRecord)] /\ mail \in [Client -> Seq(FrameRecord)]

\* The parts of the invariant make it up.
LEMMA Assemble ==
  ASSUME Routes', Others', Threads', Streams', Fates',
         Frames', Handling', Local', NoDanglingRoute'
  PROVE IInv'
  BY Zenon DEF IInv, TypeOK, Routes, Others, Threads, Streams, Fates

\* Local depends on local_mailboxes alone.
LEMMA SameLocal == ASSUME Local, UNCHANGED local_mailboxes PROVE Local'
  BY Zenon DEF Local, Owned

\* The steps of TcpRouter::run
LEMMA RouterIInv ==
  ASSUME IInv,
         \/ \E r \in Router : RouterStep(r)
         \/ \E e \in End : ConnectPeer(e)
         \/ \E c \in Conn : Break(c)
  PROVE IInv'
  <1> USE DEF IInv
  <1>1. ASSUME NEW r \in Router, Listen(r) PROVE IInv'
    <2>1. Others' /\ Streams' /\ Fates' /\ UNCHANGED <<registry, local_mailboxes, threadVars, inbox>>
      BY Zenon, <1>1 DEF Listen, TypeOK, Others, Streams, Fates, routeVars
    <2>2. NoDanglingRoute' /\ Routes'
      BY Zenon, <2>1, SameRoutes DEF threadVars
    <2> QED BY Zenon, <2>1, <2>2, SameHandling, SameFrames, SameLocal, Assemble
  <1>2. ASSUME NEW e \in End, List(e) PROVE IInv'
    <2>1. Others' /\ Streams' /\ Fates' /\ UNCHANGED <<registry, local_mailboxes, threadVars, inbox>>
      BY Zenon, <1>2 DEF List, TypeOK, Others, Streams, Fates, routeVars
    <2>2. NoDanglingRoute' /\ Routes'
      BY Zenon, <2>1, SameRoutes DEF threadVars
    <2> QED BY Zenon, <2>1, <2>2, SameHandling, SameFrames, SameLocal, Assemble
  <1>3. ASSUME NEW e \in End, Accept(e) PROVE IInv'
    <2>1. /\ Others' /\ Streams' /\ Fates' /\ Goto(e, "run") /\ e \in Conn /\ "run" \in PC
          /\ UNCHANGED <<registry, local_mailboxes, frame, todo, inbox>>
      BY Zenon, <1>3, Kinds DEF Accept, TypeOK, Others, Streams, Fates, routeVars, linkVars, PC
    <2>2. NoDanglingRoute' /\ Routes'
      BY Zenon, <2>1, SameRoutes, GotoAlive
    <2>3. Handling' /\ Threads'
      BY <2>1, GotoWork, WorkHandling
    <2> QED BY Zenon, <2>1, <2>2, <2>3, SameFrames, SameLocal, Assemble
  <1>4. ASSUME NEW e \in End, ConnectPeer(e) PROVE IInv'
    <2>1. /\ Others' /\ Streams' /\ Fates' /\ Goto(e, "hello") /\ e \in Conn /\ "hello" \in PC
          /\ UNCHANGED <<registry, local_mailboxes, frame, todo, inbox>>
      BY <1>4, Kinds DEF ConnectPeer, TypeOK, Others, Streams, Fates, routeVars, PC
    <2>2. NoDanglingRoute' /\ Routes'
      BY Zenon, <2>1, SameRoutes, GotoAlive
    <2>3. Handling' /\ Threads'
      BY <2>1, GotoWork, WorkHandling, SMTT(30)
    <2> QED BY Zenon, <2>1, <2>2, <2>3, SameFrames, SameLocal, Assemble
  <1>5. ASSUME NEW c \in Conn, Break(c) PROVE IInv'
    <2>1. Others' /\ Streams' /\ Fates' /\ UNCHANGED <<registry, local_mailboxes, threadVars, inbox>>
      BY Zenon, <1>5 DEF Break, TypeOK, Others, Streams, Fates, routeVars
    <2>2. NoDanglingRoute' /\ Routes'
      BY Zenon, <2>1, SameRoutes DEF threadVars
    <2> QED BY Zenon, <2>1, <2>2, SameHandling, SameFrames, SameLocal, Assemble
  <1> QED BY Zenon, <1>1, <1>2, <1>3, <1>4, <1>5 DEF RouterStep

\* The steps of the clients, and of routers upstream that send
LEMMA UserIInv ==
  ASSUME IInv, (\E k \in Client : UserStep(k)) \/ (\E d \in Data : Send(d))
  PROVE IInv'
  <1> USE DEF IInv
  <1>1. ASSUME NEW k \in Client, Connect(k) PROVE IInv'
    <2> DEFINE f == Frame("init", Id[k])
    <2>1. /\ Others' /\ Fates' /\ mail' = mail /\ Goto(k, "run") /\ k \in Conn /\ "run" \in PC
          /\ inbox' = [inbox EXCEPT ![k] = <<f>>]
          /\ UNCHANGED <<registry, local_mailboxes, frame, todo>>
      BY <1>1, Kinds DEF Connect, TypeOK, Others, Fates, routeVars, PC
    <2>2. f \in FrameRecord /\ f \in Allowed(k)
      BY Zenon, Kinds DEF Allowed, Frame, FrameRecord, FrameType
    <2>3. Streams'
      BY <2>1, <2>2 DEF Streams, TypeOK
    <2>4. Frames'
      <3> HIDE DEF f
      <3>1. \A x \in Conn : inbox'[x] = IF x = k THEN <<f>> ELSE inbox[x]
        BY Zenon, <2>1 DEF TypeOK
      <3>2. <<f>> \in Seq(Allowed(k))
        BY ONLY <2>2
      <3>3. \A x \in Conn : inbox[x] \in Seq(Allowed(x))
        BY Zenon DEF Frames
      <3>4. \A x \in Conn : inbox'[x] \in Seq(Allowed(x))
        BY ONLY <3>1, <3>2, <3>3
      <3> QED BY ONLY <3>4 DEF Frames, Allowed, Message, Owned
    <2>5. NoDanglingRoute' /\ Routes'
      BY Zenon, <2>1, SameRoutes, GotoAlive
    <2>6. Handling' /\ Threads'
      BY Zenon, <2>1, GotoWork, WorkHandling
    <2> QED BY Zenon, <2>1, <2>3, <2>4, <2>5, <2>6, SameLocal, Assemble
  <1>2. ASSUME NEW k \in Client, Reply(k) \/ Receive(k) \/ Shutdown(k) PROVE IInv'
    <2>1. UNCHANGED <<registry, local_mailboxes, threadVars, inbox>>
      BY Zenon, <1>2 DEF Reply, Receive, Shutdown, routeVars
    <2>2. Others'
      BY Zenon, <1>2 DEF Reply, Receive, Shutdown, Close, Others, TypeOK, linkVars, routeVars
    <2>3. Streams'
      <3>1. mail[k] \in Seq(FrameRecord)
        BY Zenon DEF TypeOK
      <3>2. mail[k] # <<>> => Tail(mail[k]) \in Seq(FrameRecord)
        BY <3>1
      <3>3. \/ mail[k] # <<>> /\ mail' = [mail EXCEPT ![k] = Tail(@)]
            \/ mail' = [mail EXCEPT ![k] = <<>>]
        BY Zenon, <1>2 DEF Reply, Receive, Shutdown, Close
      <3>4. \E q \in Seq(FrameRecord) : mail' = [mail EXCEPT ![k] = q]
        <4>1. CASE mail[k] # <<>> /\ mail' = [mail EXCEPT ![k] = Tail(@)]
          BY Zenon, <3>2, <4>1
        <4>2. CASE mail' = [mail EXCEPT ![k] = <<>>]
          <5>1. <<>> \in Seq(FrameRecord)
            OBVIOUS
          <5> QED BY Zenon, <4>2, <5>1
        <4> QED BY Zenon, <3>3, <4>1, <4>2
      <3>5. mail \in [Client -> Seq(FrameRecord)] /\ inbox \in [Conn -> Seq(FrameRecord)]
        BY Zenon DEF TypeOK
      <3> QED BY ONLY <2>1, <3>4, <3>5 DEF Streams
    <2>4. Fates'
      <3>1. CASE Receive(k)
        BY Zenon, <3>1 DEF Receive, Fates, TypeOK
      <3>2. CASE Reply(k) \/ Shutdown(k)
        <4>1. \E D : Lose(D)
          BY Zenon, <3>2 DEF Reply, Shutdown, Close
        <4> QED BY Zenon, <4>1, LoseFates
      <3> QED BY Zenon, <1>2, <3>1, <3>2
    <2>5. NoDanglingRoute' /\ Routes'
      BY Zenon, <2>1, SameRoutes DEF threadVars
    <2> QED BY Zenon, <2>1, <2>2, <2>3, <2>4, <2>5, SameHandling, SameFrames, SameLocal, Assemble
  <1>3. ASSUME NEW c \in Conn, NEW f \in FrameRecord, f \in Allowed(c),
               inbox' = [inbox EXCEPT ![c] = Append(@, f)], mail' = mail
        PROVE Frames' /\ Streams'
    <2>1. Streams'
      BY <1>3 DEF Streams, TypeOK
    <2>2. \A x \in Conn : inbox'[x] = IF x = c THEN Append(inbox[x], f) ELSE inbox[x]
      BY Zenon, <1>3 DEF TypeOK
    <2>3. \A x \in Conn : inbox[x] \in Seq(Allowed(x))
      BY Zenon DEF Frames
    <2>4. \A x \in Conn : inbox'[x] \in Seq(Allowed(x))
      BY <1>3, <2>2, <2>3
    <2> QED BY Zenon, <2>1, <2>4 DEF Frames
  <1>4. ASSUME NEW k \in Client, Unregister(k) PROVE IInv'
    <2> DEFINE f == Frame("delete", Id[k])
    <2>1. /\ Others' /\ Fates' /\ mail' = mail /\ k \in Conn
          /\ inbox' = [inbox EXCEPT ![k] = Append(@, f)]
          /\ UNCHANGED <<registry, local_mailboxes, threadVars>>
      BY Zenon, <1>4, Kinds DEF Unregister, TypeOK, Others, Fates, routeVars, linkVars
    <2>2. f \in FrameRecord /\ f \in Allowed(k)
      BY Zenon, Kinds DEF Allowed, Frame, FrameRecord, FrameType
    <2>3. NoDanglingRoute' /\ Routes'
      BY Zenon, <2>1, SameRoutes DEF threadVars
    <2> HIDE DEF f
    <2> QED BY Zenon, <1>3, <2>1, <2>2, <2>3, SameHandling, SameLocal, Assemble
  <1>5. ASSUME NEW d \in Data, Send(d) PROVE IInv'
    <2>1. /\ Others' /\ Fates' /\ mail' = mail /\ Src[d] \in Conn
          /\ inbox' = [inbox EXCEPT ![Src[d]] = Append(@, DataFrame(d))]
          /\ UNCHANGED <<registry, local_mailboxes, threadVars>>
      BY Zenon, <1>5, NetworkAssumption DEF Send, TypeOK, Others, Fates, routeVars, linkVars, Conn
    <2>2. DataFrame(d) \in FrameRecord /\ DataFrame(d) \in Allowed(Src[d])
      BY Zenon, NetworkAssumption DEF Allowed, Message, DataFrame, FrameRecord, FrameType
    <2>3. NoDanglingRoute' /\ Routes'
      BY Zenon, <2>1, SameRoutes DEF threadVars
    <2> QED BY Zenon, <1>3, <2>1, <2>2, <2>3, SameHandling, SameLocal, Assemble
  <1> QED BY Zenon, <1>1, <1>2, <1>4, <1>5 DEF UserStep

\* The steps of a link thread
LEMMA LinkIInv ==
  ASSUME IInv, NEW e \in End, LinkStep(e)
  PROVE IInv'
  <1> USE DEF IInv
  <1>0. e \in Conn /\ e \notin Client /\ Far[e] \in End /\ Far[Far[e]] = e /\ At[e] \in Router
    BY Zenon, Kinds
  <1>h. Hello \in FrameRecord /\ Hello \in Allowed(Far[e])
    BY Zenon, <1>0, Kinds DEF Hello, Frame, FrameRecord, FrameType, Allowed
  <1>1. CASE RecvHello(e)
    <2>1. /\ Read(e, "hello") /\ Others' /\ Fates' /\ mail' = mail
          /\ UNCHANGED <<registry, local_mailboxes, frame, todo>>
          /\ UNCHANGED pc \/ Goto(e, "hello")
      BY Zenon, <1>1 DEF RecvHello, Others, Fates, TypeOK, routeVars, Goto
    <2>2. Frames' /\ Streams'
      BY Zenon, <1>0, <2>1, ReadFrames DEF Streams, TypeOK
    <2>3. "hello" \in PC
      BY Zenon DEF PC
    <2>4. Handling' /\ Threads'
      <3>1. CASE UNCHANGED pc
        BY Zenon, <2>1, <3>1, SameHandling DEF threadVars
      <3>2. CASE Goto(e, "hello")
        BY Zenon, <1>0, <2>1, <2>3, <3>2, GotoWork, WorkHandling
      <3> QED BY Zenon, <2>1, <3>1, <3>2
    <2>5. NoDanglingRoute' /\ Routes'
      BY Zenon, <1>0, <2>1, <2>3, SameRoutes, GotoAlive
    <2> QED BY Zenon, <2>1, <2>2, <2>4, <2>5, SameLocal, Assemble
  <1>2. CASE SendHello(e)
    <2>1. /\ SendTo(e, Hello) /\ Others' /\ Fates' /\ Goto(e, "snapshot") /\ "snapshot" \in PC
          /\ UNCHANGED <<registry, local_mailboxes, frame, todo>>
      BY Zenon, <1>2 DEF SendHello, Others, Fates, TypeOK, routeVars, linkVars, PC
    <2>2. Frames' /\ Streams'
      BY Zenon, <1>h, <2>1, SendToFrames DEF Streams
    <2>3. Handling' /\ Threads'
      BY Zenon, <1>0, <2>1, GotoWork, WorkHandling
    <2>4. NoDanglingRoute' /\ Routes'
      BY Zenon, <1>0, <2>1, SameRoutes, GotoAlive
    <2> QED BY Zenon, <2>1, <2>2, <2>3, <2>4, SameLocal, Assemble
  <1>3. CASE local_mailboxes_snapshot(e)
    <2> DEFINE L == local_mailboxes[At[e]]
               l == IF L = {} THEN "run" ELSE "advertise"
    <2>1. /\ Others' /\ Fates' /\ Streams' /\ Work(e, l, Hello, L)
          /\ UNCHANGED <<registry, local_mailboxes, inbox>>
      BY Zenon, <1>3 DEF local_mailboxes_snapshot, Others, Fates, Streams, TypeOK, routeVars, linkVars
    <2>2. L \subseteq Owned(At[e]) /\ L \in SUBSET (Client \cup End \cup Mailbox)
      BY Zenon, <1>0, OwnedMailboxes DEF Local
    <2>3. l \in PC /\ l \in {"run", "advertise"}
      BY Zenon DEF PC
    <2> HIDE DEF L, l
    <2>4. Handling' /\ Threads'
      BY Zenon, <1>0, <1>h, <2>1, <2>2, <2>3, WorkHandling
    <2>5. NoDanglingRoute' /\ Routes'
      BY Zenon, <1>0, <2>1, <2>3, SameRoutes, GotoAlive DEF Work
    <2> QED BY Zenon, <2>1, <2>4, <2>5, SameFrames, SameLocal, Assemble
  <1>4. CASE Advertise(e)
    <2>1. PICK m \in todo[e] :
            /\ SendTo(e, Frame("peer_register", m))
            /\ Work(e, IF todo[e] = {m} THEN "run" ELSE "advertise", Hello, todo[e] \ {m})
      BY Zenon, <1>4 DEF Advertise
    <2> DEFINE l == IF todo[e] = {m} THEN "run" ELSE "advertise"
               f == Frame("peer_register", m)
    <2>2. pc[e] = "advertise" /\ Others' /\ Fates' /\ UNCHANGED <<registry, local_mailboxes>>
      BY Zenon, <1>4 DEF Advertise, Others, Fates, TypeOK, routeVars, linkVars
    <2>3. todo[e] \subseteq Owned(At[e])
      BY Zenon, <1>0, <2>2 DEF Handling, HandlingOf
    <2>4. m \in Owned(At[e]) /\ m \in Mailbox
      BY Zenon, <2>3, OwnedMailboxes
    <2>5. f \in FrameRecord /\ f \in Allowed(Far[e])
      BY Zenon, <1>0, <2>4, Kinds DEF Allowed, Frame, FrameRecord, FrameType
    <2>6. l \in PC /\ l \in {"run", "advertise"} /\ Work(e, l, Hello, todo[e] \ {m})
          /\ SendTo(e, f) /\ todo[e] \ {m} \in SUBSET (Client \cup End \cup Mailbox)
          /\ todo[e] \ {m} \subseteq Owned(At[e])
      BY Zenon, <2>1, <2>3, OwnedMailboxes DEF PC
    <2> HIDE DEF l, f
    <2>7. Frames' /\ Streams'
      BY Zenon, <2>5, <2>6, SendToFrames DEF Streams
    <2>8. Handling' /\ Threads'
      BY Zenon, <1>0, <1>h, <2>6, WorkHandling
    <2>9. NoDanglingRoute' /\ Routes'
      BY Zenon, <1>0, <2>2, <2>6, SameRoutes, GotoAlive DEF Work
    <2> QED BY Zenon, <2>2, <2>7, <2>8, <2>9, SameLocal, Assemble
  <1>5. CASE RecvPeerRegister(e) \/ RecvPeerDelete(e)
    <2>1. /\ Others' /\ Fates' /\ mail' = mail /\ UNCHANGED <<local_mailboxes, threadVars>>
          /\ \E t \in {"peer_register", "peer_delete"} : Read(e, t)
          /\ UNCHANGED registry \/ add(e, Next_mbx(e)) \/ remove(e, Next_mbx(e))
          /\ pc[e] = "run"
      BY Zenon, <1>5 DEF RecvPeerRegister, RecvPeerDelete, Others, Fates, TypeOK, linkVars, Read
    <2>2. /\ Frames' /\ Streams' /\ Head(inbox[e]) \in Allowed(e)
          /\ Head(inbox[e]).type \in {"peer_register", "peer_delete"}
      BY Zenon, <1>0, <2>1, ReadFrames DEF Streams, TypeOK
    <2>3. Next_mbx(e) \in Mailbox
      BY Zenon, <2>2, OwnedMailboxes DEF Allowed, Next_mbx
    <2>4. \A x \in Conn : pc'[x] = "exit" => pc[x] = "exit" /\ x # e
      BY Zenon, <2>1 DEF threadVars
    <2>5. NoDanglingRoute' /\ Routes'
      BY Zenon, <1>0, <2>1, <2>3, <2>4, SameRoutes, AddRoutes, RemoveRoutes
    <2> QED BY Zenon, <2>1, <2>2, <2>5, SameHandling, SameLocal, Assemble
  <1> QED BY Zenon, <1>1, <1>2, <1>3, <1>4, <1>5 DEF LinkStep

\* The steps of a client's thread
LEMMA ClientIInv ==
  ASSUME IInv, NEW k \in Client, ClientStep(k)
  PROVE IInv'
  <1> USE DEF IInv
  <1>0. k \in Conn /\ k \notin End /\ At[k] \in Router /\ Id[k] \in Mailbox /\ Id[k] \in Owned(At[k])
    BY Zenon, Kinds
  <1>f. frame[k] \in FrameRecord /\ todo[k] \in SUBSET (Client \cup End \cup Mailbox)
    BY Zenon, <1>0 DEF TypeOK
  <1>1. CASE RecvInit(k) \/ RecvDelete(k)
    <2>1. PICK t \in {"init", "delete"}, l \in {"accept", "refuse", "erase"} :
            Read(k, t) /\ Work(k, l, Head(inbox[k]), {})
      BY Zenon, <1>1 DEF RecvInit, RecvDelete
    <2>2. /\ Others' /\ Fates' /\ mail' = mail /\ UNCHANGED local_mailboxes
          /\ add(k, Next_mbx(k)) \/ remove(k, Next_mbx(k))
      BY Zenon, <1>1 DEF RecvInit, RecvDelete, Others, Fates, TypeOK, linkVars
    <2>3. /\ Frames' /\ Streams' /\ Head(inbox[k]) \in Allowed(k)
          /\ Head(inbox[k]) \in FrameRecord /\ Head(inbox[k]).type \in {"init", "delete"}
      BY Zenon, <1>0, <2>1, <2>2, ReadFrames DEF Streams, TypeOK
    <2>4. Head(inbox[k]).mbx = Id[k] /\ Next_mbx(k) = Id[k]
      BY Zenon, <2>3 DEF Allowed, Next_mbx
    <2>5. l \in PC /\ {} \in SUBSET (Client \cup End \cup Mailbox)
      BY Zenon DEF PC
    <2>6. Handling' /\ Threads'
      BY Zenon, <1>0, <2>1, <2>3, <2>4, <2>5, WorkHandling
    <2>7. \A x \in Conn : pc'[x] = "exit" => pc[x] = "exit" /\ x # k
      BY Zenon, <1>0, <2>1, <2>5, GotoAlive DEF Work
    <2>8. NoDanglingRoute' /\ Routes'
      BY Zenon, <1>0, <2>2, <2>4, <2>7, AddRoutes, RemoveRoutes
    <2> QED BY Zenon, <2>2, <2>3, <2>6, <2>8, SameLocal, Assemble
  <1>2. CASE SendReply(k) \/ NoUpstream(k)
    <2>1. PICK t \in {"ok", "error"}, l \in {"insert", "run"} :
            /\ SendTo(k, Frame(t, None)) /\ Goto(k, l)
            /\ l = "insert" => pc[k] = "accept"
      BY Zenon, <1>2 DEF SendReply, NoUpstream
    <2>2. Others' /\ UNCHANGED <<registry, local_mailboxes, frame, todo>>
      BY Zenon, <1>2 DEF SendReply, NoUpstream, Others, TypeOK, routeVars, linkVars
    <2>3. Fates'
      BY Zenon, <1>2 DEF SendReply, NoUpstream, Fates, TypeOK
    <2>4. Frame(t, None) \in FrameRecord /\ l \in PC
      BY Zenon DEF Frame, FrameRecord, FrameType, PC
    <2>5. Frames' /\ Streams'
      BY Zenon, <1>0, <2>1, <2>4, SendToFrames DEF Streams
    <2>6. l = "insert" => frame[k].mbx = Id[k]
      BY Zenon, <1>0, <2>1 DEF Handling, HandlingOf
    <2>7. Handling' /\ Threads'
      BY Zenon, <1>0, <1>f, <2>1, <2>2, <2>4, <2>6, GotoWork, WorkHandling
    <2>8. NoDanglingRoute' /\ Routes'
      BY Zenon, <1>0, <2>1, <2>2, <2>4, SameRoutes, GotoAlive
    <2> QED BY Zenon, <2>2, <2>3, <2>5, <2>7, <2>8, SameLocal, Assemble
  <1>3. CASE InsertLocal(k) \/ EraseLocal(k)
    <2>1. /\ pc[k] \in {"insert", "erase"} /\ Goto(k, "peers") /\ "peers" \in PC
          /\ UNCHANGED <<registry, frame, todo, inbox>> /\ Fates' /\ Streams'
      BY Zenon, <1>3 DEF InsertLocal, EraseLocal, PC, Fates, Streams, TypeOK
    <2>2. frame[k].mbx = Id[k]
      BY Zenon, <1>0, <2>1 DEF Handling, HandlingOf
    <2>3. \E S \in {local_mailboxes[At[k]] \cup {Id[k]}, local_mailboxes[At[k]] \ {Id[k]}} :
            local_mailboxes' = [local_mailboxes EXCEPT ![At[k]] = S]
      BY Zenon, <1>3, <2>2 DEF InsertLocal, EraseLocal
    <2>4. local_mailboxes' \in [Router -> SUBSET Mailbox]
      BY <1>0, <2>3, SMTT(30) DEF TypeOK
    <2>5. Others'
      BY Zenon, <1>3, <2>4 DEF InsertLocal, EraseLocal, Others, TypeOK, linkVars
    <2>6. \A r \in Router : local_mailboxes'[r] \subseteq Owned(r)
      BY <1>0, <2>3, ZenonT(60) DEF Local, TypeOK
    <2>7. Local'
      BY Zenon, <2>6 DEF Local, Owned
    <2>8. Handling' /\ Threads'
      BY Zenon, <1>0, <1>f, <2>1, <2>2, GotoWork, WorkHandling
    <2>9. NoDanglingRoute' /\ Routes'
      BY Zenon, <1>0, <2>1, SameRoutes, GotoAlive
    <2> QED BY Zenon, <2>1, <2>5, <2>7, <2>8, <2>9, SameFrames, Assemble
  <1>4. CASE PeersSnapshot(k)
    <2> DEFINE P == Peers(At[k])
               l == IF P = {} THEN "run" ELSE "broadcast"
    <2>1. /\ pc[k] = "peers" /\ Work(k, l, frame[k], P) /\ Others' /\ Fates' /\ Streams'
          /\ UNCHANGED <<registry, local_mailboxes, inbox>>
      BY Zenon, <1>4 DEF PeersSnapshot, Others, Fates, Streams, TypeOK, routeVars, linkVars
    <2>2. /\ \A e \in P : e \in End /\ At[e] = At[k]
          /\ P \in SUBSET (Client \cup End \cup Mailbox) /\ l \in PC /\ l \in {"run", "broadcast"}
      BY Zenon DEF Peers, PC
    <2>3. frame[k].mbx = Id[k]
      BY Zenon, <1>0, <2>1 DEF Handling, HandlingOf
    <2> HIDE DEF P, l
    <2>4. Handling' /\ Threads'
      BY Zenon, <1>0, <1>f, <2>1, <2>2, <2>3, WorkHandling
    <2>5. NoDanglingRoute' /\ Routes'
      BY Zenon, <1>0, <2>1, <2>2, SameRoutes, GotoAlive DEF Work
    <2> QED BY Zenon, <2>1, <2>4, <2>5, SameFrames, SameLocal, Assemble
  <1>5. CASE Broadcast(k)
    <2>1. PICK e \in todo[k], t \in {"peer_register", "peer_delete"}, l \in {"run", "broadcast"} :
            SendTo(e, Frame(t, frame[k].mbx)) /\ Work(k, l, frame[k], todo[k] \ {e})
      BY Zenon, <1>5 DEF Broadcast
    <2>2. pc[k] = "broadcast" /\ Others' /\ Fates' /\ UNCHANGED <<registry, local_mailboxes>>
      BY Zenon, <1>5 DEF Broadcast, Others, Fates, TypeOK, routeVars, linkVars
    <2>3. frame[k].mbx = Id[k] /\ \A x \in todo[k] : x \in End /\ At[x] = At[k]
      BY Zenon, <1>0, <2>2 DEF Handling, HandlingOf
    <2>4. Frame(t, Id[k]) \in FrameRecord /\ Frame(t, Id[k]) \in Allowed(Far[e])
      BY Zenon, <1>0, <2>3, Kinds DEF Allowed, Frame, FrameRecord, FrameType
    <2>5. Frames' /\ Streams'
      BY Zenon, <2>1, <2>3, <2>4, SendToFrames DEF Streams
    <2>6. l \in PC /\ todo[k] \ {e} \in SUBSET (Client \cup End \cup Mailbox)
      BY Zenon, <1>f DEF PC
    <2>7. Handling' /\ Threads'
      BY Zenon, <1>0, <1>f, <2>1, <2>3, <2>6, WorkHandling
    <2>8. NoDanglingRoute' /\ Routes'
      BY Zenon, <1>0, <2>1, <2>2, <2>6, SameRoutes, GotoAlive DEF Work
    <2> QED BY Zenon, <2>2, <2>5, <2>7, <2>8, SameLocal, Assemble
  <1>6. CASE ForwardUpstream(k)
    <2>1. /\ Goto(k, "run") /\ "run" \in PC /\ Others' /\ Streams'
          /\ UNCHANGED <<registry, local_mailboxes, frame, todo, inbox>>
      BY Zenon, <1>6 DEF ForwardUpstream, PC, Others, Streams, TypeOK, routeVars, linkVars
    <2>2. Fates'
      BY Zenon, <1>6 DEF ForwardUpstream, Fates, TypeOK
    <2>3. Handling' /\ Threads'
      BY ZenonT(40), <1>0, <1>f, <2>1, GotoWork, WorkHandling
    <2>4. NoDanglingRoute' /\ Routes'
      BY Zenon, <1>0, <2>1, SameRoutes, GotoAlive
    <2> QED BY Zenon, <2>1, <2>2, <2>3, <2>4, SameFrames, SameLocal, Assemble
  <1> QED BY Zenon, <1>1, <1>2, <1>3, <1>4, <1>5, <1>6 DEF ClientStep

\* The steps every connection's thread may take
LEMMA DataIInv ==
  ASSUME IInv, NEW c \in Conn, RecvData(c) \/ Forward(c) \/ Oversized(c) \/ Disconnect(c)
  PROVE IInv'
  <1> USE DEF IInv
  <1>f. /\ frame[c] \in FrameRecord /\ todo[c] \in SUBSET (Client \cup End \cup Mailbox)
        /\ At[c] \in Router
    BY Zenon, Kinds DEF TypeOK
  <1>1. CASE RecvData(c)
    <2> DEFINE dest == registry[At[c]][Next_mbx(c)]
               f == Head(inbox[c])
    <2>1. /\ Read(c, "data") /\ Others' /\ mail' = mail /\ UNCHANGED <<registry, local_mailboxes>>
          /\ \E D : Lose(D)
      BY Zenon, <1>1 DEF RecvData, Others, TypeOK, routeVars, linkVars
    <2>2. PICK l \in {"forward", "upstream", "run"} : Work(c, l, f, {dest} \ {None})
      BY Zenon, <1>1 DEF RecvData
    <2>3. Frames' /\ Streams' /\ f \in FrameRecord /\ f \in Message
      BY Zenon, <2>1, ReadFrames DEF Streams, TypeOK, Allowed
    <2>4. Next_mbx(c) \in Mailbox => {dest} \ {None} \subseteq Client \cup End
      BY <1>f DEF TypeOK
    <2>5. Next_mbx(c) \in Mailbox /\ {dest} \ {None} \in SUBSET (Client \cup End \cup Mailbox)
      BY Zenon, <2>3, <2>4, NetworkAssumption DEF Next_mbx, Message
    <2>6. l \in PC
      BY Zenon DEF PC
    <2> HIDE DEF dest, f
    <2>7. Handling' /\ Threads'
      BY Zenon, <2>2, <2>3, <2>4, <2>5, <2>6, WorkHandling
    <2>8. NoDanglingRoute' /\ Routes'
      BY Zenon, <2>1, <2>2, <2>6, SameRoutes, GotoAlive DEF Work
    <2>9. Fates'
      BY Zenon, <2>1, LoseFates
    <2> QED BY Zenon, <2>1, <2>3, <2>7, <2>8, <2>9, SameLocal, Assemble
  <1>2. CASE Forward(c)
    <2>1. PICK dest \in todo[c] : SendTo(dest, frame[c])
                                 /\ Lose(IF dest \in open THEN {} ELSE {frame[c].data})
      BY Zenon, <1>2 DEF Forward
    <2>2. /\ pc[c] = "forward" /\ Goto(c, "run") /\ "run" \in PC /\ Others'
          /\ UNCHANGED <<registry, local_mailboxes, frame, todo>>
      BY Zenon, <1>2 DEF Forward, Others, TypeOK, routeVars, linkVars, PC
    <2>3. frame[c] \in Message
      BY Zenon, <2>2 DEF Handling, HandlingOf
    <2>4. \A x : frame[c] \in Allowed(x)
      BY Zenon, <2>3 DEF Allowed, Message
    <2>5. Frames' /\ Streams'
      BY Zenon, <1>f, <2>1, <2>4, SendToFrames DEF Streams
    <2>6. Handling' /\ Threads'
      BY Zenon, <1>f, <2>2, GotoWork, WorkHandling
    <2>7. NoDanglingRoute' /\ Routes'
      BY Zenon, <2>2, SameRoutes, GotoAlive
    <2>8. Fates'
      BY Zenon, <2>1, LoseFates
    <2> QED BY Zenon, <2>2, <2>5, <2>6, <2>7, <2>8, SameLocal, Assemble
  <1>3. ASSUME inbox' = [inbox EXCEPT ![c] = <<>>], mail' = mail
        PROVE Frames' /\ Streams'
    <2>1. Streams'
      BY <1>3 DEF Streams, TypeOK
    <2>2. \A x \in Conn : inbox'[x] = IF x = c THEN <<>> ELSE inbox[x]
      BY Zenon, <1>3 DEF TypeOK
    <2>3. \A x \in Conn : inbox[x] \in Seq(Allowed(x)) /\ <<>> \in Seq(Allowed(x))
      BY DEF Frames
    <2>4. \A x \in Conn : inbox'[x] \in Seq(Allowed(x))
      BY ONLY <2>2, <2>3
    <2> QED BY ONLY <2>1, <2>4 DEF Frames, Allowed, Message, Owned
  <1>4. CASE Oversized(c)
    <2>1. /\ Others' /\ Lose(Within(inbox[c])) /\ UNCHANGED <<registry, local_mailboxes, frame, todo>>
          /\ inbox' = [inbox EXCEPT ![c] = <<>>] /\ mail' = mail
      BY Zenon, <1>4 DEF Oversized, Others, TypeOK, routeVars
    <2>2. PICK l \in {"exit", "stuck"} : Goto(c, l) /\ (l = "exit" => c \in Uplink)
      BY Zenon, <1>4 DEF Oversized
    <2>3. l \in PC
      BY Zenon DEF PC
    <2>4. Handling' /\ Threads'
      BY Zenon, <1>f, <2>1, <2>2, <2>3, GotoWork, WorkHandling
    <2>5. \A x \in Conn : pc'[x] = "exit" => pc[x] = "exit" \/ x \in Uplink
      BY Zenon, <2>2 DEF Goto, TypeOK
    <2>6. Routes' /\ \A u \in Uplink, r \in Router, m \in Mailbox : registry'[r][m] # u
      <3>1. registry' \in [Router -> [Mailbox -> Client \cup End \cup {None}]]
        BY Zenon, <2>1 DEF TypeOK
      <3>2. \A r \in Router, m \in Mailbox : registry'[r][m] \in Client \cup End \cup {None}
        BY ONLY <3>1
      <3>3. \A u \in Uplink : u \notin Client \cup End \cup {None}
        BY ONLY Kinds
      <3> QED BY ONLY <3>1, <3>2, <3>3 DEF Routes
    <2>7. NoDanglingRoute'
      BY Zenon, <2>1, <2>5, <2>6, Kinds DEF NoDanglingRoute
    <2>8. Fates'
      BY Zenon, <2>1, LoseFates
    <2> QED BY Zenon, <1>3, <2>1, <2>4, <2>6, <2>7, <2>8, SameLocal, Assemble
  <1>5. CASE Disconnect(c)
    <2>1. /\ Others' /\ Lose(Within(inbox[c])) /\ UNCHANGED <<local_mailboxes, frame, todo>>
          /\ inbox' = [inbox EXCEPT ![c] = <<>>] /\ mail' = mail
          /\ remove_all(c) /\ Goto(c, "exit") /\ "exit" \in PC
      BY Zenon, <1>5 DEF Disconnect, Others, TypeOK, linkVars, PC
    <2>2. Handling' /\ Threads'
      BY Zenon, <1>f, <2>1, GotoWork, WorkHandling
    <2>3. NoDanglingRoute' /\ Routes'
      BY Zenon, <2>1, RemoveAllRoutes
    <2>4. Fates'
      BY Zenon, <2>1, LoseFates
    <2> QED BY Zenon, <1>3, <2>1, <2>2, <2>3, <2>4, SameLocal, Assemble
  <1> QED BY Zenon, <1>1, <1>2, <1>4, <1>5

\* Every step preserves the inductive invariant.
LEMMA NextIInv == IInv /\ [Next]_vars => IInv'
  <1> SUFFICES ASSUME IInv, [Next]_vars PROVE IInv'
    BY Zenon
  <1>1. ASSUME NEW c \in Conn, ThreadStep(c) PROVE IInv'
    BY Zenon, <1>1, DataIInv, LinkIInv, ClientIInv DEF ThreadStep
  <1>2. CASE UNCHANGED vars
    <2>1. /\ UNCHANGED <<registry, local_mailboxes, threadVars, inbox>>
          /\ Others' /\ Streams' /\ Fates'
      BY Zenon, <1>2 DEF vars, routeVars, linkVars, IInv, TypeOK, Others, Streams, Fates
    <2>2. NoDanglingRoute' /\ Routes'
      BY Zenon, <2>1, SameRoutes DEF threadVars, IInv
    <2> QED BY Zenon, <2>1, <2>2, SameHandling, SameFrames, SameLocal, Assemble DEF IInv
  <1> QED BY Zenon, <1>1, <1>2, RouterIInv, UserIInv DEF Next

\* The inductive invariant holds throughout.
THEOREM RouterInductive == Spec => []IInv
  BY InitIInv, NextIInv, PTL DEF Spec

\* The state of routers, links and clients is well typed: handlers forward to
\* connections and advertise mailboxes only.
THEOREM RouterTypes == Spec => []TypeOK
  BY RouterInductive, PTL DEF IInv

\* No route leads to a connection whose thread has ended (remove_all()).
THEOREM RouterNoDanglingRoute == Spec => []NoDanglingRoute
  BY RouterInductive, PTL DEF IInv

-----------------------------------------------------------------------------
(* Only a client's own connection removes its route.                       *)

\* One client per mailbox id, and no router linked to itself
UniqueIds ==
  /\ \A k, l \in Client : Id[k] = Id[l] => k = l
  /\ \A e \in End : At[Far[e]] # At[e]

\* A step that takes the route of client k away is k's own.
LEMMA OnlyOwnerRemoves ==
  ASSUME UniqueIds, IInv, [Next]_vars, NEW k \in Client,
         registry[At[k]][Id[k]] = k, registry'[At[k]][Id[k]] # k
  PROVE pc'[k] \in {"erase", "exit"}
  <1> USE DEF IInv
  <1>0. k \in Conn /\ k # None /\ At[k] \in Router /\ Id[k] \in Mailbox
    BY Zenon, Kinds
  <1>1. ASSUME NEW c \in Conn, NEW m, add(c, m) PROVE FALSE
    BY <1>0, <1>1, Kinds, ZenonT(60) DEF add, TypeOK
  <1>2. ASSUME NEW c \in Conn, NEW m, remove(c, m) PROVE m = Id[k] /\ At[c] = At[k]
    BY <1>0, <1>2, Kinds DEF remove, TypeOK
  <1>3. ASSUME NEW c \in Conn, remove_all(c) PROVE c = k
    BY Zenon, <1>0, <1>3, Kinds DEF remove_all, TypeOK
  <1>4. ASSUME NEW e \in End, RecvPeerRegister(e) \/ RecvPeerDelete(e) PROVE FALSE
    <2>1. e \in Conn
      BY Zenon, Kinds
    <2>2. Read(e, "peer_delete") /\ remove(e, Next_mbx(e))
      BY Zenon, <1>1, <1>4, <2>1 DEF RecvPeerRegister, RecvPeerDelete
    <2>3. Head(inbox[e]) \in Allowed(e) /\ Head(inbox[e]).type = "peer_delete"
      BY Zenon, <2>1, <2>2, ReadFrames
    <2>4. Next_mbx(e) \in Owned(At[Far[e]])
      BY Zenon, <2>3 DEF Allowed, Next_mbx
    <2>5. Id[k] \in Owned(At[Far[e]]) /\ At[e] = At[k]
      BY Zenon, <1>2, <2>1, <2>2, <2>4
    <2> QED BY Zenon, <2>5 DEF Owned, UniqueIds
  <1>5. ASSUME NEW l \in Client, RecvDelete(l) PROVE pc'[k] = "erase"
    <2>1. l \in Conn /\ Read(l, "delete") /\ remove(l, Next_mbx(l)) /\ pc' = [pc EXCEPT ![l] = "erase"]
      BY Zenon, <1>5, Kinds DEF RecvDelete, Work, Goto
    <2>2. Head(inbox[l]) \in Allowed(l) /\ Head(inbox[l]).type = "delete"
      BY Zenon, <2>1, ReadFrames
    <2>3. Next_mbx(l) = Id[l]
      BY Zenon, <2>2 DEF Allowed, Next_mbx
    <2>4. l = k
      BY Zenon, <1>2, <2>1, <2>3 DEF UniqueIds
    <2> QED BY Zenon, <1>0, <2>1, <2>4 DEF TypeOK
  <1>6. ASSUME NEW l \in Client, RecvInit(l) PROVE FALSE
    BY Zenon, <1>1, <1>6, Kinds DEF RecvInit
  <1>7. ASSUME NEW c \in Conn, Disconnect(c) PROVE pc'[k] = "exit"
    <2>1. c = k /\ pc' = [pc EXCEPT ![c] = "exit"]
      BY Zenon, <1>3, <1>7 DEF Disconnect, Goto
    <2> QED BY Zenon, <1>0, <2>1 DEF TypeOK
  <1>8. registry' # registry
    BY Zenon
  <1>9. ASSUME NEW c \in Conn, ThreadStep(c) PROVE pc'[k] \in {"erase", "exit"}
    <2>1. ~ (RecvData(c) \/ Forward(c) \/ Oversized(c))
      BY Zenon, <1>8 DEF RecvData, Forward, Oversized, routeVars
    <2>2. c \in End => ~ (RecvHello(c) \/ SendHello(c) \/ local_mailboxes_snapshot(c) \/ Advertise(c))
      BY Zenon, <1>8 DEF RecvHello, SendHello, local_mailboxes_snapshot, Advertise, routeVars
    <2>3. ~ (SendReply(c) \/ InsertLocal(c) \/ EraseLocal(c) \/ PeersSnapshot(c) \/ Broadcast(c)
             \/ ForwardUpstream(c) \/ NoUpstream(c))
      BY Zenon, <1>8 DEF SendReply, InsertLocal, EraseLocal, PeersSnapshot, Broadcast, ForwardUpstream,
         NoUpstream, routeVars
    <2> QED BY Zenon, <1>4, <1>5, <1>6, <1>7, <1>9, <2>1, <2>2, <2>3 DEF ThreadStep, LinkStep, ClientStep
  <1>10. \A r \in Router : ~RouterStep(r)
    BY Zenon, <1>8 DEF RouterStep, Listen, List, Accept, routeVars
  <1>11. /\ \A e \in End : ~ConnectPeer(e)
         /\ \A c \in Conn : ~Break(c)
         /\ \A d \in Data : ~Send(d)
    BY Zenon, <1>8 DEF ConnectPeer, Break, Send, routeVars
  <1>12. \A l \in Client : ~UserStep(l)
    BY Zenon, <1>8 DEF UserStep, Connect, Reply, Receive, Unregister, Shutdown, routeVars
  <1>13. ~UNCHANGED vars
    BY Zenon, <1>8 DEF vars, routeVars
  <1> QED BY Zenon, <1>9, <1>10, <1>11, <1>12, <1>13 DEF Next

\* With one client per mailbox id, only a client's own connection takes its
\* route away: remove() does not check owners, but nobody else names the id.
THEOREM RouterOwnEntryKept == UniqueIds => (Spec => OwnEntryKept)
  <1> SUFFICES ASSUME UniqueIds PROVE Spec => OwnEntryKept
    BY Zenon
  <1>1. IInv /\ [Next]_vars =>
          [\A k \in Client :
             registry[At[k]][Id[k]] = k /\ registry'[At[k]][Id[k]] # k
               => pc'[k] \in {"erase", "exit"}]_vars
    BY Zenon, OnlyOwnerRemoves
  <1> QED BY <1>1, RouterInductive, PTL DEF Spec, OwnEntryKept

-----------------------------------------------------------------------------
(* At most one hop.                                                        *)

\* A route over a link leads to the router that serves the mailbox's client.
Routed ==
  \A r \in Router, m \in Mailbox : registry[r][m] \in End =>
    At[registry[r][m]] = r /\ m \in Owned(At[Far[registry[r][m]]])

\* What may be under way on connection c: from a client or an uplink its own
\* messages, over a link messages that entered at the other end's router for
\* a client of this end's.
Hop(c) ==
  {f \in FrameRecord : f.data \in Data =>
     IF c \in End THEN f.mbx \in Owned(At[c]) /\ At[Src[f.data]] = At[Far[c]]
     ELSE Src[f.data] = c}

Hops == \A c \in Conn : inbox[c] \in Seq(Hop(c))

\* A thread passes over links only what entered at its own router.
CarriesOf(c) ==
  pc[c] = "forward" => \A e \in todo[c] \cap End :
    /\ At[e] = At[c] /\ At[Src[frame[c].data]] = At[c]
    /\ frame[c].mbx \in Owned(At[Far[e]])
Carries == \A c \in Conn : CarriesOf(c)

HopInv == Routed /\ Hops /\ Carries

\* Frames that carry no message may go anywhere.
LEMMA ControlHops == \A c, f : f \in FrameRecord /\ f.data = None => f \in Hop(c)
  BY Zenon, NetworkAssumption DEF Hop

\* A stream replaced by one that its connection may carry
LEMMA HopsSet ==
  ASSUME TypeOK, Hops, NEW c \in Conn,
         \E q \in Seq(Hop(c)) : inbox' = [inbox EXCEPT ![c] = q]
  PROVE Hops'
  <1>1. PICK q \in Seq(Hop(c)) : inbox' = [inbox EXCEPT ![c] = q]
    BY Zenon
  <1>2. ASSUME NEW x \in Conn PROVE inbox'[x] \in Seq(Hop(x))
    BY Zenon, <1>1 DEF TypeOK, Hops
  <1> QED BY Zenon, <1>2 DEF Hops, Hop, Owned

\* A thread that reads a frame gets one its connection may carry.
LEMMA HopsRead ==
  ASSUME TypeOK, Hops, NEW c \in Conn, NEW t, Read(c, t)
  PROVE Hops' /\ Head(inbox[c]) \in Hop(c)
  <1>1. inbox[c] \in Seq(Hop(c)) /\ inbox[c] # <<>> /\ inbox' = [inbox EXCEPT ![c] = Tail(@)]
    BY Zenon DEF Hops, Read
  <1>2. Head(inbox[c]) \in Hop(c) /\ Tail(inbox[c]) \in Seq(Hop(c))
    BY <1>1
  <1> QED BY Zenon, <1>1, <1>2, HopsSet

\* A frame added to a stream
LEMMA HopsAppend ==
  ASSUME TypeOK, Hops, NEW c \in Conn,
         \E f \in Hop(c) : inbox' = [inbox EXCEPT ![c] = Append(@, f)]
  PROVE Hops'
  <1>1. PICK f \in Hop(c) : inbox' = [inbox EXCEPT ![c] = Append(@, f)]
    BY Zenon
  <1>2. inbox[c] \in Seq(Hop(c))
    BY Zenon DEF Hops
  <1>3. Append(inbox[c], f) \in Seq(Hop(c))
    BY <1>1, <1>2
  <1> QED BY Zenon, <1>1, <1>3, HopsSet

\* send_all()
LEMMA HopsSend ==
  ASSUME TypeOK, Hops, NEW c, \E f : SendTo(c, f) /\ (c \in End => f \in Hop(Far[c]))
  PROVE Hops'
  <1>1. PICK f : SendTo(c, f) /\ (c \in End => f \in Hop(Far[c]))
    BY Zenon
  <1>2. CASE c \in End \cap open
    <2>1. inbox' = [inbox EXCEPT ![Far[c]] = Append(@, f)] /\ Far[c] \in Conn /\ f \in Hop(Far[c])
      BY Zenon, <1>1, <1>2, Kinds DEF SendTo
    <2> QED BY Zenon, <2>1, HopsAppend
  <1>3. CASE c \notin End \cap open
    BY Zenon, <1>1, <1>3 DEF SendTo, Hops, Hop, Owned
  <1> QED BY Zenon, <1>2, <1>3

\* Streams that nobody touches
LEMMA HopsSame == ASSUME Hops, UNCHANGED inbox PROVE Hops'
  BY Zenon DEF Hops, Hop, Owned

\* Threads that do not move, and one that does not go on to forward
LEMMA CarriesSame == ASSUME Carries, UNCHANGED threadVars PROVE Carries'
  BY Zenon DEF Carries, CarriesOf, threadVars, Owned
LEMMA CarriesGoto ==
  ASSUME TypeOK, Carries, NEW c \in Conn, NEW l, l # "forward", Goto(c, l),
         \A x \in Conn \ {c} : frame'[x] = frame[x] /\ todo'[x] = todo[x]
  PROVE Carries'
  <1>1. pc'[c] # "forward" /\ \A x \in Conn \ {c} : pc'[x] = pc[x]
    BY Zenon DEF Goto, TypeOK
  <1>2. ASSUME NEW x \in Conn PROVE CarriesOf(x)'
    BY Zenon, <1>1 DEF Carries, CarriesOf, Owned
  <1> QED BY Zenon, <1>2 DEF Carries
LEMMA CarriesWork ==
  ASSUME TypeOK, Carries, NEW c \in Conn, NEW l, l # "forward", \E f, S : Work(c, l, f, S)
  PROVE Carries'
  <1>1. Goto(c, l)
    BY Zenon DEF Work
  <1>2. \A x \in Conn \ {c} : frame'[x] = frame[x] /\ todo'[x] = todo[x]
    BY Zenon DEF Work, TypeOK
  <1> QED BY Zenon, <1>1, <1>2, CarriesGoto
LEMMA CarriesMove ==
  ASSUME TypeOK, Carries, NEW c \in Conn, NEW l, l # "forward", Goto(c, l),
         UNCHANGED <<frame, todo>>
  PROVE Carries'
  BY Zenon, CarriesGoto

\* Routes that nobody touches, and removed ones
LEMMA RoutedSame == ASSUME Routed, UNCHANGED registry PROVE Routed'
  BY DEF Routed, Owned
LEMMA RoutedLess ==
  ASSUME Routed, \A r \in Router, m \in Mailbox : registry'[r][m] \in {registry[r][m], None}
  PROVE Routed'
  <1>1. None \notin End
    BY Zenon, Kinds
  <1>2. ASSUME NEW r \in Router, NEW m \in Mailbox, registry'[r][m] \in End
        PROVE At[registry'[r][m]] = r /\ m \in Owned(At[Far[registry'[r][m]]])
    <2>1. registry'[r][m] = registry[r][m]
      BY Zenon, <1>1, <1>2
    <2> QED BY Zenon, <1>2, <2>1 DEF Routed
  <1> QED BY Zenon, <1>2 DEF Routed, Owned

\* The steps of TcpRouter::run
LEMMA HopRouter ==
  ASSUME TypeOK, HopInv,
         \/ \E r \in Router : RouterStep(r)
         \/ \E e \in End : ConnectPeer(e)
         \/ \E c \in Conn : Break(c)
  PROVE HopInv'
  <1> USE DEF HopInv
  <1>1. UNCHANGED <<registry, inbox>>
    BY Zenon DEF RouterStep, Listen, List, Accept, ConnectPeer, Break, routeVars
  <1>2. UNCHANGED threadVars
          \/ \E e \in Conn, l \in {"run", "hello"} : Goto(e, l) /\ UNCHANGED <<frame, todo>>
    BY Zenon, Kinds DEF RouterStep, Listen, List, Accept, ConnectPeer, Break
  <1> QED BY Zenon, <1>1, <1>2, RoutedSame, HopsSame, CarriesSame, CarriesMove

\* The steps of the clients, and of routers upstream that send
LEMMA HopUser ==
  ASSUME TypeOK, HopInv, (\E k \in Client : UserStep(k)) \/ (\E d \in Data : Send(d))
  PROVE HopInv'
  <1> USE DEF HopInv
  <1>1. ASSUME NEW k \in Client, Connect(k) PROVE HopInv'
    <2> DEFINE f == Frame("init", Id[k])
    <2>1. /\ k \in Conn /\ inbox' = [inbox EXCEPT ![k] = <<f>>] /\ Goto(k, "run")
          /\ UNCHANGED <<registry, frame, todo>>
      BY Zenon, <1>1, Kinds DEF Connect, routeVars
    <2>2. f \in Hop(k)
      BY Zenon, ControlHops, Kinds DEF Frame, FrameRecord, FrameType
    <2> HIDE DEF f
    <2>3. <<f>> \in Seq(Hop(k))
      BY <2>2
    <2> QED BY Zenon, <2>1, <2>3, RoutedSame, HopsSet, CarriesMove
  <1>2. ASSUME NEW k \in Client, Reply(k) \/ Receive(k) \/ Shutdown(k) PROVE HopInv'
    <2>1. UNCHANGED <<registry, threadVars, inbox>>
      BY Zenon, <1>2 DEF Reply, Receive, Shutdown, routeVars
    <2> QED BY Zenon, <2>1, RoutedSame, HopsSame, CarriesSame
  <1>3. ASSUME NEW k \in Client, Unregister(k) PROVE HopInv'
    <2> DEFINE f == Frame("delete", Id[k])
    <2>1. /\ k \in Conn /\ inbox' = [inbox EXCEPT ![k] = Append(@, f)]
          /\ UNCHANGED <<registry, threadVars>>
      BY Zenon, <1>3, Kinds DEF Unregister, routeVars
    <2>2. f \in Hop(k)
      BY Zenon, ControlHops, Kinds DEF Frame, FrameRecord, FrameType
    <2> HIDE DEF f
    <2> QED BY Zenon, <2>1, <2>2, RoutedSame, HopsAppend, CarriesSame
  <1>4. ASSUME NEW d \in Data, Send(d) PROVE HopInv'
    <2>1. /\ Src[d] \in Conn /\ Src[d] \notin End
          /\ inbox' = [inbox EXCEPT ![Src[d]] = Append(@, DataFrame(d))]
          /\ UNCHANGED <<registry, threadVars>>
      BY Zenon, <1>4, NetworkAssumption, Kinds DEF Send, routeVars, Conn
    <2>2. DataFrame(d) \in Hop(Src[d])
      BY Zenon, <2>1, NetworkAssumption DEF Hop, DataFrame, FrameRecord, FrameType
    <2> QED BY Zenon, <2>1, <2>2, RoutedSame, HopsAppend, CarriesSame
  <1> QED BY Zenon, <1>1, <1>2, <1>3, <1>4 DEF UserStep

\* The steps of a link thread
LEMMA HopLink ==
  ASSUME IInv, HopInv, NEW e \in End, LinkStep(e)
  PROVE HopInv'
  <1> USE DEF IInv, HopInv
  <1>0. e \in Conn /\ Far[e] \in End /\ At[e] \in Router
    BY Zenon, Kinds
  <1>1. CASE RecvHello(e)
    <2>1. /\ Read(e, "hello") /\ UNCHANGED <<registry, frame, todo>>
          /\ UNCHANGED pc \/ Goto(e, "hello")
      BY Zenon, <1>1 DEF RecvHello, routeVars, Goto
    <2> QED BY Zenon, <1>0, <2>1, HopsRead, RoutedSame, CarriesSame, CarriesMove DEF threadVars
  <1>2. CASE SendHello(e)
    <2>1. SendTo(e, Hello) /\ Goto(e, "snapshot") /\ UNCHANGED <<registry, frame, todo>>
      BY Zenon, <1>2 DEF SendHello, routeVars
    <2>2. Hello \in Hop(Far[e])
      BY Zenon, ControlHops DEF Hello, Frame, FrameRecord, FrameType
    <2> QED BY Zenon, <1>0, <2>1, <2>2, HopsSend, RoutedSame, CarriesMove
  <1>3. CASE local_mailboxes_snapshot(e)
    <2>1. UNCHANGED <<registry, inbox>> /\ \E l \in {"run", "advertise"} : \E f, S : Work(e, l, f, S)
      BY Zenon, <1>3 DEF local_mailboxes_snapshot, routeVars
    <2> QED BY Zenon, <1>0, <2>1, HopsSame, RoutedSame, CarriesWork
  <1>4. CASE Advertise(e)
    <2>1. PICK m \in todo[e] :
            /\ SendTo(e, Frame("peer_register", m))
            /\ Work(e, IF todo[e] = {m} THEN "run" ELSE "advertise", Hello, todo[e] \ {m})
      BY Zenon, <1>4 DEF Advertise
    <2>2. todo[e] \subseteq Owned(At[e]) /\ UNCHANGED registry
      BY Zenon, <1>0, <1>4 DEF Handling, HandlingOf, Advertise, routeVars
    <2>3. Frame("peer_register", m) \in Hop(Far[e])
      BY Zenon, <2>2, ControlHops, OwnedMailboxes DEF Frame, FrameRecord, FrameType
    <2>4. \E l \in {"run", "advertise"} : \E f, S : Work(e, l, f, S)
      BY Zenon, <2>1
    <2> QED BY Zenon, <1>0, <2>1, <2>2, <2>3, <2>4, HopsSend, RoutedSame, CarriesWork
  <1>5. CASE RecvPeerRegister(e) \/ RecvPeerDelete(e)
    <2>1. \/ Read(e, "peer_register") /\ (UNCHANGED registry \/ add(e, Next_mbx(e)))
          \/ Read(e, "peer_delete") /\ (UNCHANGED registry \/ remove(e, Next_mbx(e)))
      BY Zenon, <1>5 DEF RecvPeerRegister, RecvPeerDelete
    <2>2. Hops' /\ Carries'
      BY Zenon, <1>0, <1>5, <2>1, HopsRead, CarriesSame DEF RecvPeerRegister, RecvPeerDelete
    <2>3. /\ Head(inbox[e]) \in Allowed(e)
          /\ Head(inbox[e]).type \in {"peer_register", "peer_delete"}
      BY Zenon, <1>0, <2>1, ReadFrames
    <2>4. Next_mbx(e) \in Owned(At[Far[e]]) /\ Next_mbx(e) \in Mailbox
      BY Zenon, <2>3, OwnedMailboxes DEF Allowed, Next_mbx
    <2>5. CASE add(e, Next_mbx(e))
      <3>1. \A r \in Router, m \in Mailbox :
              registry'[r][m] = registry[r][m]
                \/ (r = At[e] /\ m = Next_mbx(e) /\ registry'[r][m] = e)
        BY Zenon, <1>0, <2>4, <2>5 DEF add, TypeOK
      <3>2. ASSUME NEW r \in Router, NEW m \in Mailbox, registry'[r][m] \in End
            PROVE At[registry'[r][m]] = r /\ m \in Owned(At[Far[registry'[r][m]]])
        <4>1. CASE registry'[r][m] = registry[r][m]
          BY Zenon, <3>2, <4>1 DEF Routed
        <4>2. CASE r = At[e] /\ m = Next_mbx(e) /\ registry'[r][m] = e
          BY Zenon, <2>4, <4>2
        <4> QED BY Zenon, <3>1, <4>1, <4>2
      <3> QED BY Zenon, <2>2, <3>2 DEF Routed, Owned
    <2>6. CASE remove(e, Next_mbx(e))
      <3>1. \A r \in Router, m \in Mailbox : registry'[r][m] \in {registry[r][m], None}
        BY Zenon, <1>0, <2>4, <2>6 DEF remove, TypeOK
      <3> QED BY Zenon, <2>2, <3>1, RoutedLess
    <2> QED BY Zenon, <2>1, <2>2, <2>5, <2>6, RoutedSame
  <1> QED BY Zenon, <1>1, <1>2, <1>3, <1>4, <1>5 DEF LinkStep

\* The steps of a client's thread
LEMMA HopClient ==
  ASSUME IInv, HopInv, NEW k \in Client, ClientStep(k)
  PROVE HopInv'
  <1> USE DEF IInv, HopInv
  <1>0. k \in Conn /\ k \notin End /\ At[k] \in Router
    BY Zenon, Kinds
  <1>1. CASE RecvInit(k) \/ RecvDelete(k)
    <2>1. PICK t \in {"init", "delete"}, l \in {"accept", "refuse", "erase"} :
            Read(k, t) /\ Work(k, l, Head(inbox[k]), {})
      BY Zenon, <1>1 DEF RecvInit, RecvDelete
    <2>2. Hops' /\ Carries'
      BY Zenon, <1>0, <2>1, HopsRead, CarriesWork
    <2>3. Head(inbox[k]) \in Allowed(k) /\ Head(inbox[k]).type \in {"init", "delete"}
      BY Zenon, <1>0, <2>1, ReadFrames
    <2>4. Next_mbx(k) \in Mailbox
      BY Zenon, <2>3, Kinds DEF Allowed, Next_mbx
    <2>5. \A r \in Router, m \in Mailbox : registry'[r][m] \in {registry[r][m], k, None}
      <3>1. CASE add(k, Next_mbx(k))
        BY Zenon, <1>0, <2>4, <3>1 DEF add, TypeOK
      <3>2. CASE remove(k, Next_mbx(k))
        BY Zenon, <1>0, <2>4, <3>2 DEF remove, TypeOK
      <3> QED BY Zenon, <1>1, <3>1, <3>2 DEF RecvInit, RecvDelete
    <2>6. ASSUME NEW r \in Router, NEW m \in Mailbox, registry'[r][m] \in End
          PROVE At[registry'[r][m]] = r /\ m \in Owned(At[Far[registry'[r][m]]])
      <3>1. registry'[r][m] = registry[r][m]
        BY Zenon, <1>0, <2>5, <2>6, Kinds
      <3> QED BY Zenon, <2>6, <3>1 DEF Routed
    <2> QED BY Zenon, <2>2, <2>6 DEF Routed, Owned
  <1>2. CASE SendReply(k) \/ NoUpstream(k)
    <2>1. /\ \E t : SendTo(k, Frame(t, None))
          /\ \E l \in {"insert", "run"} : Goto(k, l) /\ UNCHANGED <<registry, frame, todo>>
      BY Zenon, <1>2 DEF SendReply, NoUpstream, routeVars
    <2> QED BY Zenon, <1>0, <2>1, HopsSend, RoutedSame, CarriesMove
  <1>3. CASE InsertLocal(k) \/ EraseLocal(k) \/ ForwardUpstream(k)
    <2>1. \E l \in {"peers", "run"} : Goto(k, l) /\ UNCHANGED <<registry, frame, todo, inbox>>
      BY Zenon, <1>3 DEF InsertLocal, EraseLocal, ForwardUpstream, routeVars
    <2> QED BY Zenon, <1>0, <2>1, HopsSame, RoutedSame, CarriesMove
  <1>4. CASE PeersSnapshot(k)
    <2>1. UNCHANGED <<registry, inbox>> /\ \E l \in {"run", "broadcast"} : \E f, S : Work(k, l, f, S)
      BY Zenon, <1>4 DEF PeersSnapshot, routeVars
    <2> QED BY Zenon, <1>0, <2>1, HopsSame, RoutedSame, CarriesWork
  <1>5. CASE Broadcast(k)
    <2>1. PICK e \in todo[k], t \in {"peer_register", "peer_delete"}, l \in {"run", "broadcast"} :
            SendTo(e, Frame(t, frame[k].mbx)) /\ Work(k, l, frame[k], todo[k] \ {e})
      BY Zenon, <1>5 DEF Broadcast
    <2>2. UNCHANGED registry /\ frame[k] \in FrameRecord
      BY Zenon, <1>0, <1>5 DEF Broadcast, routeVars, TypeOK
    <2>3. Frame(t, frame[k].mbx) \in Hop(Far[e])
      BY Zenon, <2>2, ControlHops DEF Frame, FrameRecord, FrameType
    <2> QED BY Zenon, <1>0, <2>1, <2>2, <2>3, HopsSend, RoutedSame, CarriesWork
  <1> QED BY Zenon, <1>1, <1>2, <1>3, <1>4, <1>5 DEF ClientStep

\* The steps every connection's thread may take: what came over a link is for
\* a client of this router, so no route leads it on to another.
LEMMA HopData ==
  ASSUME UniqueIds, IInv, HopInv, NEW c \in Conn,
         RecvData(c) \/ Forward(c) \/ Oversized(c) \/ Disconnect(c)
  PROVE HopInv'
  <1> USE DEF IInv, HopInv
  <1>0. At[c] \in Router
    BY Zenon, Kinds
  <1>1. CASE RecvData(c)
    <2> DEFINE dest == registry[At[c]][Next_mbx(c)]
               f == Head(inbox[c])
    <2>1. Read(c, "data") /\ UNCHANGED registry
      BY Zenon, <1>1 DEF RecvData, routeVars
    <2>2. Hops' /\ f \in Hop(c)
      BY Zenon, <2>1, HopsRead
    <2>3. f \in Message /\ f \in FrameRecord
      BY Zenon, <2>1, ReadFrames DEF Allowed
    <2>4. f.data \in Data /\ Next_mbx(c) = f.mbx /\ f.mbx \in Mailbox
      BY Zenon, <2>3, NetworkAssumption DEF Message, Next_mbx
    <2>5. \E l : Work(c, l, f, {dest} \ {None})
      BY Zenon, <1>1 DEF RecvData
    <2>6. dest \in End => At[dest] = At[c] /\ f.mbx \in Owned(At[Far[dest]])
      BY Zenon, <1>0, <2>4 DEF Routed
    <2>7. dest \in End => At[Src[f.data]] = At[c]
      <3>1. CASE c \in End
        <4>1. f.mbx \in Owned(At[c])
          BY Zenon, <2>2, <2>4, <3>1 DEF Hop
        <4>2. dest \in End => At[Far[dest]] = At[dest]
          BY Zenon, <2>6, <4>1 DEF UniqueIds, Owned
        <4> QED BY Zenon, <4>2 DEF UniqueIds
      <3>2. CASE c \notin End
        BY Zenon, <2>2, <2>4, <3>2 DEF Hop
      <3> QED BY Zenon, <3>1, <3>2
    <2>8. /\ frame'[c] = f /\ todo'[c] = {dest} \ {None}
          /\ \A x \in Conn \ {c} : pc'[x] = pc[x] /\ frame'[x] = frame[x] /\ todo'[x] = todo[x]
      BY Zenon, <2>5 DEF Work, Goto, TypeOK
    <2> HIDE DEF dest, f
    <2>9. ASSUME NEW x \in Conn PROVE CarriesOf(x)'
      <3>1. CASE x = c
        <4>1. ASSUME NEW e \in todo'[c] \cap End
              PROVE /\ At[e] = At[c] /\ At[Src[frame'[c].data]] = At[c]
                    /\ frame'[c].mbx \in Owned(At[Far[e]])
          BY Zenon, <2>6, <2>7, <2>8
        <4> QED BY Zenon, <3>1, <4>1 DEF CarriesOf, Owned
      <3>2. CASE x # c
        <4>1. CarriesOf(x) /\ pc'[x] = pc[x] /\ frame'[x] = frame[x] /\ todo'[x] = todo[x]
          BY Zenon, <2>8, <3>2 DEF Carries
        <4> QED BY Zenon, <4>1 DEF CarriesOf, Owned
      <3> QED BY Zenon, <3>1, <3>2
    <2>10. Carries'
      BY Zenon, <2>9 DEF Carries
    <2> QED BY Zenon, <2>1, <2>2, <2>10, RoutedSame
  <1>2. CASE Forward(c)
    <2>1. PICK dest \in todo[c] : SendTo(dest, frame[c])
      BY Zenon, <1>2 DEF Forward
    <2>2. pc[c] = "forward" /\ Goto(c, "run") /\ UNCHANGED <<registry, frame, todo>>
      BY Zenon, <1>2 DEF Forward, routeVars
    <2>3. frame[c] \in FrameRecord
      BY Zenon DEF TypeOK
    <2>4. dest \in End => frame[c] \in Hop(Far[dest])
      <3>1. dest \in End => /\ Far[dest] \in End /\ Far[Far[dest]] = dest /\ At[dest] = At[c]
                            /\ At[Src[frame[c].data]] = At[c] /\ frame[c].mbx \in Owned(At[Far[dest]])
        BY Zenon, <2>2, Kinds DEF Carries, CarriesOf
      <3> QED BY Zenon, <2>3, <3>1 DEF Hop
    <2> QED BY Zenon, <2>1, <2>2, <2>4, HopsSend, RoutedSame, CarriesMove
  <1>3. <<>> \in Seq(Hop(c))
    OBVIOUS
  <1>4. CASE Oversized(c)
    <2>1. /\ inbox' = [inbox EXCEPT ![c] = <<>>] /\ UNCHANGED <<registry, frame, todo>>
          /\ \E l \in {"exit", "stuck"} : Goto(c, l)
      BY Zenon, <1>4 DEF Oversized, routeVars
    <2> QED BY Zenon, <1>3, <2>1, HopsSet, RoutedSame, CarriesMove
  <1>5. CASE Disconnect(c)
    <2>1. /\ inbox' = [inbox EXCEPT ![c] = <<>>] /\ UNCHANGED <<frame, todo>>
          /\ Goto(c, "exit") /\ remove_all(c)
      BY Zenon, <1>5 DEF Disconnect
    <2>2. \A r \in Router, m \in Mailbox : registry'[r][m] \in {registry[r][m], None}
      BY Zenon, <1>0, <2>1 DEF remove_all, TypeOK
    <2> QED BY Zenon, <1>3, <2>1, <2>2, HopsSet, RoutedLess, CarriesMove
  <1> QED BY Zenon, <1>1, <1>2, <1>4, <1>5

\* Where messages go is an invariant of networks with unique ids.
LEMMA HopInductive == UniqueIds => (Spec => []HopInv)
  <1> SUFFICES ASSUME UniqueIds PROVE Spec => []HopInv
    BY Zenon
  <1>1. Init => HopInv
    <2> SUFFICES ASSUME Init PROVE HopInv
      BY Zenon
    <2>1. Hops
      BY DEF Init, Hops
    <2>2. Routed
      BY Zenon, Kinds DEF Init, Routed
    <2>3. Carries
      BY Zenon DEF Init, Carries, CarriesOf
    <2> QED BY Zenon, <2>1, <2>2, <2>3 DEF HopInv
  <1>2. IInv /\ HopInv /\ [Next]_vars => HopInv'
    <2> SUFFICES ASSUME IInv, HopInv, [Next]_vars PROVE HopInv'
      BY Zenon
    <2>1. ASSUME NEW c \in Conn, ThreadStep(c) PROVE HopInv'
      BY Zenon, <2>1, HopData, HopLink, HopClient DEF ThreadStep
    <2>2. CASE UNCHANGED vars
      BY Zenon, <2>2, RoutedSame, HopsSame, CarriesSame DEF vars, routeVars, HopInv
    <2> QED BY Zenon, <2>1, <2>2, HopRouter, HopUser DEF Next, IInv
  <1> QED BY <1>1, <1>2, RouterInductive, PTL DEF Spec

\* No message comes back over a link to the router it entered by, stale routes
\* or not, if every mailbox id has one client and no router is linked to itself
\* (handle_frame() forwards without a hop count).
THEOREM RouterNeverReturns == UniqueIds => (Spec => []NeverReturns)
  <1> SUFFICES ASSUME UniqueIds PROVE Spec => []NeverReturns
    BY Zenon
  <1>1. HopInv => NeverReturns
    <2> SUFFICES ASSUME HopInv, NEW d \in Data, NEW e \in End, At[e] = At[Src[d]],
                        d \in Within(inbox[e])
                 PROVE FALSE
      BY Zenon DEF NeverReturns
    <2>1. inbox[e] \in Seq(Hop(e))
      BY Zenon, Kinds DEF HopInv, Hops
    <2>2. PICK i \in 1 .. Len(inbox[e]) : inbox[e][i].data = d
      BY Zenon DEF Within
    <2>3. inbox[e][i] \in Hop(e)
      BY <2>1, <2>2
    <2> QED BY Zenon, <2>2, <2>3 DEF Hop, UniqueIds
  <1> QED BY <1>1, HopInductive, PTL

-----------------------------------------------------------------------------
(* One copy.                                                               *)

\* No message is twice in a queue.
Single(q) == \A i, j \in 1 .. Len(q) : q[i].data = q[j].data /\ q[i].data # None => i = j
Singles == (\A c \in Conn : Single(inbox[c])) /\ (\A k \in Client : Single(mail[k]))

\* A client that has not connected has no thread and nothing on its way.
Idle == \A k \in Client : client[k] = "off" => pc[k] = "none" /\ inbox[k] = <<>>

\* The messages in each place where messages may be
Kind == {"inbox", "thread", "mail"}
Holds(c) == IF pc[c] \in {"forward", "upstream"} THEN {frame[c].data} ELSE {}
Content(t, c) ==
  IF t = "inbox" THEN Within(inbox[c])
  ELSE IF t = "thread" THEN Holds(c)
  ELSE IF c \in Client THEN Within(mail[c]) ELSE {}

\* A message is in one place while it is routed, and nowhere else.
Located ==
  /\ \A d \in Data, t, u \in Kind, c, x \in Conn :
       d \in Content(t, c) /\ d \in Content(u, x) => t = u /\ c = x
  /\ \A d \in Data : fate[d] = "routing" <=> \E t \in Kind, c \in Conn : d \in Content(t, c)

CopyInv == Singles /\ Idle /\ Located

\* What a frame added to a queue changes
LEMMA WithinAppend ==
  \A q \in Seq(FrameRecord), f \in FrameRecord :
    /\ Within(Append(q, f)) = Within(q) \cup ({f.data} \ {None})
    /\ Single(q) /\ f.data \notin Within(q) => Single(Append(q, f))
  <1> SUFFICES ASSUME NEW q \in Seq(FrameRecord), NEW f \in FrameRecord
               PROVE /\ Within(Append(q, f)) = Within(q) \cup ({f.data} \ {None})
                     /\ Single(q) /\ f.data \notin Within(q) => Single(Append(q, f))
    BY Zenon
  <1> DEFINE p == Append(q, f)
             n == Len(p)
  <1>1. n \in 1 .. n /\ p[n] = f
    OBVIOUS
  <1>2. \A i \in 1 .. Len(q) : i \in 1 .. n /\ i # n /\ p[i] = q[i]
    OBVIOUS
  <1>3. \A i \in 1 .. n : i = n \/ i \in 1 .. Len(q)
    OBVIOUS
  <1> HIDE DEF p
  <1>4. \A x : x \in Within(p) <=> x \in Within(q) \cup ({f.data} \ {None})
    BY Zenon, <1>1, <1>2, <1>3 DEF Within
  <1>5. ASSUME Single(q), f.data \notin Within(q) PROVE Single(p)
    <2> SUFFICES ASSUME NEW i \in 1 .. n, NEW j \in 1 .. n, p[i].data = p[j].data, p[i].data # None
                 PROVE i = j
      BY Zenon DEF Single
    <2>1. \A h \in 1 .. Len(q) : p[h] = q[h] /\ (q[h].data # None => q[h].data \in Within(q))
      BY Zenon, <1>2 DEF Within
    <2>2. CASE i \in 1 .. Len(q) /\ j \in 1 .. Len(q)
      BY Zenon, <1>5, <2>1, <2>2 DEF Single
    <2>3. CASE i = n /\ j \in 1 .. Len(q)
      BY Zenon, <1>1, <1>5, <2>1, <2>3
    <2>4. CASE i \in 1 .. Len(q) /\ j = n
      BY Zenon, <1>1, <1>5, <2>1, <2>4
    <2> QED BY Zenon, <1>3, <2>2, <2>3, <2>4
  <1> QED BY Zenon, <1>4, <1>5 DEF p

\* What a frame taken from a queue changes
LEMMA WithinTail ==
  \A q \in Seq(FrameRecord) : q # <<>> =>
    /\ Single(q) => Within(Tail(q)) = Within(q) \ {Head(q).data} /\ Single(Tail(q))
    /\ Head(q).data = None => Within(Tail(q)) = Within(q)
    /\ Head(q).data # None => Head(q).data \in Within(q)
  <1> SUFFICES ASSUME NEW q \in Seq(FrameRecord), q # <<>>
               PROVE /\ Single(q) => Within(Tail(q)) = Within(q) \ {Head(q).data} /\ Single(Tail(q))
                     /\ Head(q).data = None => Within(Tail(q)) = Within(q)
                     /\ Head(q).data # None => Head(q).data \in Within(q)
    BY Zenon
  <1> DEFINE p == Tail(q)
  <1>1. 1 \in 1 .. Len(q) /\ Head(q) = q[1]
    OBVIOUS
  <1>2. \A i \in 1 .. Len(p) : i + 1 \in 1 .. Len(q) /\ i + 1 # 1 /\ p[i] = q[i + 1]
    OBVIOUS
  <1>3. \A j \in 1 .. Len(q) : q[j] = Head(q) \/ \E i \in 1 .. Len(p) : q[j] = p[i]
    <2> SUFFICES ASSUME NEW j \in 1 .. Len(q), j # 1 PROVE \E i \in 1 .. Len(p) : q[j] = p[i]
      BY Zenon, <1>1
    <2>1. j - 1 \in 1 .. Len(p) /\ q[j] = p[j - 1]
      OBVIOUS
    <2> QED BY Zenon, <2>1
  <1>4. \A i, j \in 1 .. Len(p) : i + 1 = j + 1 => i = j
    OBVIOUS
  <1> HIDE DEF p
  <1>5. Head(q).data # None => Head(q).data \in Within(q)
    BY Zenon, <1>1 DEF Within
  <1>6. \A x : x \in Within(p) => x \in Within(q)
    BY Zenon, <1>2 DEF Within
  <1>7. \A x : x \in Within(q) => x \in Within(p) \/ x = Head(q).data
    BY Zenon, <1>3 DEF Within
  <1>8. ASSUME Single(q) PROVE Single(p) /\ Head(q).data \notin Within(p)
    <2>1. Single(p)
      <3> SUFFICES ASSUME NEW i \in 1 .. Len(p), NEW j \in 1 .. Len(p),
                          p[i].data = p[j].data, p[i].data # None
                   PROVE i = j
        BY Zenon DEF Single
      <3>1. /\ i + 1 \in 1 .. Len(q) /\ p[i] = q[i + 1]
            /\ j + 1 \in 1 .. Len(q) /\ p[j] = q[j + 1]
        BY Zenon, <1>2
      <3>2. q[i + 1].data = q[j + 1].data /\ q[i + 1].data # None
        BY Zenon, <3>1
      <3>3. i + 1 = j + 1
        BY Zenon, <1>8, <3>1, <3>2 DEF Single
      <3> QED BY Zenon, <1>4, <3>3
    <2>2. Head(q).data \notin Within(p)
      <3> SUFFICES ASSUME NEW i \in 1 .. Len(p), p[i].data = Head(q).data, p[i].data # None
                   PROVE FALSE
        BY Zenon DEF Within
      <3>1. i + 1 \in 1 .. Len(q) /\ i + 1 # 1 /\ p[i] = q[i + 1]
        BY Zenon, <1>2
      <3>2. q[i + 1].data = q[1].data /\ q[i + 1].data # None
        BY Zenon, <1>1, <3>1
      <3> QED BY Zenon, <1>1, <1>8, <3>1, <3>2 DEF Single
    <2> QED BY Zenon, <2>1, <2>2
  <1>9. None \notin Within(q)
    BY Zenon DEF Within
  <1> QED BY Zenon, <1>5, <1>6, <1>7, <1>8, <1>9 DEF p

\* Queues without messages
LEMMA WithinNone ==
  /\ Within(<<>>) = {} /\ Single(<<>>)
  /\ \A f : f.data = None => Within(<<f>>) = {} /\ Single(<<f>>)
  BY DEF Within, Single

\* A step that moves no message
LEMMA Still ==
  ASSUME Located, \A t \in Kind, c \in Conn : Content(t, c)' = Content(t, c),
         \A d \in Data : fate'[d] = fate[d]
  PROVE Located'
  <1>0. ASSUME NEW d, NEW t \in Kind, NEW c \in Conn
        PROVE d \in Content(t, c)' <=> d \in Content(t, c)
    BY Zenon
  <1>1. ASSUME NEW d \in Data, NEW t \in Kind, NEW u \in Kind, NEW c \in Conn, NEW x \in Conn,
               d \in Content(t, c)', d \in Content(u, x)'
        PROVE t = u /\ c = x
    <2>1. d \in Content(t, c) /\ d \in Content(u, x)
      BY Zenon, <1>0, <1>1
    <2> QED BY <2>1 DEF Located
  <1>2. ASSUME NEW d \in Data
        PROVE fate'[d] = "routing" <=> \E t \in Kind, c \in Conn : d \in Content(t, c)'
    <2>1. fate[d] = "routing" <=> \E t \in Kind, c \in Conn : d \in Content(t, c)
      BY Zenon DEF Located
    <2> QED BY <1>0, <2>1
  <1> QED BY Zenon, <1>1, <1>2 DEF Located

\* A step that takes messages from one place and settles their fate
Drops(t, c) ==
  /\ \A u \in Kind, x \in Conn : (u = t /\ x = c) \/ Content(u, x)' = Content(u, x)
  /\ \A d : d \in Content(t, c)' => d \in Content(t, c)
  /\ \A d \in Data :
       IF d \in Content(t, c) /\ d \notin Content(t, c)' THEN fate'[d] # "routing"
       ELSE fate'[d] = fate[d]
LEMMA Dropped ==
  ASSUME Located, NEW t \in Kind, NEW c \in Conn, Drops(t, c)
  PROVE Located'
  <1>1. ASSUME NEW d, NEW u \in Kind, NEW x \in Conn, d \in Content(u, x)' PROVE d \in Content(u, x)
    BY Zenon, <1>1 DEF Drops
  <1>2. ASSUME NEW d \in Data, NEW v \in Kind, NEW u \in Kind, NEW y \in Conn, NEW x \in Conn,
               d \in Content(v, y)', d \in Content(u, x)'
        PROVE v = u /\ y = x
    <2>1. d \in Content(v, y) /\ d \in Content(u, x)
      BY Zenon, <1>1, <1>2
    <2> QED BY Zenon, <2>1 DEF Located
  <1>3. ASSUME NEW d \in Data
        PROVE fate'[d] = "routing" <=> \E u \in Kind, x \in Conn : d \in Content(u, x)'
    <2>1. CASE d \in Content(t, c) /\ d \notin Content(t, c)'
      <3>1. fate'[d] # "routing"
        BY Zenon, <2>1 DEF Drops
      <3>2. \A u \in Kind, x \in Conn : d \notin Content(u, x)'
        <4> SUFFICES ASSUME NEW u \in Kind, NEW x \in Conn, d \in Content(u, x)' PROVE FALSE
          BY Zenon
        <4>1. d \in Content(u, x)
          BY <1>1
        <4>2. u = t /\ x = c
          BY Zenon, <2>1, <4>1 DEF Located
        <4> QED BY Zenon, <2>1, <4>2
      <3> QED BY Zenon, <3>1, <3>2
    <2>2. CASE d \notin Content(t, c) \/ d \in Content(t, c)'
      <3>1. fate'[d] = fate[d]
        BY Zenon, <2>2 DEF Drops
      <3>2. \A u \in Kind, x \in Conn : d \in Content(u, x) => d \in Content(u, x)'
        BY Zenon, <2>2 DEF Drops
      <3>3. fate[d] = "routing" <=> \E u \in Kind, x \in Conn : d \in Content(u, x)
        BY Zenon DEF Located
      <3> QED BY Zenon, <1>1, <3>1, <3>2, <3>3
    <2> QED BY Zenon, <2>1, <2>2
  <1> QED BY <1>2, <1>3 DEF Located

\* A step that adds a message to one place, and takes it from the place where
\* it was, if it was anywhere
MovesTo(t, c, d) ==
  /\ \A u \in Kind, x \in Conn, e \in Data :
       e \in Content(u, x)' <=> \/ u = t /\ x = c /\ e = d
                                \/ e # d /\ e \in Content(u, x)
  /\ fate'[d] = "routing" /\ \A e \in Data \ {d} : fate'[e] = fate[e]
LEMMA Moved ==
  ASSUME Located, NEW t \in Kind, NEW c \in Conn, NEW d \in Data, MovesTo(t, c, d)
  PROVE Located'
  <1>1. ASSUME NEW e \in Data, NEW v \in Kind, NEW u \in Kind, NEW y \in Conn, NEW x \in Conn,
               e \in Content(v, y)', e \in Content(u, x)'
        PROVE v = u /\ y = x
    <2>1. CASE e = d
      BY Zenon, <1>1, <2>1 DEF MovesTo
    <2>2. CASE e # d
      <3>1. e \in Content(v, y) /\ e \in Content(u, x)
        BY Zenon, <1>1, <2>2 DEF MovesTo
      <3> QED BY Zenon, <3>1 DEF Located
    <2> QED BY Zenon, <2>1, <2>2
  <1>2. ASSUME NEW e \in Data
        PROVE fate'[e] = "routing" <=> \E u \in Kind, x \in Conn : e \in Content(u, x)'
    <2>1. CASE e = d
      BY Zenon, <2>1 DEF MovesTo
    <2>2. CASE e # d
      <3>1. fate'[e] = fate[e] /\ \A u \in Kind, x \in Conn : e \in Content(u, x)' <=> e \in Content(u, x)
        BY Zenon, <2>2 DEF MovesTo
      <3> QED BY Zenon, <3>1 DEF Located
    <2> QED BY Zenon, <2>1, <2>2
  <1> QED BY <1>1, <1>2 DEF Located

\* The places are inboxes, threads and mail.
LEMMA SamePlaces ==
  ASSUME \A c \in Conn : Within(inbox[c])' = Within(inbox[c]),
         \A c \in Conn : Holds(c)' = Holds(c),
         \A k \in Client : Within(mail[k])' = Within(mail[k])
  PROVE \A t \in Kind, c \in Conn : Content(t, c)' = Content(t, c)
  BY Zenon DEF Content, Kind

\* A step that passes a message from one place to another
Passes(t, c, u, x, d) ==
  /\ d \in Content(t, c) /\ ~(t = u /\ c = x)
  /\ \A v \in Kind, y \in Conn :
       (v = t /\ y = c) \/ (v = u /\ y = x) \/ Content(v, y)' = Content(v, y)
  /\ \A e : e \in Content(t, c)' <=> e # d /\ e \in Content(t, c)
  /\ \A e : e \in Content(u, x)' <=> e = d \/ e \in Content(u, x)
  /\ \A e \in Data : fate'[e] = fate[e]
LEMMA Passed ==
  ASSUME Located, NEW t \in Kind, NEW u \in Kind, NEW c \in Conn, NEW x \in Conn, NEW d \in Data,
         Passes(t, c, u, x, d)
  PROVE Located'
  <1> USE DEF Passes
  <1>1. fate'[d] = "routing"
    BY DEF Located
  <1>2. ASSUME NEW v \in Kind, NEW y \in Conn, NEW e \in Data
        PROVE e \in Content(v, y)' <=> \/ v = u /\ y = x /\ e = d
                                       \/ e # d /\ e \in Content(v, y)
    <2>1. CASE v = t /\ y = c
      BY Zenon, <2>1
    <2>2. CASE v = u /\ y = x
      BY Zenon, <2>2
    <2>3. CASE ~(v = t /\ y = c) /\ ~(v = u /\ y = x)
      <3>1. Content(v, y)' = Content(v, y)
        BY Zenon, <2>3
      <3>2. d \notin Content(v, y)
        BY <2>3 DEF Located
      <3> QED BY Zenon, <2>3, <3>1, <3>2
    <2> QED BY Zenon, <2>1, <2>2, <2>3
  <1>3. \A e \in Data \ {d} : fate'[e] = fate[e]
    BY Zenon
  <1>4. \A v \in Kind, y \in Conn, e \in Data :
          e \in Content(v, y)' <=> \/ v = u /\ y = x /\ e = d
                                   \/ e # d /\ e \in Content(v, y)
    BY Zenon, <1>2
  <1>5. MovesTo(u, x, d)
    BY Zenon, <1>1, <1>3, <1>4 DEF MovesTo
  <1> QED BY Zenon, <1>5, Moved

-----------------------------------------------------------------------------
(* Steps that move no message.                                             *)

QueuesSame ==
  /\ \A c \in Conn : Within(inbox'[c]) = Within(inbox[c])
  /\ \A k \in Client : Within(mail'[k]) = Within(mail[k])
  /\ Singles'
HoldsSame == \A c \in Conn : Holds(c)' = Holds(c)

\* Nothing moves if queues and threads hold what they held.
LEMMA QuietCopies ==
  ASSUME Located, QueuesSame, HoldsSame, Idle', UNCHANGED fate
  PROVE CopyInv'
  <1>1. \A t \in Kind, c \in Conn : Content(t, c)' = Content(t, c)
    BY Zenon, SamePlaces DEF QueuesSame, HoldsSame
  <1> QED BY Zenon, <1>1, Still DEF CopyInv, QueuesSame

\* Queues nobody touches
LEMMA QueuesKept == ASSUME Singles, UNCHANGED <<inbox, mail>> PROVE QueuesSame
  BY Zenon DEF Singles, QueuesSame

\* A frame without a message sent
LEMMA QueuesSend ==
  ASSUME TypeOK, Singles, NEW c, \E f \in FrameRecord : f.data = None /\ SendTo(c, f)
  PROVE QueuesSame /\ \A k \in Client : inbox'[k] = inbox[k]
  <1>1. PICK f \in FrameRecord : f.data = None /\ SendTo(c, f)
    BY Zenon
  <1>2. ASSUME NEW q \in Seq(FrameRecord)
        PROVE Within(Append(q, f)) = Within(q) /\ (Single(q) => Single(Append(q, f)))
    <2>1. f.data \notin Within(q)
      BY Zenon, <1>1 DEF Within
    <2>2. Within(q) \cup ({f.data} \ {None}) = Within(q)
      BY Zenon, <1>1
    <2> QED BY Zenon, <2>1, <2>2, WithinAppend
  <1>3. ASSUME NEW x \in Conn
        PROVE Within(inbox'[x]) = Within(inbox[x]) /\ Single(inbox'[x])
    <2>1. inbox[x] \in Seq(FrameRecord) /\ Single(inbox[x])
      BY Zenon DEF TypeOK, Singles
    <2>2. inbox'[x] = inbox[x] \/ inbox'[x] = Append(inbox[x], f)
      BY Zenon, <1>1, Kinds DEF SendTo, TypeOK
    <2> QED BY Zenon, <1>2, <2>1, <2>2
  <1>4. ASSUME NEW k \in Client
        PROVE Within(mail'[k]) = Within(mail[k]) /\ Single(mail'[k])
    <2>1. mail[k] \in Seq(FrameRecord) /\ Single(mail[k])
      BY Zenon DEF TypeOK, Singles
    <2>2. mail'[k] = mail[k] \/ mail'[k] = Append(mail[k], f)
      BY Zenon, <1>1 DEF SendTo, TypeOK
    <2> QED BY Zenon, <1>2, <2>1, <2>2
  <1>5. \A k \in Client : inbox'[k] = inbox[k]
    <2>1. c \in End => Far[c] \in Conn /\ Far[c] \notin Client
      BY Zenon, Kinds
    <2>2. \A k \in Client : k \in Conn
      BY Zenon, Kinds
    <2> QED BY Zenon, <1>1, <2>1, <2>2 DEF SendTo, TypeOK
  <1> QED BY Zenon, <1>3, <1>4, <1>5 DEF QueuesSame, Singles

\* A frame without a message read
LEMMA QueuesRead ==
  ASSUME TypeOK, Frames, Singles, NEW c \in Conn, NEW t, t # "data", Read(c, t), UNCHANGED mail
  PROVE QueuesSame /\ \A x \in Conn \ {c} : inbox'[x] = inbox[x]
  <1>1. Head(inbox[c]) \in Allowed(c) /\ Head(inbox[c]).type = t
    BY Zenon, ReadFrames
  <1>2. Head(inbox[c]).data = None
    BY Zenon, <1>1 DEF Allowed, Message
  <1>3. inbox[c] \in Seq(FrameRecord) /\ inbox[c] # <<>> /\ Single(inbox[c])
    BY Zenon DEF TypeOK, Singles, Read
  <1>4. Within(Tail(inbox[c])) = Within(inbox[c]) /\ Single(Tail(inbox[c]))
    BY Zenon, <1>2, <1>3, WithinTail
  <1>5. inbox'[c] = Tail(inbox[c]) /\ \A x \in Conn \ {c} : inbox'[x] = inbox[x]
    BY Zenon DEF Read, TypeOK
  <1> QED BY Zenon, <1>4, <1>5 DEF QueuesSame, Singles

\* Threads that do not move, and one that moves without a message
LEMMA HoldsKept == ASSUME UNCHANGED threadVars PROVE HoldsSame
  BY Zenon DEF HoldsSame, Holds, threadVars
LEMMA HoldsGoto ==
  ASSUME TypeOK, NEW c \in Conn, NEW l, l \notin {"forward", "upstream"}, Goto(c, l),
         pc[c] \notin {"forward", "upstream"}, \A x \in Conn \ {c} : frame'[x] = frame[x]
  PROVE HoldsSame /\ \A x \in Conn \ {c} : pc'[x] = pc[x]
  <1>1. pc'[c] = l /\ \A x \in Conn \ {c} : pc'[x] = pc[x]
    BY Zenon DEF Goto, TypeOK
  <1>2. ASSUME NEW x \in Conn PROVE Holds(x)' = Holds(x)
    <2>1. CASE x = c
      BY Zenon, <1>1, <2>1 DEF Holds
    <2>2. CASE x # c
      BY Zenon, <1>1, <2>2 DEF Holds
    <2> QED BY Zenon, <2>1, <2>2
  <1> QED BY Zenon, <1>1, <1>2 DEF HoldsSame

\* A step of a thread that runs leaves clients that are off alone.
LEMMA IdleKept ==
  ASSUME Idle, NEW c, pc[c] # "none", UNCHANGED client,
         \A k \in Client \ {c} : pc'[k] = pc[k] /\ inbox'[k] = inbox[k]
  PROVE Idle'
  BY Zenon DEF Idle

\* The steps of TcpRouter::run
LEMMA CopyRouter ==
  ASSUME TypeOK, CopyInv,
         \/ \E r \in Router : RouterStep(r)
         \/ \E e \in End : ConnectPeer(e)
         \/ \E c \in Conn : Break(c)
  PROVE CopyInv'
  <1> USE DEF CopyInv
  <1>1. UNCHANGED <<inbox, mail, client, fate>>
    BY Zenon DEF RouterStep, Listen, List, Accept, ConnectPeer, Break
  <1>2. CASE UNCHANGED threadVars
    <2>1. Idle'
      BY Zenon, <1>1, <1>2 DEF Idle, threadVars
    <2> QED BY Zenon, <1>1, <1>2, <2>1, QueuesKept, HoldsKept, QuietCopies
  <1>3. ASSUME NEW e \in End, NEW l \in {"run", "hello"}, Goto(e, l), pc[e] = "none", UNCHANGED frame
        PROVE CopyInv'
    <2>1. e \in Conn /\ e \notin Client /\ \A k \in Client : k \in Conn
      BY Zenon, Kinds
    <2>2. HoldsSame /\ \A x \in Conn \ {e} : pc'[x] = pc[x]
      BY Zenon, <1>3, <2>1, HoldsGoto
    <2>3. Idle'
      BY Zenon, <1>1, <2>1, <2>2 DEF Idle
    <2> QED BY Zenon, <1>1, <2>2, <2>3, QueuesKept, QuietCopies
  <1> QED BY Zenon, <1>2, <1>3 DEF RouterStep, Listen, List, Accept, ConnectPeer, Break

\* Registering and unregistering
LEMMA CopyRegister ==
  ASSUME TypeOK, CopyInv, NEW k \in Client, Connect(k) \/ Unregister(k)
  PROVE CopyInv'
  <1> USE DEF CopyInv
  <1>0. k \in Conn /\ \A x \in Client : x \in Conn
    BY Zenon, Kinds
  <1>1. CASE Connect(k)
    <2> DEFINE f == Frame("init", Id[k])
    <2>1. /\ client[k] = "off" /\ client' = [client EXCEPT ![k] = "waiting"] /\ Goto(k, "run")
          /\ inbox' = [inbox EXCEPT ![k] = <<f>>] /\ UNCHANGED <<frame, mail, fate>>
      BY Zenon, <1>1 DEF Connect
    <2>2. pc[k] = "none" /\ inbox[k] = <<>>
      BY Zenon, <2>1 DEF Idle
    <2>3. Within(<<f>>) = Within(inbox[k]) /\ Single(<<f>>)
      BY Zenon, <2>2, WithinNone DEF Frame
    <2> HIDE DEF f
    <2>4. inbox'[k] = <<f>> /\ \A x \in Conn \ {k} : inbox'[x] = inbox[x]
      BY Zenon, <1>0, <2>1 DEF TypeOK
    <2>5. QueuesSame
      BY Zenon, <2>1, <2>3, <2>4 DEF QueuesSame, Singles
    <2>6. HoldsSame /\ \A x \in Conn \ {k} : pc'[x] = pc[x]
      BY Zenon, <1>0, <2>1, <2>2, HoldsGoto
    <2>7. client'[k] = "waiting" /\ \A x \in Client \ {k} : client'[x] = client[x]
      BY Zenon, <2>1 DEF TypeOK
    <2>8. Idle'
      BY Zenon, <1>0, <2>4, <2>6, <2>7 DEF Idle
    <2> QED BY Zenon, <2>1, <2>5, <2>6, <2>8, QuietCopies
  <1>2. CASE Unregister(k)
    <2> DEFINE f == Frame("delete", Id[k])
    <2>1. /\ client' = [client EXCEPT ![k] = "deleted"]
          /\ inbox' = [inbox EXCEPT ![k] = Append(@, f)] /\ UNCHANGED <<threadVars, mail, fate>>
      BY Zenon, <1>2 DEF Unregister
    <2>2. f \in FrameRecord /\ f.data = None
      BY Zenon, Kinds DEF Frame, FrameRecord, FrameType
    <2> HIDE DEF f
    <2>3. inbox[k] \in Seq(FrameRecord) /\ Single(inbox[k]) /\ f.data \notin Within(inbox[k])
      BY Zenon, <1>0, <2>2 DEF TypeOK, Singles, Within
    <2>4. Within(inbox[k]) \cup ({f.data} \ {None}) = Within(inbox[k])
      BY Zenon, <2>2
    <2>5. Within(Append(inbox[k], f)) = Within(inbox[k]) /\ Single(Append(inbox[k], f))
      BY Zenon, <2>2, <2>3, <2>4, WithinAppend
    <2>6. inbox'[k] = Append(inbox[k], f) /\ \A x \in Conn \ {k} : inbox'[x] = inbox[x]
      BY Zenon, <1>0, <2>1 DEF TypeOK
    <2>7. QueuesSame
      BY Zenon, <2>1, <2>5, <2>6 DEF QueuesSame, Singles
    <2>8. client'[k] = "deleted" /\ \A x \in Client \ {k} : client'[x] = client[x]
      BY Zenon, <2>1 DEF TypeOK
    <2>9. Idle'
      BY Zenon, <1>0, <2>1, <2>6, <2>8 DEF Idle, threadVars
    <2> QED BY Zenon, <2>1, <2>7, <2>9, HoldsKept, QuietCopies
  <1> QED BY Zenon, <1>1, <1>2

\* The steps of a link thread
LEMMA CopyLink ==
  ASSUME IInv, CopyInv, NEW e \in End, LinkStep(e)
  PROVE CopyInv'
  <1> USE DEF IInv, CopyInv
  <1>0. e \in Conn /\ \A k \in Client : k \in Conn /\ k # e
    BY Zenon, Kinds
  <1>1. pc[e] \in {"run", "hello", "snapshot", "advertise"} /\ UNCHANGED <<client, fate>>
    BY Zenon DEF LinkStep, RecvHello, SendHello, local_mailboxes_snapshot, Advertise,
       RecvPeerRegister, RecvPeerDelete, Read
  <1>2. HoldsSame /\ \A x \in Conn \ {e} : pc'[x] = pc[x]
    <2>1. CASE UNCHANGED threadVars
      BY Zenon, <2>1, HoldsKept DEF threadVars
    <2>2. ASSUME NEW l \in {"run", "hello", "snapshot", "advertise"}, Goto(e, l),
                 \A x \in Conn \ {e} : frame'[x] = frame[x]
          PROVE HoldsSame /\ \A x \in Conn \ {e} : pc'[x] = pc[x]
      BY Zenon, <1>0, <1>1, <2>2, HoldsGoto
    <2>3. ASSUME NEW f, NEW S, NEW l, Work(e, l, f, S)
          PROVE Goto(e, l) /\ \A x \in Conn \ {e} : frame'[x] = frame[x]
      BY Zenon, <2>3 DEF Work, TypeOK
    <2>4. CASE RecvHello(e) \/ RecvPeerRegister(e) \/ RecvPeerDelete(e)
      BY Zenon, <2>1, <2>2, <2>4 DEF RecvHello, RecvPeerRegister, RecvPeerDelete, threadVars, Goto
    <2>5. CASE SendHello(e)
      BY Zenon, <2>2, <2>5 DEF SendHello
    <2>6. CASE local_mailboxes_snapshot(e) \/ Advertise(e)
      <3>1. \E l \in {"run", "advertise"} : \E f, S : Work(e, l, f, S)
        BY Zenon, <2>6 DEF local_mailboxes_snapshot, Advertise
      <3> QED BY Zenon, <2>2, <2>3, <3>1
    <2> QED BY Zenon, <2>4, <2>5, <2>6 DEF LinkStep
  <1>3. QueuesSame /\ \A k \in Client : inbox'[k] = inbox[k]
    <2>1. CASE RecvHello(e) \/ RecvPeerRegister(e) \/ RecvPeerDelete(e)
      <3>1. \E t \in {"hello", "peer_register", "peer_delete"} : Read(e, t) /\ UNCHANGED mail
        BY Zenon, <2>1 DEF RecvHello, RecvPeerRegister, RecvPeerDelete
      <3> QED BY Zenon, <1>0, <3>1, QueuesRead
    <2>2. CASE local_mailboxes_snapshot(e)
      BY Zenon, <2>2, QueuesKept DEF local_mailboxes_snapshot
    <2>3. CASE SendHello(e)
      <3>1. Hello \in FrameRecord /\ Hello.data = None
        BY Zenon DEF Hello, Frame, FrameRecord, FrameType
      <3> QED BY Zenon, <2>3, <3>1, QueuesSend DEF SendHello
    <2>4. CASE Advertise(e)
      <3>1. PICK m \in todo[e] : SendTo(e, Frame("peer_register", m))
        BY Zenon, <2>4 DEF Advertise
      <3>2. m \in Mailbox
        BY Zenon, <1>0, <2>4, OwnedMailboxes DEF Handling, HandlingOf, Advertise
      <3>3. Frame("peer_register", m) \in FrameRecord /\ Frame("peer_register", m).data = None
        BY Zenon, <3>2 DEF Frame, FrameRecord, FrameType
      <3> QED BY Zenon, <3>1, <3>3, QueuesSend
    <2> QED BY Zenon, <2>1, <2>2, <2>3, <2>4 DEF LinkStep
  <1>4. Idle'
    BY Zenon, <1>0, <1>1, <1>2, <1>3, IdleKept
  <1> QED BY Zenon, <1>1, <1>2, <1>3, <1>4, QuietCopies

\* The steps of a client's thread that serve the registry
LEMMA CopyClient ==
  ASSUME IInv, CopyInv, NEW k \in Client, ClientStep(k), pc[k] # "upstream"
  PROVE CopyInv'
  <1> USE DEF IInv, CopyInv
  <1>0. k \in Conn /\ \A x \in Client : x \in Conn
    BY Zenon, Kinds
  <1>1. pc[k] \in {"run", "accept", "refuse", "insert", "erase", "peers", "broadcast"}
          /\ UNCHANGED <<client, fate>>
    BY Zenon DEF ClientStep, RecvInit, SendReply, InsertLocal, RecvDelete, EraseLocal, PeersSnapshot,
       Broadcast, ForwardUpstream, NoUpstream, Read
  <1>2. HoldsSame /\ \A x \in Conn \ {k} : pc'[x] = pc[x]
    <2>1. ASSUME NEW l \in {"run", "accept", "refuse", "insert", "erase", "peers", "broadcast"},
                 Goto(k, l), \A x \in Conn \ {k} : frame'[x] = frame[x]
          PROVE HoldsSame /\ \A x \in Conn \ {k} : pc'[x] = pc[x]
      BY Zenon, <1>0, <1>1, <2>1, HoldsGoto
    <2>2. ASSUME NEW f, NEW S, NEW l, Work(k, l, f, S)
          PROVE Goto(k, l) /\ \A x \in Conn \ {k} : frame'[x] = frame[x]
      BY Zenon, <2>2 DEF Work, TypeOK
    <2>3. CASE RecvInit(k) \/ RecvDelete(k) \/ PeersSnapshot(k) \/ Broadcast(k)
      <3>1. \E l \in {"run", "accept", "refuse", "erase", "broadcast"} : \E f, S : Work(k, l, f, S)
        BY Zenon, <2>3 DEF RecvInit, RecvDelete, PeersSnapshot, Broadcast
      <3> QED BY Zenon, <2>1, <2>2, <3>1
    <2>4. CASE SendReply(k) \/ InsertLocal(k) \/ EraseLocal(k)
      <3>1. UNCHANGED frame /\ \E l \in {"run", "insert", "peers"} : Goto(k, l)
        BY Zenon, <2>4 DEF SendReply, InsertLocal, EraseLocal
      <3> QED BY Zenon, <2>1, <3>1
    <2> QED BY Zenon, <2>3, <2>4 DEF ClientStep, ForwardUpstream, NoUpstream
  <1>3. QueuesSame /\ \A x \in Client \ {k} : inbox'[x] = inbox[x]
    <2>1. CASE RecvInit(k) \/ RecvDelete(k)
      <3>1. \E t \in {"init", "delete"} : Read(k, t) /\ UNCHANGED mail
        BY Zenon, <2>1 DEF RecvInit, RecvDelete
      <3> QED BY Zenon, <1>0, <3>1, QueuesRead
    <2>2. CASE InsertLocal(k) \/ EraseLocal(k) \/ PeersSnapshot(k)
      BY Zenon, <2>2, QueuesKept DEF InsertLocal, EraseLocal, PeersSnapshot
    <2>3. CASE SendReply(k)
      <3>1. PICK t \in {"ok", "error"} : SendTo(k, Frame(t, None))
        BY Zenon, <2>3 DEF SendReply
      <3>2. Frame(t, None) \in FrameRecord /\ Frame(t, None).data = None
        BY Zenon DEF Frame, FrameRecord, FrameType
      <3> QED BY Zenon, <3>1, <3>2, QueuesSend
    <2>4. CASE Broadcast(k)
      <3>1. PICK e \in todo[k], t \in {"peer_register", "peer_delete"} :
              SendTo(e, Frame(t, frame[k].mbx))
        BY Zenon, <2>4 DEF Broadcast
      <3>2. frame[k].mbx = Id[k] /\ Id[k] \in Mailbox
        BY Zenon, <1>0, <2>4, Kinds DEF Handling, HandlingOf, Broadcast
      <3>3. Frame(t, frame[k].mbx) \in FrameRecord /\ Frame(t, frame[k].mbx).data = None
        BY Zenon, <3>2 DEF Frame, FrameRecord, FrameType
      <3> QED BY Zenon, <3>1, <3>3, QueuesSend
    <2> QED BY Zenon, <2>1, <2>2, <2>3, <2>4 DEF ClientStep, ForwardUpstream, NoUpstream
  <1>4. Idle'
    BY Zenon, <1>1, <1>2, <1>3, <1>0, IdleKept
  <1> QED BY Zenon, <1>1, <1>2, <1>3, <1>4, QuietCopies

-----------------------------------------------------------------------------
(* Steps that move messages.                                               *)

\* The thread of c lets go of the message it holds.
LEMMA HoldsReleased ==
  ASSUME TypeOK, NEW c \in Conn, pc[c] \in {"forward", "upstream"}, Goto(c, "run"), UNCHANGED frame
  PROVE /\ Content("thread", c) = {frame[c].data} /\ Content("thread", c)' = {}
        /\ \A x \in Conn \ {c} : pc'[x] = pc[x] /\ Content("thread", x)' = Content("thread", x)
  <1>1. pc'[c] = "run" /\ \A x \in Conn \ {c} : pc'[x] = pc[x]
    BY Zenon DEF Goto, TypeOK
  <1> QED BY Zenon, <1>1 DEF Content, Holds

\* forward_to_upstream(): taken by the socket, or refused
LEMMA CopyUpstream ==
  ASSUME IInv, CopyInv, NEW k \in Client, ForwardUpstream(k) \/ NoUpstream(k)
  PROVE CopyInv'
  <1> USE DEF IInv, CopyInv
  <1>0. k \in Conn /\ \A x \in Client : x \in Conn
    BY Zenon, Kinds
  <1>1. pc[k] = "upstream" /\ Goto(k, "run") /\ UNCHANGED <<frame, client>>
    BY Zenon DEF ForwardUpstream, NoUpstream
  <1>2. frame[k].data \in Data
    BY Zenon, <1>0, <1>1 DEF Handling, HandlingOf, Message
  <1>3. QueuesSame /\ \A x \in Client : inbox'[x] = inbox[x]
    <2>1. CASE ForwardUpstream(k)
      BY Zenon, <2>1, QueuesKept DEF ForwardUpstream
    <2>2. CASE NoUpstream(k)
      <3>1. Frame("error", None) \in FrameRecord /\ Frame("error", None).data = None
        BY Zenon DEF Frame, FrameRecord, FrameType
      <3> QED BY Zenon, <2>2, <3>1, QueuesSend DEF NoUpstream
    <2> QED BY Zenon, <2>1, <2>2
  <1>4. fate'[frame[k].data] # "routing" /\ \A d \in Data \ {frame[k].data} : fate'[d] = fate[d]
    <2>1. \E s \in {"upstream", "lost", "refused"} : fate' = [fate EXCEPT ![frame[k].data] = s]
      BY Zenon DEF ForwardUpstream, NoUpstream
    <2> QED BY Zenon, <1>2, <2>1 DEF TypeOK
  <1>5. /\ Content("thread", k) = {frame[k].data} /\ Content("thread", k)' = {}
        /\ \A x \in Conn \ {k} : pc'[x] = pc[x] /\ Content("thread", x)' = Content("thread", x)
    BY Zenon, <1>0, <1>1, HoldsReleased
  <1>6. \A u \in Kind, x \in Conn :
          (u = "thread" /\ x = k) \/ Content(u, x)' = Content(u, x)
    <2>1. \A x \in Conn : Content("inbox", x)' = Content("inbox", x) /\ Content("mail", x)' = Content("mail", x)
      BY Zenon, <1>3 DEF Content, QueuesSame
    <2> QED BY Zenon, <1>5, <2>1 DEF Kind
  <1>7. \A d \in Data :
          IF d \in Content("thread", k) /\ d \notin Content("thread", k)' THEN fate'[d] # "routing"
          ELSE fate'[d] = fate[d]
    BY Zenon, <1>4, <1>5
  <1>8. Located'
    <2>1. "thread" \in Kind /\ Drops("thread", k)
      BY Zenon, <1>5, <1>6, <1>7 DEF Kind, Drops
    <2> QED BY Zenon, <1>0, <2>1, Dropped
  <1>9. Idle'
    BY Zenon, <1>0, <1>1, <1>3, <1>5, IdleKept
  <1> QED BY Zenon, <1>3, <1>8, <1>9 DEF QueuesSame

\* send_raw(): a message enters
LEMMA CopySend ==
  ASSUME IInv, CopyInv, NEW d \in Data, Send(d)
  PROVE CopyInv'
  <1> USE DEF IInv, CopyInv
  <1> DEFINE c == Src[d]
             f == DataFrame(d)
  <1>0. c \in Conn /\ f \in FrameRecord /\ f.data = d /\ d # None
    BY NetworkAssumption DEF DataFrame, FrameRecord, FrameType, Conn
  <1>1. /\ inbox' = [inbox EXCEPT ![c] = Append(@, f)] /\ fate' = [fate EXCEPT ![d] = "routing"]
        /\ fate[d] = "unsent" /\ UNCHANGED <<threadVars, client, mail>>
        /\ c \in Client => client[c] # "off"
    BY Zenon DEF Send
  <1> HIDE DEF c, f
  <1>2. \A t \in Kind, x \in Conn : d \notin Content(t, x)
    BY <1>1 DEF Located
  <1>3. inbox[c] \in Seq(FrameRecord) /\ Single(inbox[c]) /\ d \notin Within(inbox[c])
    BY Zenon, <1>0, <1>2 DEF TypeOK, Singles, Content, Kind
  <1>4. inbox'[c] = Append(inbox[c], f) /\ \A x \in Conn \ {c} : inbox'[x] = inbox[x]
    BY Zenon, <1>0, <1>1 DEF TypeOK
  <1>5. /\ Single(Append(inbox[c], f))
        /\ \A e : e \in Within(Append(inbox[c], f)) <=> e = d \/ e \in Within(inbox[c])
    BY Zenon, <1>0, <1>3, WithinAppend
  <1>6. Singles'
    BY Zenon, <1>1, <1>4, <1>5 DEF Singles
  <1>7. Idle'
    BY Zenon, <1>1, <1>4, Kinds DEF Idle, threadVars
  <1>8. ASSUME NEW u \in Kind, NEW x \in Conn, NEW e \in Data
        PROVE e \in Content(u, x)' <=> \/ u = "inbox" /\ x = c /\ e = d
                                       \/ e # d /\ e \in Content(u, x)
    <2>1. CASE u = "inbox" /\ x = c
      BY Zenon, <1>3, <1>4, <1>5, <2>1 DEF Content
    <2>2. CASE ~(u = "inbox" /\ x = c)
      <3>1. Content(u, x)' = Content(u, x)
        <4>1. x # c => Content("inbox", x)' = Content("inbox", x)
          BY Zenon, <1>4 DEF Content
        <4>2. /\ Content("thread", x)' = Content("thread", x)
              /\ Content("mail", x)' = Content("mail", x)
          BY Zenon, <1>1 DEF Content, Holds, threadVars
        <4> QED BY Zenon, <2>2, <4>1, <4>2 DEF Kind
      <3> QED BY Zenon, <1>2, <2>2, <3>1
    <2> QED BY Zenon, <2>1, <2>2
  <1>9. fate'[d] = "routing" /\ \A e \in Data \ {d} : fate'[e] = fate[e]
    BY Zenon, <1>1 DEF TypeOK
  <1>10. "inbox" \in Kind /\ MovesTo("inbox", c, d)
    <2>1. \A u \in Kind, x \in Conn, e \in Data :
            e \in Content(u, x)' <=> \/ u = "inbox" /\ x = c /\ e = d
                                     \/ e # d /\ e \in Content(u, x)
      BY Zenon, <1>8
    <2> QED BY Zenon, <1>9, <2>1 DEF Kind, MovesTo
  <1> QED BY Zenon, <1>0, <1>6, <1>7, <1>10, Moved

\* What a client reads, and what it leaves unread when it closes its socket
LEMMA CopyMail ==
  ASSUME IInv, CopyInv, NEW k \in Client, Reply(k) \/ Receive(k) \/ Shutdown(k)
  PROVE CopyInv'
  <1> USE DEF IInv, CopyInv
  <1> DEFINE q == mail[k]
  <1>0. k \in Conn /\ q \in Seq(FrameRecord) /\ Single(q)
    BY Zenon, Kinds DEF TypeOK, Singles
  <1>1. UNCHANGED <<threadVars, inbox>>
    BY Zenon DEF Reply, Receive, Shutdown
  <1>2. \A x \in Client : client'[x] = "off" => client[x] = "off"
    <2>1. UNCHANGED client \/ \E s \in {"closed", "ready", "garbled"} : client' = [client EXCEPT ![k] = s]
      BY Zenon DEF Reply, Receive, Shutdown, Close
    <2> QED BY Zenon, <2>1 DEF TypeOK
  <1>3. \/ mail' = [mail EXCEPT ![k] = <<>>] /\ Lose(Within(q))
        \/ /\ mail' = [mail EXCEPT ![k] = Tail(@)] /\ q # <<>>
           /\ \/ Lose({Head(q).data})
              \/ fate' = [d \in Data |-> IF d = Head(q).data THEN "delivered" ELSE fate[d]]
    BY Zenon DEF Reply, Receive, Shutdown, Close
  <1>4. \A x \in Client \ {k} : mail'[x] = mail[x]
    BY Zenon, <1>3 DEF TypeOK
  <1>5. Single(mail'[k]) /\ \A d : d \in Within(mail'[k]) => d \in Within(q)
    <2>1. mail'[k] = <<>> \/ (q # <<>> /\ mail'[k] = Tail(q))
      BY Zenon, <1>3 DEF TypeOK
    <2>2. CASE mail'[k] = <<>>
      BY Zenon, <2>2, WithinNone
    <2>3. CASE q # <<>> /\ mail'[k] = Tail(q)
      BY Zenon, <1>0, <2>3, WithinTail
    <2> QED BY Zenon, <2>1, <2>2, <2>3
  <1>6. \A d \in Data : IF d \in Within(q) /\ d \notin Within(mail'[k]) THEN fate'[d] # "routing"
                        ELSE fate'[d] = fate[d]
    <2> SUFFICES ASSUME NEW d \in Data
                 PROVE IF d \in Within(q) /\ d \notin Within(mail'[k]) THEN fate'[d] # "routing"
                       ELSE fate'[d] = fate[d]
      BY Zenon
    <2>1. CASE mail'[k] = <<>> /\ Lose(Within(q))
      BY Zenon, <2>1, WithinNone DEF Lose
    <2>2. ASSUME q # <<>>, mail'[k] = Tail(q), d = Head(q).data => fate'[d] # "routing",
                 d # Head(q).data => fate'[d] = fate[d]
          PROVE IF d \in Within(q) /\ d \notin Within(mail'[k]) THEN fate'[d] # "routing"
                ELSE fate'[d] = fate[d]
      <3>1. Within(mail'[k]) = Within(q) \ {Head(q).data} /\ (Head(q).data # None => Head(q).data \in Within(q))
        BY Zenon, <1>0, <2>2, WithinTail
      <3>2. d # None
        BY Zenon, NetworkAssumption
      <3>3. d = Head(q).data <=> d \in Within(q) /\ d \notin Within(mail'[k])
        BY Zenon, <3>1, <3>2
      <3> QED BY Zenon, <2>2, <3>3
    <2>3. ASSUME mail' = [mail EXCEPT ![k] = Tail(@)], q # <<>>,
                 NEW s, s # "routing",
                 fate' = [e \in Data |-> IF e = Head(q).data THEN s ELSE fate[e]]
          PROVE IF d \in Within(q) /\ d \notin Within(mail'[k]) THEN fate'[d] # "routing"
                ELSE fate'[d] = fate[d]
      <3>1. mail'[k] = Tail(q)
        BY Zenon, <2>3 DEF TypeOK
      <3>2. fate'[d] = IF d = Head(q).data THEN s ELSE fate[d]
        BY Zenon, <2>3
      <3> QED BY Zenon, <2>2, <2>3, <3>1, <3>2
    <2>4. mail' = [mail EXCEPT ![k] = <<>>] => mail'[k] = <<>>
      BY Zenon DEF TypeOK
    <2>5. CASE Lose({Head(q).data})
      <3>1. fate' = [e \in Data |-> IF e = Head(q).data THEN "lost" ELSE fate[e]]
        BY <2>5 DEF Lose
      <3> QED BY Zenon, <1>3, <2>1, <2>3, <2>4, <3>1
    <2>6. CASE fate' = [e \in Data |-> IF e = Head(q).data THEN "delivered" ELSE fate[e]]
      BY Zenon, <1>3, <2>1, <2>3, <2>4, <2>6
    <2> QED BY Zenon, <1>3, <2>1, <2>4, <2>5, <2>6
  <1> HIDE DEF q
  <1>7. \A u \in Kind, x \in Conn : (u = "mail" /\ x = k) \/ Content(u, x)' = Content(u, x)
    BY Zenon, <1>1, <1>4 DEF Content, Holds, Kind, threadVars
  <1>8. Content("mail", k) = Within(q) /\ Content("mail", k)' = Within(mail'[k])
    BY Zenon DEF Content, q
  <1>9. "mail" \in Kind /\ Drops("mail", k)
    BY Zenon, <1>5, <1>6, <1>7, <1>8 DEF Kind, Drops
  <1>10. Located'
    BY Zenon, <1>0, <1>9, Dropped
  <1>11. Singles'
    BY Zenon, <1>1, <1>4, <1>5 DEF Singles
  <1>12. Idle'
    BY Zenon, <1>1, <1>2 DEF Idle, threadVars
  <1> QED BY Zenon, <1>10, <1>11, <1>12

\* handle_frame() on a message: the thread takes it, or drops it
LEMMA CopyRecv ==
  ASSUME IInv, CopyInv, NEW c \in Conn, RecvData(c)
  PROVE CopyInv'
  <1> USE DEF IInv, CopyInv
  <1> DEFINE q == inbox[c]
             f == Head(q)
             keeps == registry[At[c]][f.mbx] # None \/ c \in Client
  <1>1. Read(c, "data") /\ UNCHANGED <<client, mail>>
    BY Zenon DEF RecvData
  <1>2. f \in Message /\ f.data \in Data
    BY Zenon, <1>1, ReadFrames DEF Allowed, Message
  <1>3. /\ \E l : (keeps <=> l \in {"forward", "upstream"}) /\ \E S : Work(c, l, f, S)
        /\ Lose(IF keeps THEN {} ELSE {f.data})
    BY Zenon DEF RecvData, Next_mbx
  <1>4. pc[c] = "run" /\ q \in Seq(FrameRecord) /\ q # <<>> /\ Single(q)
    BY Zenon, <1>1 DEF Read, TypeOK, Singles
  <1>5. inbox'[c] = Tail(q) /\ \A x \in Conn \ {c} : inbox'[x] = inbox[x]
    BY Zenon, <1>1 DEF Read, TypeOK
  <1>6. /\ keeps <=> pc'[c] \in {"forward", "upstream"}
        /\ frame'[c] = f
        /\ \A x \in Conn \ {c} : pc'[x] = pc[x] /\ frame'[x] = frame[x]
    BY Zenon, <1>3 DEF Work, Goto, TypeOK
  <1>7. \A e \in Data : fate'[e] = IF ~keeps /\ e = f.data THEN "lost" ELSE fate[e]
    BY <1>3 DEF Lose
  <1> HIDE DEF keeps, f, q
  <1>8. /\ Single(Tail(q)) /\ f.data \in Within(q)
        /\ \A e : e \in Within(Tail(q)) <=> e # f.data /\ e \in Within(q)
    <2>1. f.data # None
      BY Zenon, <1>2, NetworkAssumption
    <2> QED BY Zenon, <1>4, <2>1, WithinTail DEF f
  <1>9. Content("inbox", c) = Within(q) /\ Content("inbox", c)' = Within(Tail(q))
    BY Zenon, <1>5 DEF Content, q
  <1>10. Content("thread", c) = {} /\ Content("thread", c)' = IF keeps THEN {f.data} ELSE {}
    BY Zenon, <1>4, <1>6 DEF Content, Holds
  <1>11. \A u \in Kind, x \in Conn :
           (u = "inbox" /\ x = c) \/ (u = "thread" /\ x = c) \/ Content(u, x)' = Content(u, x)
    <2>1. \A x \in Conn : Content("mail", x)' = Content("mail", x)
      BY Zenon, <1>1 DEF Content
    <2>2. \A x \in Conn \ {c} : /\ Content("inbox", x)' = Content("inbox", x)
                                /\ Content("thread", x)' = Content("thread", x)
      BY Zenon, <1>5, <1>6 DEF Content, Holds
    <2> QED BY Zenon, <2>1, <2>2 DEF Kind
  <1>12. Located'
    <2>0. "inbox" \in Kind /\ "thread" \in Kind /\ "inbox" # "thread"
      BY Zenon DEF Kind
    <2>1. CASE keeps
      <3>1. Passes("inbox", c, "thread", c, f.data)
        BY Zenon, <1>7, <1>8, <1>9, <1>10, <1>11, <2>1 DEF Passes
      <3> QED BY Zenon, <1>2, <2>0, <3>1, Passed
    <2>2. CASE ~keeps
      <3>1. Drops("inbox", c)
        BY Zenon, <1>7, <1>8, <1>9, <1>10, <1>11, <2>2 DEF Drops
      <3> QED BY Zenon, <2>0, <3>1, Dropped
    <2> QED BY Zenon, <2>1, <2>2
  <1>13. Singles'
    BY Zenon, <1>1, <1>5, <1>8 DEF Singles
  <1>14. Idle'
    BY Zenon, <1>1, <1>4, <1>5, <1>6, IdleKept, Kinds
  <1> QED BY Zenon, <1>12, <1>13, <1>14

\* A body too large, or a connection that ends: unread frames are lost
LEMMA CopyClosed ==
  ASSUME IInv, CopyInv, NEW c \in Conn, Oversized(c) \/ Disconnect(c)
  PROVE CopyInv'
  <1> USE DEF IInv, CopyInv
  <1>1. /\ inbox' = [inbox EXCEPT ![c] = <<>>] /\ Lose(Within(inbox[c])) /\ pc[c] = "run"
        /\ UNCHANGED <<frame, client, mail>> /\ \E l \in {"exit", "stuck"} : Goto(c, l)
    BY Zenon DEF Oversized, Disconnect
  <1>2. inbox'[c] = <<>> /\ \A x \in Conn \ {c} : inbox'[x] = inbox[x]
    BY Zenon, <1>1 DEF TypeOK
  <1>3. HoldsSame /\ \A x \in Conn \ {c} : pc'[x] = pc[x]
    BY Zenon, <1>1, HoldsGoto
  <1>4. \A u \in Kind, x \in Conn : (u = "inbox" /\ x = c) \/ Content(u, x)' = Content(u, x)
    <2>1. \A x \in Conn \ {c} : Content("inbox", x)' = Content("inbox", x)
      BY Zenon, <1>2 DEF Content
    <2>2. \A x \in Conn : /\ Content("thread", x)' = Content("thread", x)
                          /\ Content("mail", x)' = Content("mail", x)
      BY Zenon, <1>1, <1>3 DEF Content, HoldsSame
    <2> QED BY Zenon, <2>1, <2>2 DEF Kind
  <1>5. Content("inbox", c)' = {} /\ Content("inbox", c) = Within(inbox[c])
    BY Zenon, <1>2, WithinNone DEF Content
  <1>6. \A d \in Data : fate'[d] = IF d \in Within(inbox[c]) THEN "lost" ELSE fate[d]
    BY Zenon, <1>1 DEF Lose
  <1>7. "inbox" \in Kind /\ Drops("inbox", c)
    BY Zenon, <1>4, <1>5, <1>6 DEF Drops, Kind
  <1>8. Located'
    BY Zenon, <1>7, Dropped
  <1>9. Singles'
    BY Zenon, <1>1, <1>2, WithinNone DEF Singles
  <1>10. Idle'
    BY Zenon, <1>1, <1>2, <1>3, IdleKept, Kinds
  <1> QED BY Zenon, <1>8, <1>9, <1>10

\* A message reaches the end of a queue.
LEMMA Appended ==
  ASSUME NEW q \in Seq(FrameRecord), NEW f \in FrameRecord, Single(q), f.data # None,
         f.data \notin Within(q)
  PROVE /\ Single(Append(q, f))
        /\ \A e : e \in Within(Append(q, f)) <=> e = f.data \/ e \in Within(q)
  BY Zenon, WithinAppend

\* handle_frame() sends a message on, or finds the socket closed
LEMMA CopyForward ==
  ASSUME IInv, CopyInv, NEW c \in Conn, Forward(c)
  PROVE CopyInv'
  <1> USE DEF IInv, CopyInv
  <1>1. PICK dest \in todo[c] :
          SendTo(dest, frame[c]) /\ Lose(IF dest \in open THEN {} ELSE {frame[c].data})
    BY Zenon DEF Forward
  <1>2. PICK f \in FrameRecord : f = frame[c]
    BY Zenon DEF TypeOK
  <1>3. pc[c] = "forward" /\ Goto(c, "run") /\ UNCHANGED <<frame, client>>
    BY Zenon DEF Forward
  <1>4. f.data \in Data /\ f.data # None /\ dest \in Client \cup End
    <2>1. frame[c] \in Message /\ dest \in Client \cup End
      BY Zenon, <1>1, <1>3 DEF Handling, HandlingOf
    <2> QED BY Zenon, <1>2, <2>1, NetworkAssumption DEF Message
  <1>5. /\ Content("thread", c) = {f.data} /\ Content("thread", c)' = {}
        /\ \A x \in Conn \ {c} : pc'[x] = pc[x] /\ Content("thread", x)' = Content("thread", x)
    BY Zenon, <1>2, <1>3, HoldsReleased
  <1>6. \A x \in Conn : f.data \notin Content("inbox", x) /\ f.data \notin Content("mail", x)
    <2>1. "thread" \in Kind /\ "inbox" \in Kind /\ "mail" \in Kind /\ f.data \in Content("thread", c)
      BY Zenon, <1>5 DEF Kind
    <2> QED BY <1>4, <2>1 DEF Located
  <1>7. \A e \in Data : fate'[e] = IF dest \notin open /\ e = f.data THEN "lost" ELSE fate[e]
    BY <1>1, <1>2 DEF Lose
  <1>8. CASE dest \notin open
    <2>1. UNCHANGED <<inbox, mail>>
      BY Zenon, <1>1, <1>8 DEF SendTo
    <2>2. \A u \in Kind, x \in Conn : (u = "thread" /\ x = c) \/ Content(u, x)' = Content(u, x)
      <3>1. \A x \in Conn : /\ Content("inbox", x)' = Content("inbox", x)
                            /\ Content("mail", x)' = Content("mail", x)
        BY Zenon, <2>1 DEF Content
      <3> QED BY Zenon, <1>5, <3>1 DEF Kind
    <2>3. "thread" \in Kind /\ Drops("thread", c)
      BY Zenon, <1>5, <1>7, <1>8, <2>2 DEF Drops, Kind
    <2>4. Located'
      BY Zenon, <2>3, Dropped
    <2>5. Singles'
      BY Zenon, <2>1 DEF Singles
    <2>6. Idle'
      BY Zenon, <1>3, <1>5, <2>1, IdleKept, Kinds
    <2> QED BY Zenon, <2>4, <2>5, <2>6
  <1>9. CASE dest \in open /\ dest \in Client
    <2>0. dest \in Conn /\ dest \notin End
      BY Zenon, <1>9, Kinds
    <2>1. inbox' = inbox /\ mail' = [mail EXCEPT ![dest] = Append(@, f)]
      BY Zenon, <1>1, <1>2, <1>9, <2>0 DEF SendTo
    <2>2. mail'[dest] = Append(mail[dest], f) /\ \A k \in Client \ {dest} : mail'[k] = mail[k]
      BY Zenon, <1>9, <2>1 DEF TypeOK
    <2>3. mail[dest] \in Seq(FrameRecord) /\ Single(mail[dest]) /\ f.data \notin Within(mail[dest])
      BY Zenon, <1>6, <1>9, <2>0 DEF TypeOK, Singles, Content
    <2>4. /\ Single(mail'[dest])
          /\ \A e : e \in Within(mail'[dest]) <=> e = f.data \/ e \in Within(mail[dest])
      BY Zenon, <1>4, <2>2, <2>3, Appended
    <2>5. \A e : e \in Content("mail", dest)' <=> e = f.data \/ e \in Content("mail", dest)
      BY Zenon, <1>9, <2>4 DEF Content
    <2>6. \A u \in Kind, x \in Conn :
            (u = "thread" /\ x = c) \/ (u = "mail" /\ x = dest) \/ Content(u, x)' = Content(u, x)
      <3>1. \A x \in Conn : Content("inbox", x)' = Content("inbox", x)
        BY Zenon, <2>1 DEF Content
      <3>2. \A x \in Conn \ {dest} : Content("mail", x)' = Content("mail", x)
        BY Zenon, <2>2 DEF Content
      <3> QED BY Zenon, <1>5, <3>1, <3>2 DEF Kind
    <2>7. "thread" \in Kind /\ "mail" \in Kind /\ Passes("thread", c, "mail", dest, f.data)
      <3>1. /\ f.data \in Content("thread", c) /\ "thread" # "mail"
            /\ \A e : e \in Content("thread", c)' <=> e # f.data /\ e \in Content("thread", c)
        BY Zenon, <1>5
      <3>2. \A e \in Data : fate'[e] = fate[e]
        BY Zenon, <1>7, <1>9
      <3> QED BY Zenon, <2>5, <2>6, <3>1, <3>2 DEF Passes, Kind
    <2>8. Located'
      BY Zenon, <1>4, <2>0, <2>7, Passed
    <2>9. Singles'
      BY Zenon, <2>1, <2>2, <2>4 DEF Singles
    <2>10. Idle'
      BY Zenon, <1>3, <1>5, <2>1, IdleKept, Kinds
    <2> QED BY Zenon, <2>8, <2>9, <2>10
  <1>10. CASE dest \in open /\ dest \in End
    <2> DEFINE y == Far[dest]
    <2>0. y \in Conn /\ y \notin Client /\ dest \notin Client
      BY Zenon, <1>10, Kinds
    <2>1. mail' = mail /\ inbox' = [inbox EXCEPT ![y] = Append(@, f)]
      BY Zenon, <1>1, <1>2, <1>10, <2>0 DEF SendTo
    <2> HIDE DEF y
    <2>2. inbox'[y] = Append(inbox[y], f) /\ \A x \in Conn \ {y} : inbox'[x] = inbox[x]
      BY Zenon, <2>0, <2>1 DEF TypeOK
    <2>3. inbox[y] \in Seq(FrameRecord) /\ Single(inbox[y]) /\ f.data \notin Within(inbox[y])
      BY Zenon, <1>6, <2>0 DEF TypeOK, Singles, Content
    <2>4. /\ Single(inbox'[y])
          /\ \A e : e \in Within(inbox'[y]) <=> e = f.data \/ e \in Within(inbox[y])
      BY Zenon, <1>4, <2>2, <2>3, Appended
    <2>5. \A e : e \in Content("inbox", y)' <=> e = f.data \/ e \in Content("inbox", y)
      BY Zenon, <2>4 DEF Content
    <2>6. \A u \in Kind, x \in Conn :
            (u = "thread" /\ x = c) \/ (u = "inbox" /\ x = y) \/ Content(u, x)' = Content(u, x)
      <3>1. \A x \in Conn : Content("mail", x)' = Content("mail", x)
        BY Zenon, <2>1 DEF Content
      <3>2. \A x \in Conn \ {y} : Content("inbox", x)' = Content("inbox", x)
        BY Zenon, <2>2 DEF Content
      <3> QED BY Zenon, <1>5, <3>1, <3>2 DEF Kind
    <2>7. "thread" \in Kind /\ "inbox" \in Kind /\ Passes("thread", c, "inbox", y, f.data)
      <3>1. /\ f.data \in Content("thread", c) /\ "thread" # "inbox"
            /\ \A e : e \in Content("thread", c)' <=> e # f.data /\ e \in Content("thread", c)
        BY Zenon, <1>5
      <3>2. \A e \in Data : fate'[e] = fate[e]
        BY Zenon, <1>7, <1>10
      <3> QED BY Zenon, <2>5, <2>6, <3>1, <3>2 DEF Passes, Kind
    <2>8. Located'
      BY Zenon, <1>4, <2>0, <2>7, Passed
    <2>9. Singles'
      BY Zenon, <2>1, <2>2, <2>4 DEF Singles
    <2>10. Idle'
      BY Zenon, <1>3, <1>5, <2>0, <2>2, IdleKept, Kinds
    <2> QED BY Zenon, <2>8, <2>9, <2>10
  <1> QED BY Zenon, <1>4, <1>8, <1>9, <1>10

\* That a message is in one place only is an invariant.
LEMMA CopyInductive == Spec => []CopyInv
  <1>1. Init => CopyInv
    <2> SUFFICES ASSUME Init PROVE CopyInv
      BY Zenon
    <2>1. /\ \A c \in Conn : inbox[c] = <<>> /\ pc[c] \in {"run", "none"}
          /\ \A k \in Client : mail[k] = <<>> /\ inbox[k] = <<>> /\ pc[k] = "none"
          /\ \A d \in Data : fate[d] = "unsent"
      BY Zenon, Kinds DEF Init
    <2>2. Singles /\ Idle
      BY Zenon, <2>1, WithinNone DEF Singles, Idle
    <2>3. \A t \in Kind, c \in Conn : Content(t, c) = {}
      BY Zenon, <2>1, WithinNone DEF Content, Holds
    <2>4. Located
      BY Zenon, <2>1, <2>3 DEF Located
    <2> QED BY Zenon, <2>2, <2>4 DEF CopyInv
  <1>2. IInv /\ CopyInv /\ [Next]_vars => CopyInv'
    <2> SUFFICES ASSUME IInv, CopyInv, [Next]_vars PROVE CopyInv'
      BY Zenon
    <2>1. ASSUME NEW k \in Client, ClientStep(k) PROVE CopyInv'
      <3>1. CASE pc[k] = "upstream"
        <4>1. ForwardUpstream(k) \/ NoUpstream(k)
          BY Zenon, <2>1, <3>1 DEF ClientStep, RecvInit, SendReply, InsertLocal, RecvDelete,
             EraseLocal, PeersSnapshot, Broadcast, Read
        <4> QED BY Zenon, <4>1, CopyUpstream
      <3> QED BY Zenon, <2>1, <3>1, CopyClient
    <2>2. ASSUME NEW c \in Conn, ThreadStep(c) PROVE CopyInv'
      BY Zenon, <2>1, <2>2, CopyRecv, CopyForward, CopyClosed, CopyLink DEF ThreadStep
    <2>3. ASSUME NEW k \in Client, UserStep(k) PROVE CopyInv'
      BY Zenon, <2>3, CopyRegister, CopyMail DEF UserStep, IInv
    <2>4. CASE UNCHANGED vars
      <3>1. Idle'
        BY Zenon, <2>4 DEF vars, threadVars, CopyInv, Idle
      <3> QED BY Zenon, <2>4, <3>1, QueuesKept, HoldsKept, QuietCopies DEF vars, CopyInv
    <2> QED BY Zenon, <2>2, <2>3, <2>4, CopyRouter, CopySend DEF Next, IInv
  <1> QED BY <1>1, <1>2, RouterInductive, PTL DEF Spec

\* Routing neither copies nor forgets a message, in any network and for any
\* interleaving of its threads: one on its way is in exactly one queue or in
\* the hands of one thread, one whose fate is settled is nowhere.
THEOREM RouterOneCopy == Spec => []OneCopy
  <1>1. IInv /\ CopyInv => OneCopy
    <2> SUFFICES ASSUME IInv, CopyInv, NEW d \in Data
                 PROVE Cardinality(Places(d)) = IF fate[d] = "routing" THEN 1 ELSE 0
      BY Zenon DEF OneCopy
    <2> DEFINE Spot(c, t, i) ==
                 \/ t = "inbox" /\ i \in 1 .. Len(inbox[c]) /\ inbox[c][i].data = d
                 \/ /\ t = "mail" /\ c \in Client /\ i \in 1 .. Len(mail[c]) /\ mail[c][i].data = d
                 \/ t = "thread" /\ i = 0 /\ pc[c] \in {"forward", "upstream"} /\ frame[c].data = d
    <2>0. d # None /\ \A k \in Client : k \in Conn
      BY Zenon, Kinds, NetworkAssumption
    <2>1. \A p : p \in Places(d) <=> \E c \in Conn, t \in Kind : \E i : p = <<c, t, i>> /\ Spot(c, t, i)
      <3>1. \A c \in Conn : \A i : i \in Positions(inbox[c], d) <=> Spot(c, "inbox", i)
        <4>1. \A c \in Conn : DOMAIN inbox[c] = 1 .. Len(inbox[c])
          BY DEF IInv, TypeOK
        <4> QED BY Zenon, <4>1 DEF Positions
      <3>2. \A k \in Client : \A i : i \in Positions(mail[k], d) <=> Spot(k, "mail", i)
        <4>1. \A k \in Client : DOMAIN mail[k] = 1 .. Len(mail[k])
          BY DEF IInv, TypeOK
        <4> QED BY Zenon, <4>1 DEF Positions
      <3>3. \A c \in Conn : Spot(c, "thread", 0) <=> pc[c] \in {"forward", "upstream"} /\ frame[c].data = d
        BY Zenon
      <3>4. \A c, i : /\ Spot(c, "mail", i) => c \in Client
                      /\ Spot(c, "thread", i) => i = 0
        BY Zenon
      <3> HIDE DEF Spot
      <3>5. "inbox" \in Kind /\ "mail" \in Kind /\ "thread" \in Kind
             /\ \A t \in Kind : t = "inbox" \/ t = "mail" \/ t = "thread"
        BY Zenon DEF Kind
      <3> DEFINE In(c) == {<<c, "inbox", i>> : i \in Positions(inbox[c], d)}
                 Mailed(k) == {<<k, "mail", i>> : i \in Positions(mail[k], d)}
                 Held == {<<c, "thread", 0>> : c \in {x \in Conn : /\ pc[x] \in {"forward", "upstream"}
                                                                   /\ frame[x].data = d}}
      <3>6. \A p : p \in Places(d) <=> \/ \E c \in Conn : p \in In(c)
                                       \/ \E k \in Client : p \in Mailed(k)
                                       \/ p \in Held
        <4> DEFINE I == UNION {In(c) : c \in Conn}
                   M == UNION {Mailed(k) : k \in Client}
        <4>1. Places(d) = I \cup M \cup Held
          BY Zenon DEF Places
        <4> HIDE DEF In, Mailed, Held
        <4>2. \A p : p \in I <=> \E c \in Conn : p \in In(c)
          BY Zenon
        <4>3. \A p : p \in M <=> \E k \in Client : p \in Mailed(k)
          BY Zenon
        <4> HIDE DEF I, M
        <4> QED BY ONLY Zenon, <4>1, <4>2, <4>3
      <3>7. \A p : \A c \in Conn : p \in In(c) <=> \E i : p = <<c, "inbox", i>> /\ Spot(c, "inbox", i)
        BY Zenon, <3>1
      <3>8. \A p : \A k \in Client : p \in Mailed(k) <=> \E i : p = <<k, "mail", i>> /\ Spot(k, "mail", i)
        BY Zenon, <3>2
      <3>9. \A p : p \in Held <=> \E c \in Conn : p = <<c, "thread", 0>> /\ Spot(c, "thread", 0)
        BY Zenon, <3>3
      <3> HIDE DEF In, Mailed, Held
      <3>10. ASSUME NEW p, NEW c \in Conn, NEW t \in Kind, NEW i, p = <<c, t, i>>, Spot(c, t, i)
             PROVE p \in Places(d)
        <4>1. CASE t = "inbox"
          BY Zenon, <3>6, <3>7, <3>10, <4>1
        <4>2. CASE t = "mail"
          BY Zenon, <3>4, <3>6, <3>8, <3>10, <4>2
        <4>3. CASE t = "thread"
          BY Zenon, <3>4, <3>6, <3>9, <3>10, <4>3
        <4> QED BY Zenon, <3>5, <4>1, <4>2, <4>3
      <3>11. ASSUME NEW p, p \in Places(d)
             PROVE \E c \in Conn, t \in Kind : \E i : p = <<c, t, i>> /\ Spot(c, t, i)
        BY Zenon, <2>0, <3>5, <3>6, <3>7, <3>8, <3>9, <3>11
      <3> QED BY Zenon, <3>10, <3>11
    <2>2. ASSUME NEW c \in Conn, NEW t \in Kind, NEW i, Spot(c, t, i) PROVE d \in Content(t, c)
      BY Zenon, <2>0, <2>2 DEF Content, Within, Holds
    <2>3. ASSUME NEW c \in Conn, NEW t \in Kind, d \in Content(t, c) PROVE \E i : Spot(c, t, i)
      BY Zenon, <2>0, <2>3 DEF Content, Within, Holds, Kind
    <2>4. ASSUME NEW c \in Conn, NEW t \in Kind, NEW i, NEW j, Spot(c, t, i), Spot(c, t, j) PROVE i = j
      <3>1. CASE t = "inbox"
        BY Zenon, <2>0, <2>4, <3>1 DEF CopyInv, Singles, Single
      <3>2. CASE t = "mail"
        BY Zenon, <2>0, <2>4, <3>2 DEF CopyInv, Singles, Single
      <3>3. CASE t = "thread"
        BY Zenon, <2>4, <3>3
      <3> QED BY Zenon, <3>1, <3>2, <3>3 DEF Kind
    <2> HIDE DEF Spot
    <2>5. CASE fate[d] = "routing"
      <3>1. PICK c \in Conn, t \in Kind : d \in Content(t, c)
        BY Zenon, <2>5 DEF CopyInv, Located
      <3>2. PICK i : Spot(c, t, i)
        BY Zenon, <2>3, <3>1
      <3>3. \A p : p \in Places(d) <=> p = <<c, t, i>>
        <4>1. ASSUME NEW x \in Conn, NEW u \in Kind, NEW j, Spot(x, u, j) PROVE <<x, u, j>> = <<c, t, i>>
          <5>1. x = c /\ u = t
            BY <2>2, <3>1, <4>1 DEF CopyInv, Located
          <5> QED BY Zenon, <2>4, <3>2, <4>1, <5>1
        <4> QED BY Zenon, <2>1, <3>2, <4>1
      <3>4. Places(d) = {<<c, t, i>>}
        BY Zenon, <3>3
      <3>5. Cardinality({<<c, t, i>>}) = 1
        BY Zenon, FS_Singleton
      <3> QED BY Zenon, <2>5, <3>4, <3>5
    <2>6. CASE fate[d] # "routing"
      <3>1. \A c \in Conn, t \in Kind : d \notin Content(t, c)
        BY Zenon, <2>6 DEF CopyInv, Located
      <3>2. Places(d) = {}
        BY Zenon, <2>1, <2>2, <3>1
      <3> QED BY <2>6, <3>2, FS_EmptySet
    <2> QED BY Zenon, <2>5, <2>6
  <1> QED BY <1>1, CopyInductive, RouterInductive, PTL
=============================================================================
