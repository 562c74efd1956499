-------------------------- MODULE EvlRouterProofs ---------------------------
(***************************************************************************)
(* The ownership of XbufEntry objects in EvlRouter, for every number of    *)
(* connections, uplinks, xbufs, mailboxes and messages.  What the          *)
(* registry, a connection thread or a reader thread refers to has not been *)
(* destroyed, and a thread that destroys an entry is the only one that     *)
(* refers to it.  Then the announcements to the routers dialled at         *)
(* start-up.                                                               *)
(***************************************************************************)
EXTENDS EvlRouter, TLAPS

Labels == {"none", "run", "add", "start", "insert", "erase", "peers", "broadcast", "release", "join",
           "snapshot", "advertise", "forward", "write", "upstream", "stuck", "exit"}
ReaderLabels == {"free", "idle", "poll", "find", "forward", "drop", "join", "exit"}

OwnTypes ==
  /\ traffic \in Traffic /\ is_peer \subseteq Conn
  /\ table \in [Mailbox -> Conn \cup Xbuf \cup {None}]
  /\ pc \in [Peer -> Labels] /\ frame = [c \in Peer |-> frame[c]]
  /\ held \in [Peer -> Xbuf \cup {None}]
  /\ mbx \in [Xbuf -> Mailbox \cup {None}] /\ fd \subseteq Xbuf
  /\ rpc \in [Xbuf -> ReaderLabels] /\ rdest \in [Xbuf -> Conn \cup Xbuf \cup {None}]

\* A registered entry has its descriptor open and serves its mailbox
Registered == \A m \in Mailbox : table[m] \in Xbuf => table[m] \in fd /\ mbx[table[m]] = m

Alive == \A x \in fd : rpc[x] # "free"

\* The readers' messages
Outgoing ==
  /\ device \subseteq Evl /\ outbound \in [Evl -> Seq(Data)] /\ rmsg \in [Xbuf -> Data \cup {None}]
  /\ \A x \in Xbuf : /\ rpc[x] # "free" => mbx[x] \in Evl
                     /\ rpc[x] = "find" => rmsg[x] \in Data

\* What a connection thread holds exists, and is open unless the thread is the
\* one that destroys it; a thread that registers has an entry of its own
Keeping == {"add", "start", "insert", "peers", "broadcast", "release", "write", "join"}
Holding ==
  \A c \in Peer :
    /\ held[c] # None => /\ pc[c] \in Keeping /\ rpc[held[c]] # "free"
                         /\ pc[c] # "join" => held[c] \in fd
    /\ pc[c] \in {"start", "write", "join"} => held[c] # None
    /\ pc[c] = "add" => c \in Conn
    /\ pc[c] \in {"add", "write"} /\ held[c] # None => mbx[held[c]] = frame[c].mbx
    /\ pc[c] \in {"add", "start"} /\ held[c] # None =>
         /\ rpc[held[c]] = "idle"
         /\ \A b \in Peer \ {c} : pc[b] \in {"add", "start"} => held[b] # held[c]

\* The same for reader threads
Reading ==
  \A y \in Xbuf :
    /\ rdest[y] # None => rpc[y] \in {"forward", "drop", "join"}
    /\ rpc[y] = "forward" => rdest[y] \in Conn
    /\ rpc[y] \in {"drop", "join"} => rdest[y] \in Xbuf /\ rpc[rdest[y]] # "free"
    /\ rpc[y] = "drop" => rdest[y] \in fd

\* Nobody but t refers to x
Alone(x, t) ==
  /\ \A m \in Mailbox : table[m] # x
  /\ \A c \in Peer : held[c] = x => c = t
  /\ \A y \in Xbuf : rdest[y] = x => y = t
Joining ==
  /\ \A c \in Peer : pc[c] = "join" => Alone(held[c], c) /\ held[c] \notin fd
  /\ \A y \in Xbuf : rpc[y] = "join" => Alone(rdest[y], y) /\ rdest[y] \notin fd

\* Somebody refers to every entry that exists
Referred ==
  \A x \in Xbuf : rpc[x] # "free" =>
    \/ \E m \in Mailbox : table[m] = x
    \/ \E c \in Peer : held[c] = x
    \/ \E y \in Xbuf : rdest[y] = x

OwnInv ==
  /\ OwnTypes /\ Registered /\ Alive /\ Outgoing
  /\ Holding /\ Reading /\ Joining /\ Referred /\ NoDanglingRoute

ownVars == <<table, held, mbx, fd, rpc, rdest>>
readVars == <<traffic, device, outbound, rmsg>>

LEMMA OwnInit == Init => OwnInv
  <1> SUFFICES ASSUME Init PROVE OwnInv
    BY Zenon
  <1>1. /\ \A m \in Mailbox : table[m] = None
        /\ \A c \in Peer : held[c] = None /\ pc[c] \in {"run", "none"}
        /\ \A x \in Xbuf : rpc[x] = "free" /\ rdest[x] = None
        /\ fd = {}
    BY Zenon DEF Init
  <1>2. OwnTypes
    BY Zenon DEF Init, OwnTypes, Labels, ReaderLabels
  <1>6. Outgoing
    BY <1>1, EvlRouterAssumption DEF Init, Outgoing
  <1>3. None \notin Xbuf /\ None \notin Conn /\ Conn \subseteq Peer
    BY Zenon, EvlRouterAssumption DEF Peer
  <1>4. Registered /\ Alive /\ Holding /\ Reading
    BY Zenon, <1>1, <1>3 DEF Registered, Alive, Holding, Reading
  <1>5. Joining /\ Referred /\ NoDanglingRoute
    BY Zenon, <1>1, <1>3 DEF Joining, Referred, NoDanglingRoute
  <1> QED BY Zenon, <1>2, <1>4, <1>5, <1>6 DEF OwnInv

\* A step of the thread of c that changes no reference to an entry.
LEMMA OwnMove ==
  ASSUME OwnInv, UNCHANGED <<ownVars, readVars>>, is_peer' \subseteq Conn, NEW c \in Peer, NEW l \in Labels,
         pc' = [pc EXCEPT ![c] = l], pc[c] # "join", l \notin {"add", "start", "write", "join"},
         held[c] # None => l \in Keeping,
         l = "exit" => \A m \in Mailbox : table[m] # c,
         frame' = [b \in Peer |-> frame'[b]], \A b \in Peer \ {c} : frame'[b] = frame[b]
  PROVE OwnInv'
  <1>1. \A b \in Peer : pc'[b] = IF b = c THEN l ELSE pc[b]
    BY Zenon DEF OwnInv, OwnTypes
  <1>2. OwnTypes'
    BY Zenon DEF OwnInv, OwnTypes, ownVars, readVars
  <1>3. Registered' /\ Alive' /\ Outgoing' /\ Reading' /\ Referred'
    BY Zenon DEF OwnInv, Registered, Alive, Outgoing, Reading, Referred, ownVars, readVars
  <1>4. Holding'
    BY <1>1 DEF OwnInv, Holding, ownVars
  <1>5. Joining'
    BY <1>1 DEF OwnInv, Joining, Alone, ownVars
  <1>6. NoDanglingRoute'
    BY <1>1 DEF OwnInv, NoDanglingRoute, ownVars, Peer
  <1> QED BY Zenon, <1>2, <1>3, <1>4, <1>5, <1>6 DEF OwnInv

\* A step that concerns neither threads nor entries.
LEMMA OwnStill ==
  ASSUME OwnInv, UNCHANGED <<ownVars, traffic, rmsg, is_peer, pc, frame>>,
         device' \subseteq Evl, outbound' \in [Evl -> Seq(Data)]
  PROVE OwnInv'
  <1>1. OwnTypes' /\ Registered' /\ Alive' /\ Outgoing' /\ Reading' /\ Referred'
    BY Zenon DEF OwnInv, OwnTypes, Registered, Alive, Outgoing, Reading, Referred, ownVars
  <1>2. Holding'
    BY Zenon DEF OwnInv, Holding, ownVars
  <1>3. Joining' /\ NoDanglingRoute'
    BY Zenon DEF OwnInv, Joining, Alone, NoDanglingRoute, ownVars
  <1> QED BY Zenon, <1>1, <1>2, <1>3 DEF OwnInv

-----------------------------------------------------------------------------
(* Steps that move no reference.                                           *)

LEMMA OwnQuietConn ==
  ASSUME OwnInv, NEW c \in Conn, ConnectPeer(c) \/ Accept(c) \/ List(c)
  PROVE OwnInv'
  <1>1. c \in Peer
    BY Zenon DEF Peer
  <1>2. pc[c] = "none" => held[c] = None
    BY Zenon, <1>1 DEF OwnInv, Holding, Keeping
  <1>3. CASE ConnectPeer(c)
    <2>1. /\ UNCHANGED <<ownVars, readVars, frame>> /\ pc' = [pc EXCEPT ![c] = "snapshot"]
          /\ is_peer' \subseteq Conn /\ pc[c] = "none" /\ frame = [b \in Peer |-> frame[b]]
      BY Zenon, <1>3 DEF ConnectPeer, Goto, Started, ownVars, readVars, regVars, xbufVars, readerVars,
         deviceVars, OwnInv, OwnTypes
    <2> QED BY Zenon, <1>1, <1>2, <2>1, OwnMove DEF Labels
  <1>4. CASE Accept(c)
    <2>1. /\ UNCHANGED <<ownVars, readVars, frame>> /\ pc' = [pc EXCEPT ![c] = "run"]
          /\ is_peer' \subseteq Conn /\ pc[c] = "none" /\ frame = [b \in Peer |-> frame[b]]
      BY Zenon, <1>4 DEF Accept, Goto, Started, ownVars, readVars, regVars, xbufVars, readerVars,
         deviceVars, peerVars, OwnInv, OwnTypes
    <2> QED BY Zenon, <1>1, <1>2, <2>1, OwnMove DEF Labels
  <1>5. CASE List(c)
    BY Zenon, <1>5, OwnStill DEF List, ownVars, regVars, xbufVars, readerVars, deviceVars, threadVars,
       OwnInv, Outgoing
  <1> QED BY Zenon, <1>3, <1>4, <1>5

LEMMA OwnQuietEvl ==
  ASSUME OwnInv
  PROVE /\ \A c \in Peer : Close(c) => OwnInv'
        /\ \A m \in Evl : Evl_process(m) => OwnInv'
        /\ \A d \in Data : EvlSend(d) => OwnInv'
  <1>0. device \subseteq Evl /\ outbound \in [Evl -> Seq(Data)]
    BY Zenon DEF OwnInv, Outgoing
  <1>1. ASSUME NEW c \in Peer, Close(c) PROVE OwnInv'
    BY Zenon, <1>0, <1>1, OwnStill DEF Close, ownVars, regVars, peerVars, xbufVars, readerVars, deviceVars, threadVars
  <1>2. ASSUME NEW m \in Evl, Evl_process(m) PROVE OwnInv'
    BY Zenon, <1>0, <1>2, OwnStill DEF Evl_process, EvlReceive, EvlExit, ownVars, regVars, peerVars, xbufVars,
       readerVars, threadVars
  <1>3. ASSUME NEW d \in Data, EvlSend(d) PROVE OwnInv'
    <2>1. outbound' \in [Evl -> Seq(Data)] /\ device' \subseteq Evl
      BY <1>0, <1>3 DEF EvlSend
    <2> QED BY Zenon, <1>3, <2>1, OwnStill DEF EvlSend, ownVars, regVars, peerVars, xbufVars, readerVars, threadVars
  <1> QED BY Zenon, <1>1, <1>2, <1>3

LEMMA OwnQuietThread ==
  ASSUME OwnInv, NEW c \in Peer,
         \/ UpdateLocal(c) \/ PeersSnapshot(c) \/ Broadcast(c) \/ local_mailboxes_snapshot(c)
         \/ Advertise(c) \/ Forward(c) \/ WriteBody(c) \/ ForwardUpstream(c) \/ RecvHello(c)
         \/ \E d \in Data : Oversized(c, d)
  PROVE OwnInv'
  <1> USE DEF ownVars, readVars, regVars, peerVars, xbufVars, readerVars, deviceVars
  <1>1. frame = [b \in Peer |-> frame[b]] /\ is_peer \subseteq Conn
    BY Zenon DEF OwnInv, OwnTypes
  <1>2. \A f : LET g == [frame EXCEPT ![c] = f]
               IN  g = [b \in Peer |-> g[b]] /\ \A b \in Peer \ {c} : g[b] = frame[b]
    BY Zenon, <1>1
  <1>3. held[c] # None => pc[c] \in Keeping
    BY Zenon DEF OwnInv, Holding
  <1>4. CASE UpdateLocal(c)
    BY Zenon, <1>1, <1>4, OwnMove DEF UpdateLocal, Goto, Labels, Keeping
  <1>5. CASE PeersSnapshot(c)
    BY Zenon, <1>1, <1>2, <1>5, OwnMove DEF PeersSnapshot, Work, Goto, Labels, Keeping
  <1>6. CASE Broadcast(c)
    <2>1. PICK l \in {"release", "broadcast"} : pc' = [pc EXCEPT ![c] = l]
      BY Zenon, <1>6 DEF Broadcast, Work, Goto
    <2>2. pc[c] = "broadcast" /\ frame' = [frame EXCEPT ![c] = frame[c]] /\ UNCHANGED <<ownVars, readVars, is_peer>>
      BY Zenon, <1>6 DEF Broadcast, Work
    <2> QED BY Zenon, <1>1, <1>2, <2>1, <2>2, OwnMove DEF Labels, Keeping
  <1>7. CASE local_mailboxes_snapshot(c)
    BY Zenon, <1>1, <1>2, <1>3, <1>7, OwnMove DEF local_mailboxes_snapshot, Work, Goto, Labels, Keeping
  <1>8. CASE Advertise(c)
    <2>1. PICK l \in {"run", "advertise"} : pc' = [pc EXCEPT ![c] = l]
      BY Zenon, <1>8 DEF Advertise, Work, Goto
    <2>2. pc[c] = "advertise" /\ frame' = [frame EXCEPT ![c] = Idle] /\ UNCHANGED <<ownVars, readVars, is_peer>>
      BY Zenon, <1>8 DEF Advertise, Work
    <2> QED BY Zenon, <1>1, <1>2, <1>3, <2>1, <2>2, OwnMove DEF Labels, Keeping
  <1>9. CASE Forward(c) \/ ForwardUpstream(c)
    <2>1. /\ pc[c] \in {"forward", "upstream"} /\ pc' = [pc EXCEPT ![c] = "run"]
          /\ frame' = [frame EXCEPT ![c] = Idle] /\ UNCHANGED <<ownVars, readVars, is_peer>>
      BY Zenon, <1>9 DEF Forward, ForwardUpstream, Done, Work, Goto
    <2> QED BY Zenon, <1>1, <1>2, <1>3, <2>1, OwnMove DEF Labels, Keeping
  <1>10. CASE WriteBody(c)
    <2>1. /\ pc[c] = "write" /\ pc' = [pc EXCEPT ![c] = "release"]
          /\ UNCHANGED <<ownVars, readVars, is_peer, frame>>
      BY Zenon, <1>10 DEF WriteBody, Goto
    <2> QED BY Zenon, <1>1, <2>1, OwnMove DEF Labels, Keeping
  <1>11. CASE RecvHello(c)
    <2>1. is_peer' \subseteq Conn
      BY Zenon, <1>1, <1>11, EvlRouterAssumption DEF RecvHello
    <2> QED BY Zenon, <1>1, <1>3, <1>11, <2>1, OwnMove DEF RecvHello, Goto, Labels, Keeping
  <1>12. CASE \E d \in Data : Oversized(c, d)
    <2>1. /\ pc[c] = "run" /\ pc' = [pc EXCEPT ![c] = IF c \in Uplink THEN "exit" ELSE "stuck"]
          /\ UNCHANGED <<ownVars, readVars, is_peer, frame>>
      BY Zenon, <1>12 DEF Oversized, Goto
    <2>2. c \in Uplink => \A m \in Mailbox : table[m] # c
      BY EvlRouterAssumption DEF OwnInv, OwnTypes, Peer
    <2> QED BY Zenon, <1>1, <1>3, <2>1, <2>2, OwnMove DEF Labels, Keeping
  <1> QED BY Zenon, <1>4, <1>5, <1>6, <1>7, <1>8, <1>9, <1>10, <1>11, <1>12

-----------------------------------------------------------------------------
(* Reader threads.                                                         *)

\* A reader moves between labels and changes no reference
LEMMA OwnReaderMove ==
  ASSUME OwnInv, NEW x \in Xbuf, ReaderRead(x) \/ ReaderExit(x)
  PROVE OwnInv'
  <1> USE DEF regVars, peerVars, xbufVars, readerVars, deviceVars, threadVars
  <1>1. /\ UNCHANGED <<table, held, mbx, fd, rdest, pc, frame, is_peer, traffic, device>>
        /\ rpc[x] = "poll" /\ \E l \in {"find", "exit"} : rpc' = [rpc EXCEPT ![x] = l]
    BY Zenon DEF ReaderRead, ReaderExit
  <1>2. PICK l \in {"find", "exit"} : rpc' = [rpc EXCEPT ![x] = l]
    BY Zenon, <1>1
  <1>3. \A y \in Xbuf : rpc'[y] = IF y = x THEN l ELSE rpc[y]
    BY Zenon, <1>2 DEF OwnInv, OwnTypes
  <1>4. OwnTypes'
    BY Zenon, <1>1, <1>2 DEF OwnInv, OwnTypes, ReaderLabels
  <1>5. Registered' /\ NoDanglingRoute'
    BY Zenon, <1>1 DEF OwnInv, Registered, NoDanglingRoute
  <1>6. Alive'
    BY Zenon, <1>1, <1>3 DEF OwnInv, Alive, OwnTypes
  <1>7. Referred'
    BY Zenon, <1>1, <1>3 DEF OwnInv, Referred
  <1>8. Reading'
    BY Zenon, <1>1, <1>3 DEF OwnInv, Reading
  <1>9. Joining'
    BY Zenon, <1>1, <1>3 DEF OwnInv, Joining, Alone
  <1>10. Holding'
    <2>1. \A c \in Peer : held[c] # None => held[c] \in Xbuf
      BY Zenon DEF OwnInv, OwnTypes
    <2> QED BY Zenon, <1>1, <1>3, <2>1 DEF OwnInv, Holding
  <1>11. Outgoing'
    <2>1. /\ mbx[x] \in Evl /\ outbound \in [Evl -> Seq(Data)] /\ rmsg \in [Xbuf -> Data \cup {None}]
      BY Zenon, <1>1 DEF OwnInv, Outgoing
    <2>2. CASE ReaderRead(x)
      <3>1. outbound[mbx[x]] \in Seq(Data) /\ outbound[mbx[x]] # <<>>
        BY Zenon, <2>1, <2>2 DEF ReaderRead
      <3>2. Head(outbound[mbx[x]]) \in Data /\ Tail(outbound[mbx[x]]) \in Seq(Data)
        BY <3>1
      <3>3. outbound' \in [Evl -> Seq(Data)] /\ rmsg' = [rmsg EXCEPT ![x] = Head(outbound[mbx[x]])]
        BY Zenon, <2>1, <2>2, <3>2 DEF ReaderRead
      <3>4. rmsg' \in [Xbuf -> Data \cup {None}] /\ rmsg'[x] \in Data /\ \A y \in Xbuf \ {x} : rmsg'[y] = rmsg[y]
        BY Zenon, <2>1, <3>2, <3>3
      <3> HIDE DEF regVars, peerVars, xbufVars, readerVars, deviceVars, threadVars
      <3> QED BY Zenon, <1>1, <1>3, <3>3, <3>4 DEF OwnInv, Outgoing
    <2>3. CASE ReaderExit(x)
      <3>1. UNCHANGED <<outbound, rmsg>> /\ rpc' = [rpc EXCEPT ![x] = "exit"]
        BY Zenon, <2>3 DEF ReaderExit
      <3>2. \A y \in Xbuf : rpc'[y] = IF y = x THEN "exit" ELSE rpc[y]
        BY Zenon, <3>1 DEF OwnInv, OwnTypes
      <3> QED BY <1>1, <3>1, <3>2 DEF OwnInv, Outgoing
    <2> QED BY Zenon, <2>2, <2>3
  <1> QED BY Zenon, <1>4, <1>5, <1>6, <1>7, <1>8, <1>9, <1>10, <1>11 DEF OwnInv

\* What registry_.find() may return
LEMMA FindTypes ==
  ASSUME OwnInv
  PROVE /\ \A m \in Mailbox : /\ table[m] \in Conn \cup Xbuf \cup {None}
                              /\ table[m] \in Xbuf => table[m] \in fd
        /\ None \notin Peer \cup Xbuf /\ Xbuf \cap Peer = {} /\ Conn \subseteq Peer
  BY Zenon, EvlRouterAssumption DEF OwnInv, OwnTypes, Registered, Peer

LEMMA OwnReaderFind ==
  ASSUME OwnInv, NEW x \in Xbuf, ReaderFind(x) \/ ReaderForward(x) \/ (ReaderDrop(x) /\ Shared(rdest[x], x))
  PROVE OwnInv'
  <1> USE DEF regVars, peerVars, xbufVars, deviceVars, threadVars
  <1>1. PICK l \in ReaderLabels, r \in Conn \cup Xbuf \cup {None} :
           /\ rpc' = [rpc EXCEPT ![x] = l] /\ rdest' = [rdest EXCEPT ![x] = r]
           /\ \/ l = "forward" /\ r \in Conn
              \/ l = "poll" /\ r = None
              \/ l = "drop" /\ r \in Xbuf /\ r \in fd /\ \E m \in Mailbox : table[m] = r
    <2>1. CASE ReaderFind(x)
      <3> DEFINE m == Dest[rmsg[x]]
      <3>1. m \in Mailbox
        BY Zenon, <2>1, EvlRouterAssumption DEF ReaderFind, OwnInv, Outgoing
      <3>2. table[m] \in Conn \cup Xbuf \cup {None} /\ (table[m] \in Xbuf => table[m] \in fd) /\ Conn \cap Xbuf = {}
        BY Zenon, <3>1, FindTypes
      <3>3. rdest' = [rdest EXCEPT ![x] = table[m]]
        BY Zenon, <2>1 DEF ReaderFind
      <3>4. rpc' = [rpc EXCEPT ![x] = IF table[m] \in Conn THEN "forward" ELSE IF table[m] = None THEN "poll" ELSE "drop"]
        BY Zenon, <2>1 DEF ReaderFind
      <3> HIDE DEF m
      <3> QED BY Zenon, <3>1, <3>2, <3>3, <3>4 DEF ReaderLabels
    <2>2. CASE ReaderForward(x) \/ (ReaderDrop(x) /\ Shared(rdest[x], x))
      BY Zenon, <2>2 DEF ReaderForward, ReaderDrop, ReaderLabels
    <2> QED BY Zenon, <2>1, <2>2
  <1>2. /\ UNCHANGED <<table, held, mbx, fd, pc, frame, is_peer, traffic, device, outbound>>
        /\ rpc[x] \in {"find", "forward", "drop"}
    BY Zenon DEF ReaderFind, ReaderForward, ReaderDrop
  <1>3. rmsg' \in [Xbuf -> Data \cup {None}] /\ \A y \in Xbuf \ {x} : rmsg'[y] = rmsg[y]
    BY Zenon DEF ReaderFind, ReaderForward, ReaderDrop, OwnInv, Outgoing
  <1>4. \A y \in Xbuf : /\ rpc'[y] = IF y = x THEN l ELSE rpc[y]
                        /\ rdest'[y] = IF y = x THEN r ELSE rdest[y]
    BY Zenon, <1>1 DEF OwnInv, OwnTypes
  <1>0. None \notin Peer \cup Xbuf /\ Xbuf \cap Peer = {} /\ Conn \subseteq Peer
    BY Zenon, EvlRouterAssumption DEF Peer
  <1>5. OwnTypes'
    BY Zenon, <1>1, <1>2 DEF OwnInv, OwnTypes
  <1>6. Registered' /\ NoDanglingRoute'
    BY Zenon, <1>2 DEF OwnInv, Registered, NoDanglingRoute
  <1>7. l # "free" /\ l # "idle" /\ l # "join" /\ l # "find"
    BY Zenon, <1>1
  <1>8. Alive'
    BY Zenon, <1>2, <1>4, <1>7 DEF OwnInv, Alive, OwnTypes
  <1>9. Outgoing'
    BY Zenon, <1>2, <1>3, <1>4, <1>7 DEF OwnInv, Outgoing
  <1>10. Holding'
    <2>1. \A c \in Peer : held[c] # None => held[c] \in Xbuf
      BY Zenon DEF OwnInv, OwnTypes
    <2> QED BY Zenon, <1>2, <1>4, <1>7, <2>1 DEF OwnInv, Holding
  <1>11. Reading'
    BY SMTT(30), <1>0, <1>1, <1>2, <1>4, <1>7 DEF OwnInv, Reading, Alive
  <1>12. Joining'
    <2>1. \A m \in Mailbox, b \in Peer : pc[b] = "join" => table[m] # held[b]
      BY Zenon DEF OwnInv, Joining, Alone
    <2>2. \A m \in Mailbox, y \in Xbuf : rpc[y] = "join" => table[m] # rdest[y]
      BY Zenon DEF OwnInv, Joining, Alone
    <2>3. \A b \in Peer : pc[b] = "join" => held[b] \in Xbuf /\ held[b] # r
      BY <1>0, <1>1, <2>1 DEF OwnInv, Holding, OwnTypes
    <2>4. \A y \in Xbuf : rpc[y] = "join" => rdest[y] \in Xbuf /\ rdest[y] # r
      BY <1>0, <1>1, <2>2 DEF OwnInv, Reading, OwnTypes
    <2> QED BY <1>2, <1>4, <1>7, <2>3, <2>4 DEF OwnInv, Joining, Alone
  <1>13. Referred'
    <2>1. SUFFICES ASSUME NEW z \in Xbuf, rpc[z] # "free", rdest[x] = z
                   PROVE \/ \E m \in Mailbox : table[m] = z
                         \/ \E c \in Peer : held[c] = z
                         \/ \E y \in Xbuf : rdest'[y] = z
      BY Zenon, <1>2, <1>4, <1>7 DEF OwnInv, Referred
    <2>2. CASE ReaderFind(x)
      BY Zenon, <2>1, <2>2, <1>0 DEF ReaderFind, OwnInv, Reading
    <2>3. CASE ReaderForward(x)
      BY Zenon, <2>1, <2>3, <1>0 DEF ReaderForward, OwnInv, Reading
    <2>4. CASE Shared(rdest[x], x)
      BY SMTT(30), <1>0, <1>4, <2>1, <2>4 DEF Shared, Holders
    <2> QED BY Zenon, <2>2, <2>3, <2>4
  <1> QED BY Zenon, <1>5, <1>6, <1>8, <1>9, <1>10, <1>11, <1>12, <1>13 DEF OwnInv

\* The last reference goes with a reader's: the descriptor is closed
LEMMA OwnReaderDestroy ==
  ASSUME OwnInv, NEW x \in Xbuf, ReaderDrop(x), ~Shared(rdest[x], x)
  PROVE OwnInv'
  <1> USE DEF regVars, peerVars, xbufVars, deviceVars, threadVars
  <1>0. None \notin Peer \cup Xbuf /\ Xbuf \cap Peer = {}
    BY Zenon, EvlRouterAssumption
  <1>1. /\ UNCHANGED <<table, held, mbx, rdest, rmsg, pc, frame, is_peer, traffic, device, outbound>>
        /\ rpc[x] = "drop" /\ rpc' = [rpc EXCEPT ![x] = "join"] /\ fd' = fd \ {rdest[x]}
    BY Zenon DEF ReaderDrop
  <1>2. Alone(rdest[x], x)
    BY Zenon, <1>0 DEF Shared, Holders, Alone
  <1>3. \A y \in Xbuf : rpc'[y] = IF y = x THEN "join" ELSE rpc[y]
    BY Zenon, <1>1 DEF OwnInv, OwnTypes
  <1>4. rdest[x] \in Xbuf /\ rpc[rdest[x]] # "free"
    BY Zenon, <1>1 DEF OwnInv, Reading
  <1>5. OwnTypes'
    BY Zenon, <1>1 DEF OwnInv, OwnTypes, ReaderLabels
  <1>6. Registered' /\ NoDanglingRoute'
    BY Zenon, <1>1, <1>2 DEF OwnInv, Registered, NoDanglingRoute, Alone
  <1>7. Alive'
    BY Zenon, <1>1, <1>3 DEF OwnInv, Alive, OwnTypes
  <1>8. Outgoing'
    BY <1>1, <1>3 DEF OwnInv, Outgoing
  <1>9. Holding'
    <2>1. \A c \in Peer : held[c] # None => held[c] \in Xbuf /\ held[c] # rdest[x]
      BY Zenon, <1>0, <1>2 DEF OwnInv, OwnTypes, Alone
    <2> QED BY <1>1, <1>3, <2>1 DEF OwnInv, Holding
  <1>10. Reading'
    <2>1. \A y \in Xbuf : rdest[y] = rdest[x] => y = x
      BY Zenon, <1>2 DEF Alone
    <2> QED BY <1>1, <1>3, <1>4, <2>1 DEF OwnInv, Reading
  <1>11. Joining'
    <2>1. /\ \A c \in Peer : pc[c] = "join" => Alone(held[c], c)' /\ held[c] \notin fd'
          /\ \A y \in Xbuf \ {x} : rpc[y] = "join" => Alone(rdest[y], y)' /\ rdest[y] \notin fd'
          /\ Alone(rdest[x], x)' /\ rdest[x] \notin fd'
      BY Zenon, <1>1, <1>2 DEF OwnInv, Joining, Alone
    <2> QED BY SMTT(30), <1>1, <1>3, <2>1 DEF Joining, Alone
  <1>12. Referred'
    BY Zenon, <1>1, <1>3 DEF OwnInv, Referred
  <1> QED BY Zenon, <1>5, <1>6, <1>7, <1>8, <1>9, <1>10, <1>11, <1>12 DEF OwnInv

\* The destroyed entry's reader has ended, and the object goes
LEMMA OwnReaderJoin ==
  ASSUME OwnInv, NEW x \in Xbuf, ReaderJoin(x)
  PROVE OwnInv'
  <1> USE DEF regVars, peerVars, xbufVars, deviceVars, threadVars
  <1>0. None \notin Peer \cup Xbuf /\ Xbuf \cap Peer = {}
    BY Zenon, EvlRouterAssumption
  <1>1. PICK z \in Xbuf : z = rdest[x]
    BY Zenon DEF OwnInv, Reading, ReaderJoin
  <1>2. /\ UNCHANGED <<table, held, fd, rmsg, pc, frame, is_peer, traffic, device, outbound>>
        /\ rpc[x] = "join" /\ rpc[z] = "exit"
        /\ rpc' = [rpc EXCEPT ![z] = "free", ![x] = "poll"]
        /\ mbx' = [mbx EXCEPT ![z] = None] /\ rdest' = [rdest EXCEPT ![x] = None]
    BY Zenon, <1>1 DEF ReaderJoin
  <1>14. /\ UNCHANGED <<table, held, fd, rmsg, pc, frame, is_peer, traffic, device, outbound>>
         /\ rpc[x] = "join" /\ rpc[z] = "exit"
    BY Zenon, <1>2
  <1>3. Alone(z, x) /\ z \notin fd
    BY Zenon, <1>1, <1>14 DEF OwnInv, Joining, Alone
  <1>4. z # x
    BY Zenon, <1>2
  <1>5. \A y \in Xbuf : /\ rpc'[y] = IF y = z THEN "free" ELSE IF y = x THEN "poll" ELSE rpc[y]
                        /\ mbx'[y] = IF y = z THEN None ELSE mbx[y]
                        /\ rdest'[y] = IF y = x THEN None ELSE rdest[y]
    BY <1>2, <1>4 DEF OwnInv, OwnTypes
  <1>6. OwnTypes'
    <2>1. rpc' \in [Xbuf -> ReaderLabels] /\ mbx' \in [Xbuf -> Mailbox \cup {None}]
          /\ rdest' \in [Xbuf -> Conn \cup Xbuf \cup {None}]
      BY Zenon, <1>2 DEF OwnInv, OwnTypes, ReaderLabels
    <2> QED BY Zenon, <1>2, <2>1 DEF OwnInv, OwnTypes
  <1>7. Registered' /\ NoDanglingRoute'
    BY Zenon, <1>14, <1>3, <1>5 DEF OwnInv, Registered, NoDanglingRoute, OwnTypes
  <1>8. Alive'
    BY Zenon, <1>14, <1>3, <1>5 DEF OwnInv, Alive, OwnTypes
  <1>9. Outgoing'
    BY Zenon, <1>14, <1>5 DEF OwnInv, Outgoing
  <1>10. Holding'
    <2>1. \A c \in Peer : held[c] # None => held[c] \in Xbuf /\ held[c] # z
      BY Zenon, <1>0, <1>3 DEF OwnInv, OwnTypes, Alone
    <2>2. \A c \in Peer : held[c] # None /\ held[c] = x => ~(pc[c] \in {"add", "start"})
      BY Zenon, <1>14 DEF OwnInv, Holding
    <2> QED BY <1>14, <1>5, <2>1, <2>2 DEF OwnInv, Holding
  <1>11. Reading'
    <2>1. rdest[z] = None
      BY Zenon, <1>14 DEF OwnInv, Reading
    <2>2. \A y \in Xbuf \ {x} : rdest[y] # z
      BY Zenon, <1>3 DEF Alone
    <2> QED BY SMTT(30), <1>0, <1>14, <1>5, <2>1, <2>2 DEF OwnInv, Reading
  <1>12. Joining'
    <2>1. \A c \in Peer : pc[c] = "join" => held[c] # None
      BY Zenon DEF OwnInv, Holding
    <2>2. \A y \in Xbuf : rpc[y] = "join" => rdest[y] # None
      BY Zenon, <1>0 DEF OwnInv, Reading
    <2> QED BY <1>14, <1>5, <2>1, <2>2 DEF OwnInv, Joining, Alone
  <1>13. Referred'
    <2>1. \A y \in Xbuf \ {z} : rdest[x] # y
      BY Zenon, <1>1
    <2> QED BY <1>14, <1>5, <2>1 DEF OwnInv, Referred
  <1> QED BY Zenon, <1>6, <1>7, <1>8, <1>9, <1>10, <1>11, <1>12, <1>13 DEF OwnInv

-----------------------------------------------------------------------------
(* Registration.                                                           *)

LEMMA OwnInitPlain ==
  ASSUME OwnInv, NEW c \in Peer, NEW m \in Mailbox, RecvInit(c, m), m \notin device
  PROVE OwnInv'
  <1> USE DEF regVars, peerVars, xbufVars, deviceVars
  <1>1. /\ UNCHANGED <<table, held, mbx, fd, rpc, rdest, rmsg, is_peer, traffic, device, outbound>>
        /\ pc[c] = "run" /\ pc' = [pc EXCEPT ![c] = "add"] /\ frame' = [frame EXCEPT ![c] = Frame("init", m, None)]
        /\ <<c, m>> \in traffic.regs
    BY Zenon DEF RecvInit, Work, Goto
  <1>2. c \in Conn
    BY <1>1, EvlRouterAssumption DEF OwnInv, OwnTypes
  <1>3. held[c] = None
    BY Zenon, <1>1 DEF OwnInv, Holding, Keeping
  <1>4. \A b \in Peer : pc'[b] = IF b = c THEN "add" ELSE pc[b]
    BY Zenon, <1>1 DEF OwnInv, OwnTypes
  <1>5. \A b \in Peer \ {c} : frame'[b] = frame[b]
    BY Zenon, <1>1 DEF OwnInv, OwnTypes
  <1>6. OwnTypes'
    BY Zenon, <1>1 DEF OwnInv, OwnTypes, Labels
  <1>7. Registered' /\ Alive' /\ Outgoing' /\ Reading' /\ Referred'
    BY Zenon, <1>1 DEF OwnInv, Registered, Alive, Outgoing, Reading, Referred
  <1>8. UNCHANGED <<held, mbx, fd, rpc>>
    BY Zenon, <1>1
  <1>9. Holding'
    BY Zenon, <1>2, <1>3, <1>4, <1>5, <1>8 DEF OwnInv, Holding
  <1>10. Joining' /\ NoDanglingRoute'
    BY SMTT(30), <1>1, <1>4 DEF OwnInv, Joining, Alone, NoDanglingRoute, Peer
  <1> QED BY Zenon, <1>6, <1>7, <1>9, <1>10 DEF OwnInv

\* The new XbufEntry is nobody else's
LEMMA OwnInitXbuf ==
  ASSUME OwnInv, NEW c \in Peer, NEW m \in Mailbox, RecvInit(c, m), m \in device
  PROVE OwnInv'
  <1> USE DEF regVars, peerVars, xbufVars, deviceVars
  <1>0. None \notin Peer \cup Xbuf /\ Xbuf \cap Peer = {} /\ Conn \subseteq Peer
    BY Zenon, EvlRouterAssumption DEF Peer
  <1>1. PICK x \in Xbuf :
          /\ rpc[x] = "free" /\ held' = [held EXCEPT ![c] = x] /\ mbx' = [mbx EXCEPT ![x] = m]
          /\ fd' = fd \cup {x} /\ rpc' = [rpc EXCEPT ![x] = "idle"]
    BY Zenon DEF RecvInit
  <1>2. /\ pc[c] = "run" /\ pc' = [pc EXCEPT ![c] = "add"] /\ frame' = [frame EXCEPT ![c] = Frame("init", m, None)]
        /\ <<c, m>> \in traffic.regs
    BY Zenon DEF RecvInit, Work, Goto
  <1>3. UNCHANGED <<table, rdest, rmsg, is_peer, traffic, device, outbound>>
    BY Zenon DEF RecvInit
  <1>4. c \in Conn /\ m \in Evl
    BY <1>2, EvlRouterAssumption DEF OwnInv, OwnTypes, Outgoing
  <1>5. \A b \in Peer : /\ pc'[b] = IF b = c THEN "add" ELSE pc[b]
                        /\ held'[b] = IF b = c THEN x ELSE held[b]
    BY Zenon, <1>1, <1>2 DEF OwnInv, OwnTypes
  <1>6. \A b \in Peer \ {c} : frame'[b] = frame[b]
    BY Zenon, <1>2 DEF OwnInv, OwnTypes
  <1>7. frame'[c].mbx = m
    BY Zenon, <1>2 DEF OwnInv, OwnTypes, Frame
  <1>8. \A y \in Xbuf : /\ rpc'[y] = IF y = x THEN "idle" ELSE rpc[y]
                        /\ mbx'[y] = IF y = x THEN m ELSE mbx[y]
    BY Zenon, <1>1 DEF OwnInv, OwnTypes
  <1>9. x \notin fd /\ rdest[x] = None
    BY Zenon, <1>1 DEF OwnInv, Alive, Reading
  <1>10. \A n \in Mailbox : table[n] # x
    BY Zenon, <1>9 DEF OwnInv, Registered
  <1>11. \A b \in Peer : held[b] # x
    BY Zenon, <1>0, <1>1 DEF OwnInv, Holding
  <1>12. \A y \in Xbuf : rpc[y] \in {"drop", "join"} => rdest[y] # x
    BY Zenon, <1>1 DEF OwnInv, Reading
  <1>13. held[c] = None
    BY Zenon, <1>2 DEF OwnInv, Holding, Keeping
  <1>14. fd' = fd \cup {x}
    BY Zenon, <1>1
  <1>15. OwnTypes'
    BY Zenon, <1>1, <1>2, <1>3 DEF OwnInv, OwnTypes, Labels, ReaderLabels
  <1>16. Registered' /\ NoDanglingRoute'
    BY Zenon, <1>0, <1>3, <1>5, <1>8, <1>10, <1>14 DEF OwnInv, Registered, NoDanglingRoute
  <1>17. Alive' /\ Outgoing'
    BY Zenon, <1>3, <1>4, <1>8, <1>14 DEF OwnInv, Alive, Outgoing, OwnTypes
  <1>18. Holding'
    <2>1. \A b \in Peer : held[b] # None => held[b] \in Xbuf
      BY Zenon DEF OwnInv, OwnTypes
    <2>2. ASSUME NEW b \in Peer, b # c
          PROVE  /\ held'[b] # None => /\ pc'[b] \in Keeping /\ rpc'[held'[b]] # "free"
                                       /\ pc'[b] # "join" => held'[b] \in fd'
                 /\ pc'[b] \in {"start", "write", "join"} => held'[b] # None
                 /\ pc'[b] = "add" => b \in Conn
                 /\ pc'[b] \in {"add", "write"} /\ held'[b] # None => mbx'[held'[b]] = frame'[b].mbx
      BY SMTT(30), <1>5, <1>6, <1>8, <1>11, <1>14, <2>1, <2>2 DEF OwnInv, Holding
    <2>3. ASSUME NEW b \in Peer, b # c
          PROVE  pc'[b] \in {"add", "start"} /\ held'[b] # None =>
                   /\ rpc'[held'[b]] = "idle"
                   /\ \A a \in Peer \ {b} : pc'[a] \in {"add", "start"} => held'[a] # held'[b]
      BY SMTT(30), <1>5, <1>8, <1>11, <2>1, <2>3 DEF OwnInv, Holding
    <2>4. /\ pc'[c] = "add" /\ held'[c] = x /\ rpc'[x] = "idle" /\ mbx'[x] = m /\ x \in fd'
          /\ \A a \in Peer \ {c} : held'[a] # x
      BY Zenon, <1>5, <1>8, <1>11, <1>14
    <2>5. "add" \in Keeping
      BY Zenon DEF Keeping
    <2> QED BY Zenon, <1>4, <1>7, <2>2, <2>3, <2>4, <2>5 DEF Holding
  <1>19. Reading'
    BY Zenon, <1>0, <1>3, <1>8, <1>9, <1>12, <1>14 DEF OwnInv, Reading
  <1>20. Joining'
    BY SMTT(30), <1>3, <1>5, <1>8, <1>11, <1>12, <1>14 DEF OwnInv, Joining, Alone
  <1>21. Referred'
    BY SMTT(30), <1>0, <1>3, <1>5, <1>8, <1>13 DEF OwnInv, Referred
  <1> QED BY Zenon, <1>15, <1>16, <1>17, <1>18, <1>19, <1>20, <1>21 DEF OwnInv

\* emplace() gives the registry a reference next to the thread's
LEMMA OwnAdd ==
  ASSUME OwnInv, NEW c \in Peer, Add(c)
  PROVE OwnInv'
  <1> USE DEF regVars, peerVars, xbufVars, readerVars, deviceVars
  <1> DEFINE r == IF held[c] = None THEN c ELSE held[c]
  <1>0. None \notin Peer \cup Xbuf /\ Xbuf \cap Peer = {} /\ Conn \subseteq Peer
    BY Zenon, EvlRouterAssumption DEF Peer
  <1>1. /\ UNCHANGED <<held, mbx, fd, rpc, rdest, rmsg, frame, is_peer, traffic, device, outbound>>
        /\ pc[c] = "add"
    BY Zenon DEF Add
  <1>2. PICK l \in {"release", "insert", "start"} :
          pc' = [pc EXCEPT ![c] = l] /\ (l = "start" => held[c] # None)
    BY Zenon DEF Add, Goto
  <1>3. \/ table' = table
        \/ /\ frame[c].mbx \in Mailbox /\ table' = [table EXCEPT ![frame[c].mbx] = r]
           /\ table[frame[c].mbx] = None
    BY Zenon DEF Add, OwnInv, OwnTypes
  <1>4. \A n \in Mailbox : \/ table'[n] = table[n]
                           \/ n = frame[c].mbx /\ table'[n] = r /\ table[n] = None
    BY Zenon, <1>3 DEF OwnInv, OwnTypes
  <1>5. /\ c \in Conn /\ r \in Conn \cup Xbuf
        /\ r \in Xbuf => r = held[c] /\ r \in fd /\ mbx[r] = frame[c].mbx
        /\ r \in Conn => r = c
    BY Zenon, <1>0, <1>1 DEF OwnInv, OwnTypes, Holding
  <1>6. \A b \in Peer : pc'[b] = IF b = c THEN l ELSE pc[b]
    BY Zenon, <1>2 DEF OwnInv, OwnTypes
  <1>7. l \in Keeping \cap Labels /\ l \notin {"add", "write", "join", "exit"}
    BY Zenon, <1>2 DEF Keeping, Labels
  <1> HIDE DEF r
  <1>8. OwnTypes'
    BY Zenon, <1>1, <1>2, <1>3, <1>5, <1>7 DEF OwnInv, OwnTypes
  <1>9. Registered'
    BY Zenon, <1>1, <1>4, <1>5 DEF OwnInv, Registered
  <1>10. Alive' /\ Outgoing' /\ Reading'
    BY Zenon, <1>1 DEF OwnInv, Alive, Outgoing, Reading
  <1>11. Holding'
    BY <1>1, <1>2, <1>6, <1>7 DEF OwnInv, Holding
  <1>12. Joining'
    <2>1. \A b \in Peer : pc[b] = "join" => held[b] \in Xbuf /\ held[b] # r
      BY <1>0, <1>1, <1>5 DEF OwnInv, Joining, Alone, Holding, OwnTypes
    <2>2. \A y \in Xbuf : rpc[y] = "join" => rdest[y] \in Xbuf /\ rdest[y] # r
      BY SMTT(30), <1>0, <1>1, <1>5 DEF OwnInv, Joining, Alone, Reading
    <2> QED BY <1>1, <1>4, <1>6, <1>7, <2>1, <2>2 DEF OwnInv, Joining, Alone
  <1>13. Referred'
    BY SMTT(30), <1>0, <1>1, <1>4 DEF OwnInv, Referred
  <1>14. NoDanglingRoute'
    BY Zenon, <1>0, <1>4, <1>5, <1>6, <1>7 DEF OwnInv, NoDanglingRoute
  <1> QED BY Zenon, <1>8, <1>9, <1>10, <1>11, <1>12, <1>13, <1>14 DEF OwnInv

LEMMA OwnStart ==
  ASSUME OwnInv, NEW c \in Peer, StartReader(c)
  PROVE OwnInv'
  <1> USE DEF regVars, peerVars, xbufVars, deviceVars
  <1>0. None \notin Peer \cup Xbuf /\ Conn \subseteq Peer
    BY Zenon, EvlRouterAssumption DEF Peer
  <1>1. /\ UNCHANGED <<table, held, mbx, fd, rdest, rmsg, frame, is_peer, traffic, device, outbound>>
        /\ pc[c] = "start"
    BY Zenon DEF StartReader
  <1>2. rpc' = [rpc EXCEPT ![held[c]] = "poll"] /\ pc' = [pc EXCEPT ![c] = "insert"]
    BY Zenon DEF StartReader, Goto
  <1>3. PICK x \in Xbuf : x = held[c]
    BY Zenon, <1>1 DEF OwnInv, OwnTypes, Holding
  <1>4. rpc[x] = "idle" /\ \A b \in Peer \ {c} : pc[b] \in {"add", "start"} => held[b] # x
    BY Zenon, <1>0, <1>1, <1>3 DEF OwnInv, Holding
  <1>5. \A y \in Xbuf : rpc'[y] = IF y = x THEN "poll" ELSE rpc[y]
    BY Zenon, <1>2, <1>3 DEF OwnInv, OwnTypes
  <1>6. \A b \in Peer : pc'[b] = IF b = c THEN "insert" ELSE pc[b]
    BY Zenon, <1>2 DEF OwnInv, OwnTypes
  <1>7. OwnTypes'
    BY Zenon, <1>1, <1>2 DEF OwnInv, OwnTypes, Labels, ReaderLabels
  <1>8. Registered' /\ NoDanglingRoute'
    BY Zenon, <1>0, <1>1, <1>6 DEF OwnInv, Registered, NoDanglingRoute
  <1>9. Alive' /\ Outgoing'
    BY Zenon, <1>1, <1>4, <1>5 DEF OwnInv, Alive, Outgoing, OwnTypes
  <1>10. Holding'
    <2>1. \A b \in Peer : held[b] # None => held[b] \in Xbuf
      BY Zenon DEF OwnInv, OwnTypes
    <2> QED BY SMTT(30), <1>1, <1>3, <1>4, <1>5, <1>6, <2>1 DEF OwnInv, Holding, Keeping
  <1>11. Reading'
    BY Zenon, <1>1, <1>4, <1>5 DEF OwnInv, Reading
  <1>12. Joining' /\ Referred'
    BY <1>1, <1>4, <1>5, <1>6 DEF OwnInv, Joining, Alone, Referred
  <1> QED BY Zenon, <1>7, <1>8, <1>9, <1>10, <1>11, <1>12 DEF OwnInv

\* A thread drops a reference that others share, or has none
LEMMA OwnLetGo ==
  ASSUME OwnInv, NEW c \in Peer, Release(c), held[c] = None \/ Shared(held[c], c)
  PROVE OwnInv'
  <1> USE DEF regVars, peerVars, readerVars, deviceVars
  <1>0. None \notin Peer \cup Xbuf /\ Xbuf \cap Peer = {} /\ Conn \subseteq Peer
    BY Zenon, EvlRouterAssumption DEF Peer
  <1>1. /\ UNCHANGED <<table, mbx, fd, rpc, rdest, rmsg, is_peer, traffic, device, outbound>>
        /\ pc[c] = "release"
    BY Zenon DEF Release
  <1>2. /\ pc' = [pc EXCEPT ![c] = "run"] /\ frame' = [frame EXCEPT ![c] = Idle]
        /\ held' = [held EXCEPT ![c] = None]
    BY Zenon DEF Release, Done, Work, Goto
  <1>3. \A b \in Peer : /\ pc'[b] = IF b = c THEN "run" ELSE pc[b]
                        /\ held'[b] = IF b = c THEN None ELSE held[b]
    BY Zenon, <1>2 DEF OwnInv, OwnTypes
  <1>4. \A b \in Peer \ {c} : frame'[b] = frame[b]
    BY Zenon, <1>2 DEF OwnInv, OwnTypes
  <1>5. OwnTypes'
    BY Zenon, <1>1, <1>2 DEF OwnInv, OwnTypes, Labels
  <1>6. Registered' /\ Alive' /\ Outgoing' /\ Reading'
    BY Zenon, <1>1 DEF OwnInv, Registered, Alive, Outgoing, Reading
  <1>7. Holding'
    BY SMTT(30), <1>1, <1>3, <1>4 DEF OwnInv, Holding
  <1>8. Joining'
    <2>1. \A b \in Peer : pc[b] = "join" => held[b] # None
      BY Zenon DEF OwnInv, Holding
    <2>2. \A y \in Xbuf : rpc[y] = "join" => rdest[y] # None
      BY Zenon, <1>0 DEF OwnInv, Reading
    <2> QED BY SMTT(30), <1>1, <1>3, <2>1, <2>2 DEF OwnInv, Joining, Alone
  <1>9. NoDanglingRoute'
    BY Zenon, <1>0, <1>1, <1>3 DEF OwnInv, NoDanglingRoute
  <1>10. Referred'
    <2>1. SUFFICES ASSUME NEW z \in Xbuf, rpc[z] # "free", held[c] = z
                   PROVE \/ \E m \in Mailbox : table[m] = z
                         \/ \E b \in Peer : held'[b] = z
                         \/ \E y \in Xbuf : rdest[y] = z
      BY Zenon, <1>1, <1>3 DEF OwnInv, Referred
    <2>2. Shared(held[c], c)
      BY Zenon, <1>0, <2>1
    <2> QED BY Zenon, <1>3, <2>1, <2>2 DEF Shared, Holders
  <1> QED BY Zenon, <1>5, <1>6, <1>7, <1>8, <1>9, <1>10 DEF OwnInv

\* The last reference goes with a thread's: the descriptor is closed
LEMMA OwnDestroy ==
  ASSUME OwnInv, NEW c \in Peer, Release(c), ~(held[c] = None \/ Shared(held[c], c))
  PROVE OwnInv'
  <1> USE DEF regVars, peerVars, readerVars, deviceVars
  <1>0. None \notin Peer \cup Xbuf /\ Xbuf \cap Peer = {} /\ Conn \subseteq Peer
    BY Zenon, EvlRouterAssumption DEF Peer
  <1>1. /\ UNCHANGED <<table, held, frame, mbx, rpc, rdest, rmsg, is_peer, traffic, device, outbound>>
        /\ pc[c] = "release" /\ pc' = [pc EXCEPT ![c] = "join"] /\ fd' = fd \ {held[c]}
    BY Zenon DEF Release, Goto
  <1>2. Alone(held[c], c)
    BY Zenon, <1>0 DEF Shared, Holders, Alone
  <1>3. \A b \in Peer : pc'[b] = IF b = c THEN "join" ELSE pc[b]
    BY Zenon, <1>1 DEF OwnInv, OwnTypes
  <1>4. OwnTypes'
    BY Zenon, <1>1 DEF OwnInv, OwnTypes, Labels
  <1>5. Registered' /\ Alive' /\ Outgoing'
    BY Zenon, <1>1, <1>2 DEF OwnInv, Registered, Alive, Outgoing, Alone
  <1>6. Reading'
    BY Zenon, <1>0, <1>1, <1>2 DEF OwnInv, Reading, Alone
  <1>7. Referred' /\ NoDanglingRoute'
    BY <1>0, <1>1, <1>3 DEF OwnInv, Referred, NoDanglingRoute
  <1>8. Holding'
    <2>1. \A b \in Peer \ {c} : held[b] # held[c]
      BY Zenon, <1>2 DEF Alone
    <2> QED BY SMTT(30), <1>1, <1>3, <2>1 DEF OwnInv, Holding, Keeping
  <1>9. Joining'
    BY <1>1, <1>2, <1>3 DEF OwnInv, Joining, Alone
  <1> QED BY Zenon, <1>4, <1>5, <1>6, <1>7, <1>8, <1>9 DEF OwnInv

\* remove() of a mailbox that has no entry, a TCP one, or one that is in use
LEMMA OwnErase ==
  ASSUME OwnInv, NEW c \in Peer, NEW t, NEW m \in Mailbox, Remove(c, t, m),
         ~(table[m] \in Xbuf /\ Holders(table[m]) = {})
  PROVE OwnInv'
  <1> USE DEF peerVars, readerVars, deviceVars
  <1>0. None \notin Peer \cup Xbuf /\ Xbuf \cap Peer = {} /\ Conn \subseteq Peer
    BY Zenon, EvlRouterAssumption DEF Peer
  <1>1. /\ UNCHANGED <<held, fd, mbx, rpc, rdest, rmsg, is_peer, traffic, device, outbound>>
        /\ pc[c] = "run" /\ table' = [table EXCEPT ![m] = None]
    BY Zenon DEF Remove
  <1>2. PICK l \in {"erase", "run"}, f \in {Frame(t, m, None), Idle} :
          pc' = [pc EXCEPT ![c] = l] /\ frame' = [frame EXCEPT ![c] = f]
    BY Zenon DEF Remove, Done, Work, Goto
  <1>3. /\ \A b \in Peer : pc'[b] = IF b = c THEN l ELSE pc[b]
        /\ \A b \in Peer \ {c} : frame'[b] = frame[b]
    BY Zenon, <1>2 DEF OwnInv, OwnTypes
  <1>4. \A n \in Mailbox : table'[n] = IF n = m THEN None ELSE table[n]
    BY Zenon, <1>1 DEF OwnInv, OwnTypes
  <1>5. held[c] = None
    BY Zenon, <1>1 DEF OwnInv, Holding, Keeping
  <1>6. UNCHANGED <<held, fd, mbx, rpc, rdest>>
    BY Zenon, <1>1
  <1>7. OwnTypes'
    BY Zenon, <1>1, <1>2 DEF OwnInv, OwnTypes, Labels
  <1>8. Registered' /\ Alive' /\ Outgoing' /\ Reading'
    BY SMTT(30), <1>0, <1>1, <1>4 DEF OwnInv, Registered, Alive, Outgoing, Reading
  <1>9. Holding'
    BY SMTT(30), <1>2, <1>3, <1>5, <1>6 DEF OwnInv, Holding
  <1>10. Joining'
    <2>1. \A b \in Peer : pc[b] = "join" => held[b] # None
      BY Zenon DEF OwnInv, Holding
    <2>2. \A y \in Xbuf : rpc[y] = "join" => rdest[y] # None
      BY Zenon, <1>0 DEF OwnInv, Reading
    <2> QED BY SMTT(30), <1>2, <1>3, <1>4, <1>6, <2>1, <2>2 DEF OwnInv, Joining, Alone
  <1>11. NoDanglingRoute'
    BY <1>0, <1>2, <1>3, <1>4 DEF OwnInv, NoDanglingRoute
  <1>12. Referred'
    BY <1>4, <1>6 DEF OwnInv, Referred, Holders
  <1> QED BY Zenon, <1>7, <1>8, <1>9, <1>10, <1>11, <1>12 DEF OwnInv

\* remove() of the last reference: the thread destroys it, still locked
LEMMA OwnRemoveLast ==
  ASSUME OwnInv, NEW c \in Peer, NEW t, NEW m \in Mailbox, Remove(c, t, m),
         table[m] \in Xbuf /\ Holders(table[m]) = {}
  PROVE OwnInv'
  <1> USE DEF peerVars, readerVars, deviceVars
  <1>0. None \notin Peer \cup Xbuf /\ Xbuf \cap Peer = {} /\ Conn \subseteq Peer
    BY Zenon, EvlRouterAssumption DEF Peer
  <1>1. PICK x \in Xbuf : x = table[m]
    BY Zenon
  <1>2. /\ UNCHANGED <<mbx, rpc, rdest, rmsg, is_peer, traffic, device, outbound>>
        /\ pc[c] = "run"
    BY Zenon DEF Remove
  <1>3. /\ table' = [table EXCEPT ![m] = None] /\ held' = [held EXCEPT ![c] = x] /\ fd' = fd \ {x}
        /\ pc' = [pc EXCEPT ![c] = "join"] /\ frame' = [frame EXCEPT ![c] = Frame(t, m, None)]
    BY Zenon, <1>1 DEF Remove, Work, Goto
  <1>4. /\ \A b \in Peer : /\ pc'[b] = IF b = c THEN "join" ELSE pc[b]
                           /\ held'[b] = IF b = c THEN x ELSE held[b]
        /\ \A b \in Peer \ {c} : frame'[b] = frame[b]
    BY Zenon, <1>3 DEF OwnInv, OwnTypes
  <1>5. \A n \in Mailbox : table'[n] = IF n = m THEN None ELSE table[n]
    BY Zenon, <1>3 DEF OwnInv, OwnTypes
  <1>6. fd' = fd \ {x}
    BY Zenon, <1>3
  <1>7. /\ \A b \in Peer : held[b] # x
        /\ \A y \in Xbuf : rdest[y] # x
    BY Zenon, <1>1 DEF Holders
  <1>8. \A n \in Mailbox : table[n] = x => n = m
    BY Zenon, <1>1 DEF OwnInv, Registered
  <1>9. rpc[x] # "free"
    BY Zenon, <1>1 DEF OwnInv, Registered, Alive
  <1>10. OwnTypes'
    BY Zenon, <1>2, <1>3 DEF OwnInv, OwnTypes, Labels
  <1>11. Registered' /\ Alive' /\ Outgoing'
    BY Zenon, <1>0, <1>2, <1>5, <1>6, <1>8 DEF OwnInv, Registered, Alive, Outgoing
  <1>12. Reading'
    BY Zenon, <1>2, <1>6, <1>7 DEF OwnInv, Reading
  <1>13. Holding'
    BY SMTT(30), <1>0, <1>2, <1>4, <1>6, <1>7, <1>9 DEF OwnInv, Holding, Keeping
  <1>14. Joining'
    <2>1. \A b \in Peer : pc[b] = "join" => held[b] # None
      BY Zenon DEF OwnInv, Holding
    <2>2. \A y \in Xbuf : rpc[y] = "join" => rdest[y] # None
      BY Zenon, <1>0 DEF OwnInv, Reading
    <2> QED BY SMTT(30), <1>0, <1>2, <1>4, <1>5, <1>6, <1>7, <1>8, <2>1, <2>2 DEF OwnInv, Joining, Alone
  <1>15. Referred'
    <2>1. held[c] = None
      BY Zenon, <1>2 DEF OwnInv, Holding, Keeping
    <2> QED BY SMTT(30), <1>0, <1>1, <1>2, <1>4, <1>5, <2>1 DEF OwnInv, Referred
  <1>16. NoDanglingRoute'
    BY <1>0, <1>4, <1>5 DEF OwnInv, NoDanglingRoute
  <1> QED BY Zenon, <1>10, <1>11, <1>12, <1>13, <1>14, <1>15, <1>16 DEF OwnInv

\* The destroyed entry's reader has ended, or never ran, and the object goes
LEMMA OwnJoin ==
  ASSUME OwnInv, NEW c \in Peer, Join(c)
  PROVE OwnInv'
  <1> USE DEF peerVars, deviceVars
  <1>0. None \notin Peer \cup Xbuf /\ Xbuf \cap Peer = {} /\ Conn \subseteq Peer
    BY Zenon, EvlRouterAssumption DEF Peer
  <1>1. PICK z \in Xbuf : z = held[c]
    BY Zenon DEF Join, OwnInv, OwnTypes, Holding
  <1>2. /\ UNCHANGED <<table, fd, rdest, rmsg, is_peer, traffic, device, outbound>>
        /\ pc[c] = "join" /\ rpc[z] \in {"idle", "exit"}
    BY Zenon, <1>1 DEF Join
  <1>3. /\ rpc' = [rpc EXCEPT ![z] = "free"] /\ mbx' = [mbx EXCEPT ![z] = None]
        /\ held' = [held EXCEPT ![c] = None]
    BY Zenon, <1>1 DEF Join
  <1>4. PICK l \in {"erase", "run"} : pc' = [pc EXCEPT ![c] = l]
    BY Zenon DEF Join, Done, Work, Goto
  <1>5. /\ frame' = [b \in Peer |-> frame'[b]]
        /\ \A b \in Peer \ {c} : frame'[b] = frame[b]
    BY Zenon DEF Join, Done, Work, OwnInv, OwnTypes
  <1>6. \A b \in Peer : /\ pc'[b] = IF b = c THEN l ELSE pc[b]
                        /\ held'[b] = IF b = c THEN None ELSE held[b]
    BY Zenon, <1>3, <1>4 DEF OwnInv, OwnTypes
  <1>7. \A y \in Xbuf : /\ rpc'[y] = IF y = z THEN "free" ELSE rpc[y]
                        /\ mbx'[y] = IF y = z THEN None ELSE mbx[y]
    BY Zenon, <1>3 DEF OwnInv, OwnTypes
  <1>8. Alone(z, c) /\ z \notin fd
    BY Zenon, <1>1, <1>2 DEF OwnInv, Joining, Alone
  <1>9. \A y \in Xbuf : rdest[y] # z
    BY Zenon, <1>0, <1>8 DEF Alone
  <1>10. OwnTypes'
    BY Zenon, <1>2, <1>3, <1>4, <1>5 DEF OwnInv, OwnTypes, Labels, ReaderLabels
  <1>11. Registered' /\ Alive' /\ Outgoing'
    <2>1. Registered'
      BY Zenon, <1>2, <1>7, <1>8 DEF OwnInv, Registered
    <2>2. Alive' /\ Outgoing'
      BY Zenon, <1>2, <1>7, <1>8 DEF OwnInv, Alive, Outgoing, OwnTypes
    <2> QED BY Zenon, <2>1, <2>2
  <1>12. Holding'
    <2>1. \A b \in Peer \ {c} : held[b] # z /\ (held[b] # None => held[b] \in Xbuf)
      BY Zenon, <1>8 DEF Alone, OwnInv, OwnTypes
    <2>2. l \notin {"add", "start", "write", "join"}
      BY Zenon, <1>4
    <2> QED BY <1>2, <1>5, <1>6, <1>7, <2>1, <2>2 DEF OwnInv, Holding
  <1>13. Reading'
    <2>1. rdest[z] = None
      BY Zenon, <1>2 DEF OwnInv, Reading
    <2> QED BY SMTT(30), <1>0, <1>2, <1>7, <1>9, <2>1 DEF OwnInv, Reading
  <1>14. Joining'
    <2>1. \A b \in Peer : pc[b] = "join" => held[b] # None
      BY Zenon DEF OwnInv, Holding
    <2>2. \A y \in Xbuf : rpc[y] = "join" => rdest[y] # None
      BY Zenon, <1>0 DEF OwnInv, Reading
    <2> QED BY SMTT(30), <1>2, <1>4, <1>6, <1>7, <2>1, <2>2 DEF OwnInv, Joining, Alone
  <1>15. Referred'
    BY SMTT(30), <1>1, <1>2, <1>6, <1>7 DEF OwnInv, Referred
  <1>16. NoDanglingRoute'
    BY <1>0, <1>2, <1>4, <1>6 DEF OwnInv, NoDanglingRoute
  <1> QED BY Zenon, <1>10, <1>11, <1>12, <1>13, <1>14, <1>15, <1>16 DEF OwnInv

\* Routes to connections: PEER_REGISTER and remove_all_for_con()
LEMMA OwnRoutes ==
  ASSUME OwnInv, NEW c \in Peer, Disconnect(c) \/ \E m \in Mailbox : RecvPeerRegister(c, m)
  PROVE OwnInv'
  <1> USE DEF peerVars, readerVars, deviceVars, xbufVars, threadVars
  <1>0. None \notin Peer \cup Xbuf /\ Xbuf \cap Peer = {} /\ Conn \subseteq Peer
    BY Zenon, EvlRouterAssumption DEF Peer
  <1>1. /\ UNCHANGED <<held, fd, mbx, rpc, rdest, rmsg, frame, is_peer, traffic, device, outbound>>
        /\ pc[c] = "run"
    BY Zenon DEF Disconnect, RecvPeerRegister
  <1>2. table' \in [Mailbox -> Conn \cup Xbuf \cup {None}]
    BY Zenon DEF Disconnect, RecvPeerRegister, OwnInv, OwnTypes
  <1>3. \A n \in Mailbox : /\ table[n] \in Xbuf => table'[n] = table[n]
                           /\ table'[n] \in Xbuf => table'[n] = table[n]
    BY <1>0 DEF Disconnect, RecvPeerRegister, OwnInv, OwnTypes
  <1>4. PICK l \in {"run", "exit"} : pc' = [pc EXCEPT ![c] = l]
    BY <1>1 DEF Disconnect, RecvPeerRegister, Goto, OwnInv, OwnTypes
  <1>5. \A b \in Peer : pc'[b] = IF b = c THEN l ELSE pc[b]
    BY Zenon, <1>4 DEF OwnInv, OwnTypes
  <1>6. held[c] = None
    BY Zenon, <1>1 DEF OwnInv, Holding, Keeping
  <1>7. OwnTypes'
    BY Zenon, <1>1, <1>2, <1>4 DEF OwnInv, OwnTypes, Labels
  <1>8. Registered' /\ Alive' /\ Outgoing' /\ Reading'
    BY Zenon, <1>1, <1>3 DEF OwnInv, Registered, Alive, Outgoing, Reading
  <1>9. Holding'
    BY SMTT(30), <1>1, <1>4, <1>5, <1>6 DEF OwnInv, Holding
  <1>10. Joining'
    <2>1. \A b \in Peer : pc[b] = "join" => held[b] \in Xbuf
      BY Zenon DEF OwnInv, Holding, OwnTypes
    <2>2. \A y \in Xbuf : rpc[y] = "join" => rdest[y] \in Xbuf
      BY Zenon DEF OwnInv, Reading
    <2>3. ASSUME NEW x \in Xbuf, NEW t, Alone(x, t) PROVE Alone(x, t)'
      BY Zenon, <1>1, <1>3, <2>3 DEF Alone
    <2>4. \A b \in Peer : pc'[b] = "join" => pc[b] = "join"
      BY <1>4, <1>5
    <2>5. ASSUME NEW b \in Peer, pc'[b] = "join" PROVE (Alone(held[b], b) /\ held[b] \notin fd)'
      <3>1. PICK x \in Xbuf : x = held[b]
        BY Zenon, <1>1, <2>4, <2>5, <2>1
      <3>2. Alone(x, b) /\ x \notin fd
        BY Zenon, <1>1, <2>4, <2>5, <3>1 DEF OwnInv, Joining
      <3>3. Alone(x, b)' /\ held'[b] = x /\ x \notin fd'
        BY Zenon, <1>1, <2>3, <3>1, <3>2
      <3> QED BY Zenon, <3>3 DEF Alone
    <2>6. ASSUME NEW y \in Xbuf, rpc'[y] = "join" PROVE (Alone(rdest[y], y) /\ rdest[y] \notin fd)'
      <3>1. PICK x \in Xbuf : x = rdest[y]
        BY Zenon, <1>1, <2>4, <2>6, <2>2
      <3>2. Alone(x, y) /\ x \notin fd
        BY Zenon, <1>1, <2>4, <2>6, <3>1 DEF OwnInv, Joining
      <3>3. Alone(x, y)' /\ rdest'[y] = x /\ x \notin fd'
        BY Zenon, <1>1, <2>3, <3>1, <3>2
      <3> QED BY Zenon, <3>3 DEF Alone
    <2> QED BY Zenon, <2>5, <2>6 DEF Joining
  <1>11. Referred'
    BY Zenon, <1>1, <1>3 DEF OwnInv, Referred
  <1>12. NoDanglingRoute'
    <2>1. CASE Disconnect(c)
      <3>1. \A n \in Mailbox : table'[n] = IF table[n] = c THEN None ELSE table[n]
        BY Zenon, <2>1 DEF Disconnect
      <3> QED BY Zenon, <1>0, <1>5, <3>1 DEF OwnInv, NoDanglingRoute
    <2>2. CASE \E m \in Mailbox : RecvPeerRegister(c, m)
      BY Zenon, <1>1, <2>2 DEF RecvPeerRegister, OwnInv, OwnTypes, NoDanglingRoute
    <2> QED BY Zenon, <2>1, <2>2
  <1> QED BY Zenon, <1>7, <1>8, <1>9, <1>10, <1>11, <1>12 DEF OwnInv

\* find() gives the thread a reference next to the registry's
LEMMA OwnRecvData ==
  ASSUME OwnInv, NEW c \in Peer, NEW d \in Data, RecvData(c, d)
  PROVE OwnInv'
  <1> USE DEF regVars, peerVars, readerVars, deviceVars, xbufVars
  <1>0. None \notin Peer \cup Xbuf /\ Xbuf \cap Peer = {} /\ Conn \subseteq Peer
    BY Zenon, EvlRouterAssumption DEF Peer
  <1>1. /\ UNCHANGED <<table, fd, mbx, rpc, rdest, rmsg, is_peer, traffic, device, outbound>>
        /\ pc[c] = "run"
    BY Zenon DEF RecvData
  <1>2. Dest[d] \in Mailbox /\ table[Dest[d]] \in Conn \cup Xbuf \cup {None}
    BY Zenon, EvlRouterAssumption, FindTypes
  <1>3. PICK h \in Xbuf \cup {None} :
          /\ held' = [held EXCEPT ![c] = h]
          /\ h = IF table[Dest[d]] \in Xbuf THEN table[Dest[d]] ELSE None
    BY Zenon DEF RecvData
  <1>4. PICK l \in {"forward", "write", "release", "upstream", "run"} :
          /\ pc' = [pc EXCEPT ![c] = l]
          /\ l = "write" => h # None /\ frame'[c].mbx = Dest[d]
          /\ h # None => l \in {"write", "release"}
    <2>1. CASE table[Dest[d]] \in Conn
      BY Zenon, <1>0, <1>3, <2>1 DEF RecvData, Work, Goto
    <2>2. CASE table[Dest[d]] = None
      BY Zenon, <1>0, <1>3, <2>2 DEF RecvData, Work, Goto
    <2>3. CASE table[Dest[d]] \in Xbuf /\ c \in Conn
      <3>1. /\ pc' = [pc EXCEPT ![c] = "write"]
            /\ frame' = [frame EXCEPT ![c] = Frame("data", Dest[d], d)]
        BY Zenon, <1>0, <2>3 DEF RecvData, Work, Goto
      <3>2. frame'[c].mbx = Dest[d]
        BY Zenon, <3>1 DEF OwnInv, OwnTypes, Frame
      <3> QED BY Zenon, <1>0, <1>3, <2>3, <3>1, <3>2
    <2>4. CASE table[Dest[d]] \in Xbuf /\ c \notin Conn
      BY Zenon, <1>0, <1>3, <2>4 DEF RecvData, Work, Goto
    <2> QED BY Zenon, <1>2, <2>1, <2>2, <2>3, <2>4
  <1>5. /\ frame' = [b \in Peer |-> frame'[b]]
        /\ \A b \in Peer \ {c} : frame'[b] = frame[b]
    BY Zenon DEF RecvData, Work, OwnInv, OwnTypes
  <1>6. \A b \in Peer : /\ pc'[b] = IF b = c THEN l ELSE pc[b]
                        /\ held'[b] = IF b = c THEN h ELSE held[b]
    BY Zenon, <1>3, <1>4 DEF OwnInv, OwnTypes
  <1>7. h # None => h \in Xbuf /\ h \in fd /\ mbx[h] = Dest[d] /\ rpc[h] # "free" /\ h = table[Dest[d]]
    BY Zenon, <1>2, <1>3 DEF OwnInv, Registered, Alive
  <1>8. held[c] = None
    BY Zenon, <1>1 DEF OwnInv, Holding, Keeping
  <1>9. OwnTypes'
    BY Zenon, <1>1, <1>3, <1>4, <1>5 DEF OwnInv, OwnTypes, Labels
  <1>10. Registered' /\ Alive' /\ Outgoing' /\ Reading'
    BY Zenon, <1>1 DEF OwnInv, Registered, Alive, Outgoing, Reading
  <1>11. Holding'
    <2>1. l \notin {"add", "start", "join"} /\ (h # None => l \in Keeping)
      BY Zenon, <1>4 DEF Keeping
    <2> QED BY <1>1, <1>4, <1>5, <1>6, <1>7, <1>8, <2>1 DEF OwnInv, Holding
  <1>12. Joining'
    <2>1. \A b \in Peer : pc[b] = "join" => held[b] # None /\ held[b] # h
      BY Zenon, <1>2, <1>7 DEF OwnInv, Joining, Alone, Holding
    <2>2. \A y \in Xbuf : rpc[y] = "join" => rdest[y] # None /\ rdest[y] # h
      BY SMTT(30), <1>0, <1>2, <1>7 DEF OwnInv, Joining, Alone, Reading
    <2> QED BY SMTT(30), <1>1, <1>4, <1>6, <2>1, <2>2 DEF OwnInv, Joining, Alone
  <1>13. Referred'
    BY SMTT(30), <1>0, <1>1, <1>6, <1>8 DEF OwnInv, Referred
  <1>14. NoDanglingRoute'
    BY SMTT(30), <1>0, <1>1, <1>4, <1>6 DEF OwnInv, NoDanglingRoute
  <1> QED BY Zenon, <1>9, <1>10, <1>11, <1>12, <1>13, <1>14 DEF OwnInv

-----------------------------------------------------------------------------
LEMMA OwnNext == OwnInv /\ [Next]_vars => OwnInv'
  <1> SUFFICES ASSUME OwnInv, [Next]_vars PROVE OwnInv'
    BY Zenon
  <1>1. CASE UNCHANGED vars
    BY Zenon, <1>1, OwnStill DEF vars, ownVars, regVars, peerVars, threadVars, xbufVars, readerVars,
       deviceVars, OwnInv, Outgoing
  <1>2. CASE \E c \in Conn : ConnectPeer(c) \/ Accept(c) \/ List(c)
    BY Zenon, <1>2, OwnQuietConn
  <1>3. CASE \E c \in Peer : Close(c)
    BY Zenon, <1>3, OwnQuietEvl
  <1>4. ASSUME NEW c \in Peer, Work_on(c) PROVE OwnInv'
    BY Zenon, <1>4, OwnQuietThread, OwnAdd, OwnStart, OwnLetGo, OwnDestroy, OwnJoin, OwnRoutes DEF Work_on
  <1>5. ASSUME NEW c \in Peer, Receive(c) PROVE OwnInv'
    <2>1. ASSUME NEW m \in Mailbox, RecvInit(c, m) PROVE OwnInv'
      BY Zenon, <2>1, OwnInitPlain, OwnInitXbuf
    <2>2. ASSUME NEW m \in Mailbox, NEW t, Remove(c, t, m) PROVE OwnInv'
      BY Zenon, <2>2, OwnErase, OwnRemoveLast
    <2>3. ASSUME NEW m \in Mailbox, RecvPeerRegister(c, m) PROVE OwnInv'
      BY Zenon, <2>3, OwnRoutes
    <2>4. ASSUME NEW d \in Data, RecvData(c, d) PROVE OwnInv'
      BY Zenon, <2>4, OwnRecvData
    <2>5. CASE RecvHello(c) \/ \E d \in Data : Oversized(c, d)
      BY Zenon, <2>5, OwnQuietThread
    <2> QED BY Zenon, <1>5, <2>1, <2>2, <2>3, <2>4, <2>5 DEF Receive, RecvDelete, RecvPeerDelete
  <1>6. ASSUME NEW x \in Xbuf, ReaderStep(x) PROVE OwnInv'
    BY Zenon, <1>6, OwnReaderMove, OwnReaderFind, OwnReaderDestroy, OwnReaderJoin DEF ReaderStep
  <1>7. CASE (\E m \in Evl : Evl_process(m)) \/ (\E d \in Data : EvlSend(d))
    BY Zenon, <1>7, OwnQuietEvl
  <1> QED BY Zenon, <1>1, <1>2, <1>3, <1>4, <1>5, <1>6, <1>7 DEF Next

LEMMA OwnHolds == Spec => []OwnInv
  BY OwnInit, OwnNext, PTL DEF Spec

\* A registered XbufEntry, and one that a connection thread is about to write
\* to, has its descriptor open and serves the mailbox meant.
THEOREM RouterXbufAlive == Spec => []XbufAlive
  <1>1. OwnInv => XbufAlive
    BY Zenon, EvlRouterAssumption DEF OwnInv, Registered, Holding, XbufAlive
  <1> QED BY <1>1, OwnHolds, PTL

\* Whenever an XbufEntry or its reader thread exists, the registry, a
\* connection thread or another reader refers to it.
THEOREM RouterNoLeakedReader == Spec => []NoLeakedReader
  <1>1. OwnInv => NoLeakedReader
    BY SMTT(30), EvlRouterAssumption DEF OwnInv, Referred, NoLeakedReader, Shared, Holders
  <1> QED BY <1>1, OwnHolds, PTL

\* The registry has no route to a connection whose thread has ended.
THEOREM RouterNoDanglingRoute == Spec => []NoDanglingRoute
  <1>1. OwnInv => NoDanglingRoute
    BY Zenon DEF OwnInv
  <1> QED BY <1>1, OwnHolds, PTL

SoleDestroyer ==
  /\ \A c \in Peer : pc[c] = "join" => ~Shared(held[c], c)
  /\ \A y \in Xbuf : rpc[y] = "join" => ~Shared(rdest[y], y)

\* What a thread destroys, from the close to the end of the join, nobody else
\* refers to: ~XbufEntry() runs once, on an object that cannot be found again.
THEOREM RouterSoleDestroyer == Spec => []SoleDestroyer
  <1>1. OwnInv => SoleDestroyer
    BY EvlRouterAssumption DEF OwnInv, Joining, Alone, SoleDestroyer, Shared, Holders
  <1> QED BY <1>1, OwnHolds, PTL

-----------------------------------------------------------------------------
(* PeersTold.  connect_to_peers() is through before the first client is    *)
(* accepted, so a peer of the start-up is listed before there is a mailbox *)
(* to tell it of; afterwards each handler that makes a mailbox local keeps *)
(* the peers that it has not told yet in its hands.                        *)

\* Routers announce mailboxes with PEER_REGISTER; only clients send
\* MBX_INIT_WITH_REPLY and MBX_DELETE.
ClientsRegister == \A t \in Traffic, c \in Links, m \in Mailbox : <<c, m>> \notin t.regs

PeerTypes ==
  /\ traffic \in Traffic /\ listed \subseteq Conn /\ dialled \subseteq Outbound \cap is_peer
  /\ told = [e \in Conn |-> told[e]] /\ pc = [c \in Peer |-> pc[c]]
  /\ frame = [c \in Peer |-> frame[c]] /\ todo = [c \in Peer |-> todo[c]]
  /\ \A c \in dialled \cup listed : pc[c] # "none"
\* The frames with which a thread registers, deletes and broadcasts
FrameFits(c) ==
  /\ frame[c].type \in {"init", "delete"} => <<c, frame[c].mbx>> \in traffic.regs
  /\ pc[c] \in {"add", "start", "insert"} => frame[c].type = "init"
  /\ pc[c] = "erase" => frame[c].type = "delete"
  /\ pc[c] \in {"peers", "broadcast"} => frame[c].type \in {"init", "delete"}
FramesFit == \A c \in Peer : FrameFits(c)
\* Peers first, then clients, then mailboxes
PeersFirst ==
  /\ (\E c \in Conn \ dialled : pc[c] # "none") => dialled \subseteq listed
  /\ local_mailboxes # {} => \E c \in Conn \ dialled : pc[c] # "none"
\* A mailbox whose deletion is being broadcast is not local
Deleted ==
  \A c \in Peer : pc[c] \in {"peers", "broadcast"} /\ frame[c].type = "delete" =>
    frame[c].mbx \notin Exclusive \cap local_mailboxes
\* The thread of e itself, or the one that registers m, has yet to tell e of m
Telling(e, m) ==
  \/ pc[e] = "snapshot"
  \/ pc[e] = "advertise" /\ m \in todo[e]
  \/ \E c \in Peer : /\ frame[c].type = "init" /\ frame[c].mbx = m
                     /\ pc[c] = "peers" \/ (pc[c] = "broadcast" /\ e \in todo[c])
WillBeTold ==
  \A e \in dialled \cap listed, m \in Exclusive \cap local_mailboxes : m \in told[e] \/ Telling(e, m)
PeerInv == PeerTypes /\ FramesFit /\ PeersFirst /\ Deleted /\ WillBeTold

LEMMA PeerInit == Init => PeerInv
  <1> SUFFICES ASSUME Init PROVE PeerInv
    BY Zenon
  <1>1. \A c \in Peer : pc[c] \in {"run", "none"} /\ frame[c] = Idle
    BY Zenon DEF Init
  <1>2. Idle.type = "none"
    BY DEF Idle, Frame
  <1>3. \A c \in Conn : pc[c] = "none"
    BY Zenon, EvlRouterAssumption DEF Init, Peer
  <1>4. PeerTypes
    BY Zenon DEF Init, PeerTypes
  <1>5. FramesFit
    BY <1>1, <1>2 DEF FramesFit, FrameFits
  <1>6. PeersFirst /\ Deleted /\ WillBeTold
    BY Zenon, <1>1, <1>3 DEF Init, PeersFirst, Deleted, WillBeTold
  <1> QED BY Zenon, <1>4, <1>5, <1>6 DEF PeerInv

\* A step of the thread of c that neither announces a mailbox nor stops to.
Elsewhere(c) ==
  /\ frame' = [b \in Peer |-> frame'[b]] /\ todo' = [b \in Peer |-> todo'[b]]
  /\ \A b \in Peer \ {c} : frame'[b] = frame[b] /\ todo'[b] = todo[b]
Spreading == {"snapshot", "advertise", "peers", "broadcast"}
LEMMA PeerMove ==
  ASSUME PeerInv, NEW c \in Peer, NEW l, l # "none", l \notin {"peers", "broadcast"},
         pc[c] \notin Spreading, pc[c] # "none", Goto(c, l), Elsewhere(c), FrameFits(c)',
         UNCHANGED <<traffic, local_mailboxes, listed, dialled, told>>, is_peer \subseteq is_peer'
  PROVE PeerInv'
  <1>1. /\ \A b \in Peer \ {c} : pc'[b] = pc[b] /\ frame'[b] = frame[b] /\ todo'[b] = todo[b]
        /\ pc'[c] = l
    BY Zenon DEF Goto, Elsewhere, PeerInv, PeerTypes
  <1>2. pc' = [b \in Peer |-> pc'[b]]
    BY Zenon DEF Goto, PeerInv, PeerTypes
  <1>3. \A b \in Conn : b \in Peer /\ (pc'[b] # "none" <=> pc[b] # "none")
    BY Zenon, <1>1 DEF Peer
  <1>4. dialled \subseteq Conn /\ listed \subseteq Conn
    BY Zenon, EvlRouterAssumption DEF PeerInv, PeerTypes
  <1>5. PeerTypes'
    BY Zenon, <1>2, <1>3, <1>4 DEF Elsewhere, PeerInv, PeerTypes
  <1>6. FramesFit'
    <2>1. ASSUME NEW b \in Peer, b # c PROVE FrameFits(b)'
      BY Zenon, <1>1, <2>1 DEF PeerInv, FramesFit, FrameFits
    <2> QED BY Zenon, <2>1 DEF FramesFit
  <1>7. PeersFirst'
    BY Zenon, <1>3 DEF PeerInv, PeersFirst
  <1>8. Deleted'
    BY <1>1 DEF PeerInv, Deleted, Exclusive
  <1>9. WillBeTold'
    <2> SUFFICES ASSUME NEW e \in dialled \cap listed, NEW m \in Exclusive \cap local_mailboxes
                 PROVE m \in told[e] \/ Telling(e, m)'
      BY Zenon DEF WillBeTold, Exclusive
    <2>1. e \in Peer
      BY Zenon, <1>3, <1>4
    <2>2. Telling(e, m) => Telling(e, m)'
      <3>1. ASSUME pc[e] = "snapshot" \/ (pc[e] = "advertise" /\ m \in todo[e]) PROVE Telling(e, m)'
        <4>1. e # c
          BY Zenon, <3>1 DEF Spreading
        <4> QED BY Zenon, <1>1, <2>1, <3>1, <4>1 DEF Telling
      <3>2. ASSUME NEW b \in Peer, frame[b].type = "init", frame[b].mbx = m,
                   pc[b] = "peers" \/ (pc[b] = "broadcast" /\ e \in todo[b])
            PROVE Telling(e, m)'
        <4>1. b # c
          BY Zenon, <3>2 DEF Spreading
        <4> QED BY Zenon, <1>1, <3>2, <4>1 DEF Telling
      <3> QED BY Zenon, <3>1, <3>2 DEF Telling
    <2> QED BY Zenon, <2>2 DEF PeerInv, WillBeTold
  <1> QED BY Zenon, <1>5, <1>6, <1>7, <1>8, <1>9 DEF PeerInv

\* A step that the peers and the threads know nothing of.
LEMMA PeerStill ==
  ASSUME PeerInv, UNCHANGED <<traffic, local_mailboxes, listed, dialled, is_peer, told, pc, frame, todo>>
  PROVE PeerInv'
  <1>1. PeerTypes' /\ PeersFirst'
    BY Zenon DEF PeerInv, PeerTypes, PeersFirst
  <1>2. FramesFit' /\ Deleted'
    BY Zenon DEF PeerInv, FramesFit, FrameFits, Deleted, Exclusive
  <1>3. WillBeTold'
    BY DEF PeerInv, WillBeTold, Telling, Exclusive
  <1> QED BY Zenon, <1>1, <1>2, <1>3 DEF PeerInv

Fits(c, l, f) ==
  /\ f.type \in {"init", "delete"} => <<c, f.mbx>> \in traffic.regs
  /\ l \in {"add", "start", "insert"} => f.type = "init"
  /\ l = "erase" => f.type = "delete"
Settled == UNCHANGED <<traffic, local_mailboxes, listed, dialled, told>> /\ is_peer \subseteq is_peer'
LEMMA PeerWork ==
  ASSUME PeerInv, NEW c \in Peer, NEW l, l \notin {"none", "peers", "broadcast"},
         pc[c] \notin Spreading, pc[c] # "none", NEW f, NEW S, Work(c, l, f, S), Fits(c, l, f), Settled
  PROVE PeerInv'
  <1>1. Goto(c, l) /\ Elsewhere(c) /\ frame'[c] = f
    BY Zenon DEF Work, Elsewhere, PeerInv, PeerTypes
  <1>2. pc'[c] = l
    BY Zenon, <1>1 DEF Goto, PeerInv, PeerTypes
  <1>3. FrameFits(c)'
    BY <1>1, <1>2 DEF FrameFits, Fits, Settled
  <1> QED BY Zenon, <1>1, <1>3, PeerMove DEF Settled
LEMMA PeerGoto ==
  ASSUME PeerInv, NEW c \in Peer, NEW l, l \notin {"none", "peers", "broadcast"},
         pc[c] \notin Spreading, pc[c] # "none", Goto(c, l), UNCHANGED <<frame, todo>>, Settled,
         l \in {"add", "start", "insert"} => frame[c].type = "init",
         l = "erase" => frame[c].type = "delete"
  PROVE PeerInv'
  <1>1. Elsewhere(c)
    BY Zenon DEF Elsewhere, PeerInv, PeerTypes
  <1>2. pc'[c] = l
    BY Zenon DEF Goto, PeerInv, PeerTypes
  <1>3. FrameFits(c)
    BY Zenon DEF PeerInv, FramesFit
  <1>4. FrameFits(c)'
    BY <1>2, <1>3 DEF FrameFits, Settled
  <1> QED BY Zenon, <1>1, <1>4, PeerMove DEF Settled

LEMMA IdleFits == \A c, l : l \notin {"add", "start", "insert", "erase"} => Fits(c, l, Idle)
  BY DEF Fits, Idle, Frame

\* The frames a thread receives
LEMMA PeerReceive ==
  ASSUME OwnInv, PeerInv, NEW c \in Peer, Receive(c)
  PROVE PeerInv'
  <1>1. ASSUME NEW m \in Mailbox, RecvInit(c, m) PROVE PeerInv'
    <2>1. Settled /\ pc[c] = "run" /\ Work(c, "add", Frame("init", m, None), {}) /\ <<c, m>> \in traffic.regs
      BY Zenon, <1>1 DEF RecvInit, Settled, peerVars, deviceVars
    <2>2. Fits(c, "add", Frame("init", m, None))
      BY <2>1 DEF Fits, Frame
    <2> QED BY Zenon, <2>1, <2>2, PeerWork DEF Spreading
  <1>2. ASSUME NEW m \in Mailbox, NEW t, Remove(c, t, m), t = "delete" => <<c, m>> \in traffic.regs,
               t # "init"
        PROVE PeerInv'
    <2>1. /\ Settled /\ pc[c] = "run"
          /\ \/ Work(c, "join", Frame(t, m, None), {})
             \/ t = "delete" /\ Work(c, "erase", Frame(t, m, None), {})
             \/ Work(c, "run", Idle, {})
      BY Zenon, <1>2 DEF Remove, Done, Settled, peerVars, deviceVars
    <2>2. Fits(c, "join", Frame(t, m, None)) /\ (t = "delete" => Fits(c, "erase", Frame(t, m, None)))
      BY <1>2 DEF Fits, Frame
    <2>3. Fits(c, "run", Idle)
      BY Zenon, IdleFits
    <2>4. CASE Work(c, "join", Frame(t, m, None), {})
      BY Zenon, <2>1, <2>2, <2>4, PeerWork DEF Spreading
    <2>5. CASE t = "delete" /\ Work(c, "erase", Frame(t, m, None), {})
      BY Zenon, <2>1, <2>2, <2>5, PeerWork DEF Spreading
    <2>6. CASE Work(c, "run", Idle, {})
      BY Zenon, <2>1, <2>3, <2>6, PeerWork DEF Spreading
    <2> QED BY Zenon, <2>1, <2>4, <2>5, <2>6
  <1>3. ASSUME NEW m \in Mailbox, RecvDelete(c, m) \/ RecvPeerDelete(c, m) PROVE PeerInv'
    BY Zenon, <1>2, <1>3 DEF RecvDelete, RecvPeerDelete
  <1>4. ASSUME NEW m \in Mailbox, RecvPeerRegister(c, m) PROVE PeerInv'
    BY Zenon, <1>4, PeerStill DEF RecvPeerRegister, peerVars, threadVars, deviceVars
  <1>5. ASSUME NEW d \in Data, RecvData(c, d) PROVE PeerInv'
    <2>1. Settled /\ pc[c] = "run"
      BY Zenon, <1>5 DEF RecvData, Settled, peerVars, deviceVars
    <2>2. PICK l, f, S : /\ l \in {"forward", "write", "release", "upstream", "run"} /\ Work(c, l, f, S)
                         /\ f = Frame("data", Dest[d], d) \/ f = Idle
      <3>1. PICK r : r = table[Dest[d]]
        BY Zenon
      <3>2. PICK l : l = CASE r \in Conn -> "forward"
                           [] r \in Xbuf -> IF c \in Conn THEN "write" ELSE "release"
                           [] r = None -> IF c \in Conn \ is_peer THEN "upstream" ELSE "run"
        BY Zenon
      <3>3. PICK f : f = IF l \in {"forward", "write", "upstream"} THEN Frame("data", Dest[d], d) ELSE Idle
        BY Zenon
      <3>4. Work(c, l, f, {r} \cap Conn)
        BY Zenon, <1>5, <3>1, <3>2, <3>3 DEF RecvData
      <3>5. r \in Conn \/ r \in Xbuf \/ r = None
        BY Zenon, <3>1, EvlRouterAssumption DEF OwnInv, OwnTypes
      <3>6. l \in {"forward", "write", "release", "upstream", "run"}
        BY <3>2, <3>5
      <3> QED BY Zenon, <3>3, <3>4, <3>6
    <2>3. Fits(c, l, f)
      <3>1. f.type = "data" \/ f.type = "none"
        BY <2>2 DEF Frame, Idle
      <3> QED BY <3>1, <2>2 DEF Fits
    <2> QED BY <2>1, <2>2, <2>3, PeerWork DEF Spreading
  <1>6. ASSUME NEW d \in Data, Oversized(c, d) PROVE PeerInv'
    <2>1. /\ Settled /\ pc[c] = "run" /\ UNCHANGED <<frame, todo>>
          /\ Goto(c, "exit") \/ Goto(c, "stuck")
      BY Zenon, <1>6 DEF Oversized, Settled, peerVars, deviceVars
    <2> QED BY Zenon, <2>1, PeerGoto DEF Spreading
  <1>7. CASE RecvHello(c)
    <2>1. Settled /\ pc[c] = "run" /\ UNCHANGED <<frame, todo>> /\ Goto(c, "snapshot")
      BY Zenon, <1>7 DEF RecvHello, Settled, deviceVars
    <2> QED BY Zenon, <2>1, PeerGoto DEF Spreading
  <1> QED BY Zenon, <1>1, <1>3, <1>4, <1>5, <1>6, <1>7 DEF Receive

\* The steps of a thread that announce nothing
LEMMA PeerPlain ==
  ASSUME PeerInv, NEW c \in Peer,
         \/ Add(c) \/ StartReader(c) \/ Release(c) \/ Join(c) \/ Forward(c) \/ WriteBody(c)
         \/ ForwardUpstream(c) \/ Disconnect(c)
  PROVE PeerInv'
  <1>1. Settled
    BY Zenon DEF Add, StartReader, Release, Join, Forward, WriteBody, ForwardUpstream, Disconnect, Settled,
                 peerVars, deviceVars
  <1>2. pc[c] \in {"add", "start", "release", "join", "forward", "write", "upstream", "run"}
    BY Zenon DEF Add, StartReader, Release, Join, Forward, WriteBody, ForwardUpstream, Disconnect
  <1>3. pc[c] \notin Spreading /\ pc[c] # "none"
    BY <1>2 DEF Spreading
  <1>4. Fits(c, "run", Idle)
    BY Zenon, IdleFits
  <1>5. CASE Done(c)
    BY Zenon, <1>1, <1>3, <1>4, <1>5, PeerWork DEF Done
  <1>6. ASSUME NEW l \in {"release", "insert", "start", "join", "erase", "exit"}, Goto(c, l),
               UNCHANGED <<frame, todo>>, l \in {"insert", "start"} => pc[c] \in {"add", "start"},
               l = "erase" => frame[c].type = "delete"
        PROVE PeerInv'
    <2>1. l \in {"insert", "start"} => frame[c].type = "init"
      BY Zenon, <1>6 DEF PeerInv, FramesFit, FrameFits
    <2> QED BY Zenon, <1>1, <1>3, <1>6, <2>1, PeerGoto
  <1>7. Add(c) => PeerInv'
    <2>1. Add(c) => /\ pc[c] = "add" /\ UNCHANGED <<frame, todo>>
                    /\ Goto(c, "release") \/ Goto(c, "insert") \/ Goto(c, "start")
      BY DEF Add
    <2> QED BY Zenon, <1>6, <2>1
  <1>8. StartReader(c) => PeerInv'
    BY Zenon, <1>6 DEF StartReader
  <1>9. Release(c) => PeerInv'
    BY Zenon, <1>5, <1>6 DEF Release
  <1>10. Join(c) => PeerInv'
    BY Zenon, <1>5, <1>6 DEF Join
  <1>11. WriteBody(c) \/ Disconnect(c) => PeerInv'
    BY Zenon, <1>6 DEF WriteBody, Disconnect
  <1>12. Forward(c) \/ ForwardUpstream(c) => PeerInv'
    BY Zenon, <1>5 DEF Forward, ForwardUpstream
  <1> QED BY Zenon, <1>7, <1>8, <1>9, <1>10, <1>11, <1>12

\* Connections come: a peer of the start-up before every mailbox
LEMMA PeerConnect ==
  ASSUME PeerInv, NEW c \in Conn, ConnectPeer(c) \/ Accept(c)
  PROVE PeerInv'
  <1>1. PICK k : /\ k \in {"snapshot", "run"} /\ Goto(c, k) /\ UNCHANGED <<traffic, local_mailboxes, listed, told, frame, todo>>
                 /\ c \notin Started /\ Started \subseteq listed /\ is_peer \subseteq is_peer'
                 /\ \/ dialled' = dialled
                    \/ dialled' = dialled \cup {c} /\ c \in Outbound \cap is_peer' /\ Started \subseteq dialled
    BY Zenon DEF ConnectPeer, Accept, peerVars, deviceVars
  <1>2. c \in Peer /\ Conn \subseteq Peer /\ pc[c] = "none" /\ c \notin dialled \cup listed
    BY Zenon, <1>1 DEF Peer, Started, PeerInv, PeerTypes
  <1>3. /\ pc' = [b \in Peer |-> pc'[b]] /\ pc'[c] = k /\ k # "none"
        /\ \A b \in Peer \ {c} : pc'[b] = pc[b]
    BY <1>1, <1>2 DEF Goto, PeerInv, PeerTypes
  <1>4. dialled \subseteq Conn /\ dialled \subseteq listed
    <2>1. dialled \subseteq Conn
      BY Zenon, EvlRouterAssumption DEF PeerInv, PeerTypes
    <2>2. dialled \subseteq Started
      BY Zenon, <2>1 DEF PeerInv, PeerTypes, Started
    <2> QED BY Zenon, <2>1, <2>2, <1>1
  <1>5. PeerTypes'
    BY Zenon, <1>1, <1>2, <1>3, <1>4 DEF PeerInv, PeerTypes
  <1>6. FramesFit' /\ Deleted'
    <2>1. \A b \in Peer : pc'[b] = pc[b] \/ pc'[b] \in {"snapshot", "run"}
      BY Zenon, <1>1, <1>3
    <2>2. FramesFit'
      BY <1>1, <2>1 DEF PeerInv, FramesFit, FrameFits
    <2>3. Deleted'
      BY <1>1, <2>1 DEF PeerInv, Deleted, Exclusive
    <2> QED BY Zenon, <2>2, <2>3
  <1>7. dialled' = dialled \/ (local_mailboxes = {} /\ \A b \in Conn \ dialled' : pc'[b] = "none")
    BY Zenon, <1>1, <1>2, <1>3 DEF PeerInv, PeersFirst, Started
  <1>8. PeersFirst'
    BY Zenon, <1>1, <1>2, <1>3, <1>4, <1>7 DEF PeerInv, PeersFirst
  <1>9. WillBeTold'
    <2> SUFFICES ASSUME NEW e \in dialled' \cap listed', NEW m \in Exclusive \cap local_mailboxes
                 PROVE m \in told[e] \/ Telling(e, m)'
      BY Zenon, <1>1 DEF WillBeTold, Exclusive
    <2>1. e \in dialled \cap listed /\ e # c /\ e \in Peer
      BY Zenon, <1>1, <1>2, <1>4
    <2>2. Telling(e, m) => Telling(e, m)'
      BY <1>1, <1>2, <1>3, <2>1 DEF Telling
    <2> QED BY Zenon, <2>1, <2>2 DEF PeerInv, WillBeTold
  <1> QED BY Zenon, <1>5, <1>6, <1>8, <1>9 DEF PeerInv
LEMMA PeerList ==
  ASSUME PeerInv, NEW c \in Conn, List(c)
  PROVE PeerInv'
  <1>1. /\ UNCHANGED <<traffic, local_mailboxes, dialled, is_peer, told, pc, frame, todo>>
        /\ pc[c] # "none" /\ c \notin listed /\ listed' = listed \cup {c}
    BY Zenon DEF List, threadVars, deviceVars
  <1>2. PeerTypes' /\ PeersFirst'
    BY Zenon, <1>1 DEF PeerInv, PeerTypes, PeersFirst
  <1>3. FramesFit' /\ Deleted'
    BY Zenon, <1>1 DEF PeerInv, FramesFit, FrameFits, Deleted, Exclusive
  <1>4. WillBeTold'
    <2> SUFFICES ASSUME NEW e \in dialled \cap listed', NEW m \in Exclusive \cap local_mailboxes
                 PROVE m \in told[e] \/ Telling(e, m)'
      BY Zenon, <1>1 DEF WillBeTold, Exclusive
    <2>1. e \in listed
      BY Zenon DEF PeerInv, PeersFirst
    <2>2. Telling(e, m) => Telling(e, m)'
      BY <1>1 DEF Telling
    <2> QED BY Zenon, <2>1, <2>2 DEF PeerInv, WillBeTold
  <1> QED BY Zenon, <1>2, <1>3, <1>4 DEF PeerInv

\* on_local_registered(), on_local_deleted(): the set
LEMMA PeerUpdateLocal ==
  ASSUME ClientsRegister, PeerInv, NEW c \in Peer, UpdateLocal(c)
  PROVE PeerInv'
  <1>1. /\ pc[c] \in {"insert", "erase"} /\ Goto(c, "peers")
        /\ UNCHANGED <<traffic, listed, is_peer, dialled, told, frame, todo>>
    BY Zenon DEF UpdateLocal, deviceVars
  <1>2. PICK k : k = frame[c].mbx
    BY Zenon
  <1>3. /\ <<c, k>> \in traffic.regs
        /\ \/ pc[c] = "insert" /\ frame[c].type = "init" /\ local_mailboxes' = local_mailboxes \cup {k}
           \/ pc[c] = "erase" /\ frame[c].type = "delete" /\ local_mailboxes' = local_mailboxes \ {k}
    <2>1. FrameFits(c)
      BY Zenon DEF PeerInv, FramesFit
    <2> QED BY <1>1, <1>2, <2>1 DEF UpdateLocal, FrameFits
  <1>4. c \in Conn /\ k \in Mailbox /\ c \notin Links
    <2>1. traffic \in Traffic /\ traffic.regs \subseteq Conn \X Mailbox
      BY EvlRouterAssumption DEF PeerInv, PeerTypes
    <2>2. c \in Conn /\ k \in Mailbox
      BY <1>3, <2>1
    <2> QED BY Zenon, <1>3, <2>1, <2>2 DEF ClientsRegister
  <1>5. c \notin dialled
    BY Zenon, <1>4, EvlRouterAssumption DEF PeerInv, PeerTypes
  <1>6. /\ pc' = [b \in Peer |-> pc'[b]] /\ pc'[c] = "peers" /\ \A b \in Peer \ {c} : pc'[b] = pc[b]
    BY Zenon, <1>1 DEF Goto, PeerInv, PeerTypes
  <1>7. Conn \subseteq Peer /\ dialled \subseteq Conn /\ listed \subseteq Conn /\ pc[c] # "none"
    BY Zenon, <1>1, EvlRouterAssumption DEF PeerInv, PeerTypes, Peer
  <1>8. PeerTypes'
    BY Zenon, <1>1, <1>6, <1>7 DEF PeerInv, PeerTypes
  <1>9. FramesFit'
    BY <1>1, <1>3, <1>6 DEF PeerInv, FramesFit, FrameFits
  <1>10. PeersFirst'
    BY Zenon, <1>1, <1>4, <1>5, <1>6, <1>7 DEF PeerInv, PeersFirst
  <1>11. \A m \in Exclusive : m = k => \A b \in Conn : <<b, m>> \in traffic.regs => b = c
    BY Zenon, <1>3, <1>4 DEF Exclusive
  <1>12. Exclusive' = Exclusive
    BY Zenon, <1>1 DEF Exclusive
  <1>13. Deleted'
    <2> SUFFICES ASSUME NEW b \in Peer, pc'[b] \in {"peers", "broadcast"}, frame[b].type = "delete",
                        frame[b].mbx \in Exclusive, frame[b].mbx \in local_mailboxes'
                 PROVE FALSE
      BY Zenon, <1>1, <1>12 DEF Deleted
    <2>1. CASE b = c
      BY Zenon, <2>1, <1>2, <1>3
    <2>2. CASE b # c
      <3>1. frame[b].mbx \notin local_mailboxes
        BY Zenon, <2>2, <1>6 DEF PeerInv, Deleted
      <3>2. frame[b].mbx = k
        BY Zenon, <3>1, <1>3
      <3>3. <<b, k>> \in traffic.regs
        BY Zenon, <3>2 DEF PeerInv, FramesFit, FrameFits
      <3>4. b \in Conn
        BY <3>3, EvlRouterAssumption DEF PeerInv, PeerTypes
      <3> QED BY Zenon, <2>2, <3>2, <3>3, <3>4, <1>11
    <2> QED BY Zenon, <2>1, <2>2
  <1>14. WillBeTold'
    <2> SUFFICES ASSUME NEW e \in dialled \cap listed, NEW m \in Exclusive \cap local_mailboxes'
                 PROVE m \in told[e] \/ Telling(e, m)'
      BY Zenon, <1>1, <1>12 DEF WillBeTold
    <2>1. CASE m \notin local_mailboxes
      <3>1. m = k /\ frame[c].type = "init"
        BY Zenon, <2>1, <1>3
      <3> QED BY Zenon, <3>1, <1>1, <1>2, <1>6 DEF Telling
    <2>2. CASE m \in local_mailboxes
      <3>1. Telling(e, m) => Telling(e, m)'
        BY <1>1, <1>5, <1>6, <1>7 DEF Telling
      <3> QED BY Zenon, <2>2, <3>1 DEF PeerInv, WillBeTold
    <2> QED BY Zenon, <2>1, <2>2
  <1> QED BY Zenon, <1>8, <1>9, <1>10, <1>13, <1>14 DEF PeerInv

\* What a step of an announcing thread leaves alone
LEMMA PeerSpread ==
  ASSUME PeerInv, NEW c \in Peer, NEW l, NEW f, NEW S, Work(c, l, f, S), pc[c] # "none", l # "none",
         f = frame[c] \/ (f = Idle /\ l \in {"run", "advertise"}),
         l \in {"run", "advertise", "release"} \/ (l = "broadcast" /\ pc[c] \in {"peers", "broadcast"}),
         UNCHANGED <<traffic, local_mailboxes, listed, is_peer, dialled>>, told' = [e \in Conn |-> told'[e]]
  PROVE /\ PeerTypes' /\ FramesFit' /\ PeersFirst' /\ Deleted'
        /\ \A b \in Peer \ {c} : pc'[b] = pc[b] /\ frame'[b] = frame[b] /\ todo'[b] = todo[b]
        /\ pc'[c] = l /\ frame'[c] = f /\ todo'[c] = S
  <1>1. /\ \A b \in Peer \ {c} : pc'[b] = pc[b] /\ frame'[b] = frame[b] /\ todo'[b] = todo[b]
        /\ pc'[c] = l /\ frame'[c] = f /\ todo'[c] = S
    BY Zenon DEF Work, Goto, PeerInv, PeerTypes
  <1>2. /\ pc' = [b \in Peer |-> pc'[b]] /\ frame' = [b \in Peer |-> frame'[b]]
        /\ todo' = [b \in Peer |-> todo'[b]]
    BY Zenon DEF Work, Goto, PeerInv, PeerTypes
  <1>3. dialled \subseteq Peer /\ listed \subseteq Peer /\ Conn \subseteq Peer
    BY Zenon, EvlRouterAssumption DEF PeerInv, PeerTypes, Peer
  <1>4. PeerTypes'
    BY Zenon, <1>1, <1>2, <1>3 DEF PeerInv, PeerTypes
  <1>5. PeersFirst'
    BY Zenon, <1>1, <1>3 DEF PeerInv, PeersFirst
  <1>6. Idle.type = "none"
    BY DEF Idle, Frame
  <1>7. FramesFit'
    <2>1. ASSUME NEW b \in Peer, b # c PROVE FrameFits(b)'
      BY Zenon, <1>1, <2>1 DEF PeerInv, FramesFit, FrameFits
    <2>2. FrameFits(c)
      BY Zenon DEF PeerInv, FramesFit
    <2>3. FrameFits(c)'
      BY <1>1, <1>6, <2>2 DEF FrameFits
    <2> QED BY Zenon, <2>1, <2>3 DEF FramesFit
  <1>8. Deleted'
    BY <1>1, <1>6 DEF PeerInv, Deleted, Exclusive
  <1> QED BY Zenon, <1>1, <1>4, <1>5, <1>7, <1>8

\* broadcast_to_peers(): the peers of the start-up are among those of the snapshot
LEMMA PeerSnapshot ==
  ASSUME PeerInv, NEW c \in Peer, PeersSnapshot(c)
  PROVE PeerInv'
  <1>1. /\ pc[c] = "peers" /\ UNCHANGED <<traffic, local_mailboxes, listed, is_peer, dialled, told>>
        /\ Work(c, IF listed \cap is_peer = {} THEN "release" ELSE "broadcast", frame[c], listed \cap is_peer)
    BY Zenon DEF PeersSnapshot, peerVars, deviceVars
  <1>2. PICK l : /\ l = (IF listed \cap is_peer = {} THEN "release" ELSE "broadcast")
                 /\ Work(c, l, frame[c], listed \cap is_peer) /\ l \in {"release", "broadcast"}
    BY Zenon, <1>1
  <1>3. told' = [e \in Conn |-> told'[e]]
    BY Zenon, <1>1 DEF PeerInv, PeerTypes
  <1>4. /\ PeerTypes' /\ FramesFit' /\ PeersFirst' /\ Deleted'
        /\ \A b \in Peer \ {c} : pc'[b] = pc[b] /\ frame'[b] = frame[b] /\ todo'[b] = todo[b]
        /\ pc'[c] = l /\ frame'[c] = frame[c] /\ todo'[c] = listed \cap is_peer
    BY <1>1, <1>2, <1>3, PeerSpread
  <1>5. WillBeTold'
    <2> SUFFICES ASSUME NEW e \in dialled \cap listed, NEW m \in Exclusive \cap local_mailboxes
                 PROVE m \in told[e] \/ Telling(e, m)'
      BY Zenon, <1>1 DEF WillBeTold, Exclusive
    <2>1. e \in Peer /\ e \in listed \cap is_peer
      BY Zenon, EvlRouterAssumption DEF PeerInv, PeerTypes, Peer
    <2>2. l = "broadcast"
      BY Zenon, <1>2, <2>1
    <2>3. Telling(e, m) => Telling(e, m)'
      <3>1. ASSUME pc[e] = "snapshot" \/ (pc[e] = "advertise" /\ m \in todo[e]) PROVE Telling(e, m)'
        <4>1. e # c
          BY Zenon, <3>1, <1>1
        <4> QED BY Zenon, <1>4, <2>1, <3>1, <4>1 DEF Telling
      <3>2. ASSUME NEW b \in Peer, frame[b].type = "init", frame[b].mbx = m,
                   pc[b] = "peers" \/ (pc[b] = "broadcast" /\ e \in todo[b])
            PROVE Telling(e, m)'
        <4>1. CASE b # c
          BY Zenon, <1>4, <3>2, <4>1 DEF Telling
        <4>2. CASE b = c
          BY Zenon, <1>4, <2>1, <2>2, <3>2, <4>2 DEF Telling
        <4> QED BY Zenon, <4>1, <4>2
      <3> QED BY Zenon, <3>1, <3>2 DEF Telling
    <2> QED BY Zenon, <2>3 DEF PeerInv, WillBeTold
  <1> QED BY Zenon, <1>4, <1>5 DEF PeerInv

\* broadcast_to_peers(): one peer
LEMMA PeerBroadcast ==
  ASSUME PeerInv, NEW c \in Peer, Broadcast(c)
  PROVE PeerInv'
  <1>1. PICK p \in todo[c] :
           /\ told' = [told EXCEPT ![p] = IF frame[c].type = "init" THEN @ \cup {frame[c].mbx}
                                          ELSE @ \ {frame[c].mbx}]
           /\ Work(c, IF todo[c] = {p} THEN "release" ELSE "broadcast", frame[c], todo[c] \ {p})
    BY Zenon DEF Broadcast
  <1>2. pc[c] = "broadcast" /\ UNCHANGED <<traffic, local_mailboxes, listed, is_peer, dialled>>
    BY Zenon DEF Broadcast, deviceVars
  <1>3. PICK l : /\ l = (IF todo[c] = {p} THEN "release" ELSE "broadcast")
                 /\ Work(c, l, frame[c], todo[c] \ {p}) /\ l \in {"release", "broadcast"}
    BY Zenon, <1>1
  <1>4. told = [e \in Conn |-> told[e]]
    BY Zenon DEF PeerInv, PeerTypes
  <1>5. PICK v : v = (IF frame[c].type = "init" THEN told[p] \cup {frame[c].mbx} ELSE told[p] \ {frame[c].mbx})
    BY Zenon
  <1>6. told' = [told EXCEPT ![p] = v]
    BY Zenon, <1>1, <1>5
  <1>7. /\ told' = [e \in Conn |-> told'[e]]
        /\ \A e \in Conn : told'[e] = IF e = p THEN v ELSE told[e]
    BY Zenon, <1>4, <1>6
  <1>8. /\ PeerTypes' /\ FramesFit' /\ PeersFirst' /\ Deleted'
        /\ \A b \in Peer \ {c} : pc'[b] = pc[b] /\ frame'[b] = frame[b] /\ todo'[b] = todo[b]
        /\ pc'[c] = l /\ frame'[c] = frame[c] /\ todo'[c] = todo[c] \ {p}
    BY <1>2, <1>3, <1>7, PeerSpread
  <1>9. WillBeTold'
    <2> SUFFICES ASSUME NEW e \in dialled \cap listed, NEW m \in Exclusive \cap local_mailboxes
                 PROVE m \in told'[e] \/ Telling(e, m)'
      BY Zenon, <1>2 DEF WillBeTold, Exclusive
    <2>1. e \in Peer /\ e \in Conn
      BY Zenon, EvlRouterAssumption DEF PeerInv, PeerTypes, Peer
    <2>2. frame[c].type # "init" => frame[c].type = "delete" /\ frame[c].mbx # m
      <3>1. frame[c].type \in {"init", "delete"}
        BY Zenon, <1>2 DEF PeerInv, FramesFit, FrameFits
      <3>2. frame[c].type = "delete" => frame[c].mbx \notin Exclusive \cap local_mailboxes
        BY Zenon, <1>2 DEF PeerInv, Deleted
      <3> QED BY Zenon, <3>1, <3>2
    <2>3. m \in told[e] => m \in told'[e]
      BY <1>5, <1>7, <2>1, <2>2
    <2>4. ASSUME pc[e] = "snapshot" \/ (pc[e] = "advertise" /\ m \in todo[e]) PROVE Telling(e, m)'
      <3>1. e # c
        BY Zenon, <2>4, <1>2
      <3> QED BY Zenon, <1>8, <2>1, <2>4, <3>1 DEF Telling
    <2>5. ASSUME NEW b \in Peer, frame[b].type = "init", frame[b].mbx = m,
                 pc[b] = "peers" \/ (pc[b] = "broadcast" /\ e \in todo[b])
          PROVE m \in told'[e] \/ Telling(e, m)'
      <3>1. CASE b # c
        BY Zenon, <1>8, <2>5, <3>1 DEF Telling
      <3>2. CASE b = c /\ e = p
        BY Zenon, <1>5, <1>7, <2>1, <2>5, <3>2
      <3>3. CASE b = c /\ e # p
        <4>1. e \in todo[c]
          BY Zenon, <1>2, <2>5, <3>3
        <4>2. l = "broadcast" /\ e \in todo'[c]
          BY Zenon, <1>3, <1>8, <3>3, <4>1
        <4> QED BY Zenon, <1>8, <2>5, <3>3, <4>2 DEF Telling
      <3> QED BY Zenon, <3>1, <3>2, <3>3
    <2>6. \/ m \in told[e] \/ pc[e] = "snapshot" \/ (pc[e] = "advertise" /\ m \in todo[e])
         \/ \E b \in Peer : /\ frame[b].type = "init" /\ frame[b].mbx = m
                            /\ pc[b] = "peers" \/ (pc[b] = "broadcast" /\ e \in todo[b])
      BY Zenon DEF PeerInv, WillBeTold, Telling
    <2> QED BY Zenon, <2>3, <2>4, <2>5, <2>6
  <1> QED BY Zenon, <1>8, <1>9 DEF PeerInv

\* send_advertisements(): the snapshot of the local mailboxes
LEMMA PeerLocalSnapshot ==
  ASSUME PeerInv, NEW c \in Peer, local_mailboxes_snapshot(c)
  PROVE PeerInv'
  <1>1. /\ pc[c] = "snapshot" /\ UNCHANGED <<traffic, local_mailboxes, listed, is_peer, dialled, told>>
        /\ Work(c, IF local_mailboxes = {} THEN "run" ELSE "advertise", Idle, local_mailboxes)
    BY Zenon DEF local_mailboxes_snapshot, peerVars, deviceVars
  <1>2. PICK l : /\ l = (IF local_mailboxes = {} THEN "run" ELSE "advertise")
                 /\ Work(c, l, Idle, local_mailboxes) /\ l \in {"run", "advertise"}
    BY Zenon, <1>1
  <1>3. told' = [e \in Conn |-> told'[e]]
    BY Zenon, <1>1 DEF PeerInv, PeerTypes
  <1>4. PICK f : f = Idle
    BY Zenon
  <1>5. /\ PeerTypes' /\ FramesFit' /\ PeersFirst' /\ Deleted'
        /\ \A b \in Peer \ {c} : pc'[b] = pc[b] /\ frame'[b] = frame[b] /\ todo'[b] = todo[b]
        /\ pc'[c] = l /\ frame'[c] = f /\ todo'[c] = local_mailboxes
    BY <1>1, <1>2, <1>3, <1>4, PeerSpread
  <1>6. WillBeTold'
    <2> SUFFICES ASSUME NEW e \in dialled \cap listed, NEW m \in Exclusive \cap local_mailboxes
                 PROVE m \in told[e] \/ Telling(e, m)'
      BY Zenon, <1>1 DEF WillBeTold, Exclusive
    <2>1. e \in Peer
      BY Zenon, EvlRouterAssumption DEF PeerInv, PeerTypes, Peer
    <2>2. CASE e = c
      BY Zenon, <1>2, <1>5, <2>2 DEF Telling
    <2>3. CASE e # c
      <3>1. \A b \in Peer : pc[b] \in {"peers", "broadcast"} => b # c
        BY Zenon, <1>1
      <3>2. Telling(e, m) => Telling(e, m)'
        BY <1>5, <2>1, <2>3, <3>1 DEF Telling
      <3> QED BY Zenon, <3>2 DEF PeerInv, WillBeTold
    <2> QED BY Zenon, <2>2, <2>3
  <1> QED BY Zenon, <1>5, <1>6 DEF PeerInv

\* send_advertisements(): one mailbox
LEMMA PeerAdvertise ==
  ASSUME PeerInv, NEW c \in Peer, Advertise(c)
  PROVE PeerInv'
  <1>1. PICK k \in todo[c] :
           /\ told' = [told EXCEPT ![c] = @ \cup {k}]
           /\ Work(c, IF todo[c] = {k} THEN "run" ELSE "advertise", Idle, todo[c] \ {k})
    BY Zenon DEF Advertise
  <1>2. pc[c] = "advertise" /\ UNCHANGED <<traffic, local_mailboxes, listed, is_peer, dialled>>
    BY Zenon DEF Advertise, deviceVars
  <1>3. PICK l : /\ l = (IF todo[c] = {k} THEN "run" ELSE "advertise")
                 /\ Work(c, l, Idle, todo[c] \ {k}) /\ l \in {"run", "advertise"}
    BY Zenon, <1>1
  <1>4. told = [e \in Conn |-> told[e]]
    BY Zenon DEF PeerInv, PeerTypes
  <1>5. /\ told' = [e \in Conn |-> told'[e]]
        /\ \A e \in Conn : told'[e] = IF e = c THEN told[e] \cup {k} ELSE told[e]
    BY Zenon, <1>1, <1>4
  <1>6. PICK f : f = Idle
    BY Zenon
  <1>7. /\ PeerTypes' /\ FramesFit' /\ PeersFirst' /\ Deleted'
        /\ \A b \in Peer \ {c} : pc'[b] = pc[b] /\ frame'[b] = frame[b] /\ todo'[b] = todo[b]
        /\ pc'[c] = l /\ frame'[c] = f /\ todo'[c] = todo[c] \ {k}
    BY <1>2, <1>3, <1>5, <1>6, PeerSpread
  <1>8. WillBeTold'
    <2> SUFFICES ASSUME NEW e \in dialled \cap listed, NEW m \in Exclusive \cap local_mailboxes
                 PROVE m \in told'[e] \/ Telling(e, m)'
      BY Zenon, <1>2 DEF WillBeTold, Exclusive
    <2>1. e \in Peer /\ e \in Conn
      BY Zenon, EvlRouterAssumption DEF PeerInv, PeerTypes, Peer
    <2>2. m \in told[e] => m \in told'[e]
      BY <1>5, <2>1
    <2>3. ASSUME pc[e] = "snapshot" PROVE Telling(e, m)'
      <3>1. e # c
        BY Zenon, <2>3, <1>2
      <3> QED BY Zenon, <1>7, <2>1, <2>3, <3>1 DEF Telling
    <2>4. ASSUME pc[e] = "advertise", m \in todo[e] PROVE m \in told'[e] \/ Telling(e, m)'
      <3>1. CASE e # c
        BY Zenon, <1>7, <2>1, <2>4, <3>1 DEF Telling
      <3>2. CASE e = c /\ m = k
        BY <1>5, <2>1, <3>2
      <3>3. CASE e = c /\ m # k
        BY Zenon, <1>3, <1>7, <2>4, <3>3 DEF Telling
      <3> QED BY Zenon, <3>1, <3>2, <3>3
    <2>5. ASSUME NEW b \in Peer, frame[b].type = "init", frame[b].mbx = m,
                 pc[b] = "peers" \/ (pc[b] = "broadcast" /\ e \in todo[b])
          PROVE Telling(e, m)'
      <3>1. b # c
        BY Zenon, <2>5, <1>2
      <3> QED BY Zenon, <1>7, <2>5, <3>1 DEF Telling
    <2>6. \/ m \in told[e] \/ pc[e] = "snapshot" \/ (pc[e] = "advertise" /\ m \in todo[e])
         \/ \E b \in Peer : /\ frame[b].type = "init" /\ frame[b].mbx = m
                            /\ pc[b] = "peers" \/ (pc[b] = "broadcast" /\ e \in todo[b])
      BY Zenon DEF PeerInv, WillBeTold, Telling
    <2> QED BY Zenon, <2>2, <2>3, <2>4, <2>5, <2>6
  <1> QED BY Zenon, <1>7, <1>8 DEF PeerInv

LEMMA PeerNext == ClientsRegister /\ OwnInv /\ PeerInv /\ [Next]_vars => PeerInv'
  <1> SUFFICES ASSUME ClientsRegister, OwnInv, PeerInv, [Next]_vars PROVE PeerInv'
    BY Zenon
  <1> DEFINE Quiet == UNCHANGED <<traffic, local_mailboxes, listed, dialled, is_peer, told, pc, frame, todo>>
  <1>1. CASE UNCHANGED vars
    <2>1. Quiet
      BY Zenon, <1>1 DEF vars, peerVars, threadVars, deviceVars
    <2> QED BY Zenon, <2>1, PeerStill
  <1>2. CASE \E c \in Conn : ConnectPeer(c) \/ Accept(c) \/ List(c)
    BY Zenon, <1>2, PeerConnect, PeerList
  <1>3. ASSUME NEW c \in Peer, Close(c) PROVE PeerInv'
    <2>1. Quiet
      BY Zenon, <1>3 DEF Close, peerVars, threadVars, deviceVars
    <2> QED BY Zenon, <2>1, PeerStill
  <1>4. ASSUME NEW c \in Peer, Work_on(c) PROVE PeerInv'
    BY Zenon, <1>4, PeerPlain, PeerUpdateLocal, PeerSnapshot, PeerBroadcast, PeerLocalSnapshot,
       PeerAdvertise DEF Work_on
  <1>5. ASSUME NEW x \in Xbuf, ReaderStep(x) PROVE PeerInv'
    <2>1. Quiet
      BY Zenon, <1>5 DEF ReaderStep, ReaderRead, ReaderFind, ReaderForward, ReaderDrop,
         ReaderJoin, ReaderExit, peerVars, threadVars, deviceVars
    <2> QED BY Zenon, <2>1, PeerStill
  <1>6. ASSUME NEW m \in Evl, Evl_process(m) PROVE PeerInv'
    <2>1. Quiet
      BY Zenon, <1>6 DEF Evl_process, EvlReceive, EvlExit, peerVars, threadVars, deviceVars
    <2> QED BY Zenon, <2>1, PeerStill
  <1>7. ASSUME NEW d \in Data, EvlSend(d) PROVE PeerInv'
    <2>1. Quiet
      BY Zenon, <1>7 DEF EvlSend, peerVars, threadVars, deviceVars
    <2> QED BY Zenon, <2>1, PeerStill
  <1> HIDE DEF Quiet
  <1> QED BY Zenon, <1>1, <1>2, <1>3, <1>4, <1>5, <1>6, <1>7, PeerReceive DEF Next

\* A router dialled at start-up has been told of every registered mailbox that
\* one client registers and deletes, or a thread is about to tell it, when no
\* other router sends a registration or a deletion (it sends PEER_REGISTER and
\* PEER_DELETE instead).
THEOREM RouterPeersTold == ClientsRegister => (Spec => []PeersTold)
  <1> SUFFICES ASSUME ClientsRegister PROVE Spec => []PeersTold
    BY Zenon
  <1>1. PeerInv => PeersTold
    <2> SUFFICES ASSUME PeerInv, NEW e \in dialled \cap listed, NEW m \in Exclusive \cap local_mailboxes,
                        Telling(e, m)
                 PROVE Announcing(m)
      BY Zenon DEF PeerInv, WillBeTold, PeersTold
    <2>1. e \in Peer
      BY Zenon, EvlRouterAssumption DEF PeerInv, PeerTypes, Peer
    <2> QED BY <2>1 DEF Telling, Announcing
  <1>2. OwnInv /\ PeerInv /\ [Next]_vars => PeerInv'
    BY Zenon, PeerNext
  <1> QED BY <1>1, <1>2, PeerInit, OwnHolds, PTL DEF Spec
=============================================================================
