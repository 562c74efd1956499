----------------------------- MODULE EvlRouter -----------------------------
(***************************************************************************)
(* One corerat-router-evl daemon (src/router/evl_router.cpp): TCP          *)
(* connections, each with a thread; xbuf devices of EVL mailboxes, each    *)
(* registered one with an XbufEntry and a reader thread; routers upstream. *)
(* The registry's shared_mutex is modelled where it matters: remove()      *)
(* holds it while it destroys, and so joins, the reader of an XbufEntry    *)
(* whose last reference it drops.  All other uses of it are single steps   *)
(* that wait until it is free.  Frames are taken from small sets: what a   *)
(* client or peer may send is given by the constants.                      *)
(***************************************************************************)
EXTENDS Integers, Sequences, FiniteSets

CONSTANTS
  Conn,      \* TCP connections: clients, and other routers once they say HELLO
  Uplink,    \* upstream and system-route connections
  Xbuf,      \* XbufEntry objects that may exist at a time
  Mailbox, Data,
  Evl,       \* mailboxes of EVL processes, which have an xbuf device
  Traffic,   \* scenarios [conns, regs, data, evl]: the connections made, the <<c, m>>
             \* such that client c registers and deletes mailbox m, the messages sent,
             \* the EVL processes running
  Links,     \* connections whose other side is a router
  Outbound,  \* those of them on the --peer list
  Remote,    \* mailboxes registered at those routers
  Src,       \* connection, uplink or EVL mailbox that sends each message
  Dest,      \* mailbox it is for
  Route,     \* uplink selected for a mailbox by its system id, or None
  Big,       \* messages longer than --max-msg-size
  RingSize,  \* messages an xbuf holds per direction
  None

Peer == Conn \cup Uplink    \* whatever has a socket and a thread

ASSUME EvlRouterAssumption ==
  /\ Conn \cap Uplink = {} /\ Xbuf \cap Peer = {} /\ Mailbox \cap Peer = {}
  /\ None \notin Peer \cup Xbuf \cup Mailbox \cup Data
  /\ Evl \subseteq Mailbox /\ Links \subseteq Conn
  /\ Traffic \subseteq [conns : SUBSET Conn, regs : SUBSET (Conn \X Mailbox), data : SUBSET Data,
                         evl : SUBSET Evl]
  /\ Outbound \subseteq Links
  /\ Src \in [Data -> Peer \cup Evl] /\ Dest \in [Data -> Mailbox]
  /\ Route \in [Mailbox -> Uplink \cup {None}]
  /\ RingSize \in Nat

VARIABLES
  traffic,          \* the scenario, which does not change
  table,            \* MailboxRegistry: mailbox -> connection, XbufEntry or None
  owner,            \* thread that joins a reader under the registry lock, or None
  local_mailboxes,
  open,             \* connections and uplinks whose socket is open
  listed, is_peer,  \* connections in connections_, connections in peer mode
  dialled,          \* links that connect_to_peers() has opened
  told,             \* mailboxes each peer has been told of and not told to forget
  pc, frame, todo,  \* of each thread: label, frame in hand, what its loop visits
  held,             \* the shared_ptr<XbufEntry> a thread holds
  mbx,              \* mailbox of each XbufEntry
  fd,               \* XbufEntry objects whose descriptor is open
  rpc, rmsg, rdest, \* reader thread of each: label, message, connection or XbufEntry found
  device,           \* EVL mailboxes whose process and xbuf exist
  inbound, outbound,\* the two rings of each xbuf: to and from the EVL mailbox
  fate              \* history: what has become of each message

regVars == <<table, owner>>
peerVars == <<local_mailboxes, listed, is_peer, dialled, told>>
threadVars == <<pc, frame, todo>>
xbufVars == <<mbx, fd>>
readerVars == <<rpc, rmsg, rdest>>
deviceVars == <<traffic, device, inbound, outbound>>
vars == <<regVars, peerVars, open, threadVars, held, xbufVars, readerVars, deviceVars, fate>>

Frame(t, m, d) == [type |-> t, mbx |-> m, data |-> d]
Idle == Frame("none", None, None)

Init ==
  /\ traffic \in Traffic /\ device = traffic.evl
  /\ table = [m \in Mailbox |-> None] /\ owner = None
  /\ local_mailboxes = {} /\ open = Uplink /\ listed = {} /\ is_peer = {} /\ dialled = {}
  /\ told = [c \in Conn |-> {}]
  /\ pc = [c \in Peer |-> IF c \in Uplink THEN "run" ELSE "none"]
  /\ frame = [c \in Peer |-> Idle] /\ todo = [c \in Peer |-> {}]
  /\ held = [c \in Peer |-> None]
  /\ mbx = [x \in Xbuf |-> None] /\ fd = {}
  /\ rpc = [x \in Xbuf |-> "free"] /\ rmsg = [x \in Xbuf |-> None]
  /\ rdest = [x \in Xbuf |-> None]
  /\ inbound = [m \in Evl |-> <<>>] /\ outbound = [m \in Evl |-> <<>>]
  /\ fate = [d \in Data |-> "unsent"]

Goto(c, l) == pc' = [pc EXCEPT ![c] = l]
Work(c, l, f, s) ==
  /\ Goto(c, l)
  /\ frame' = [frame EXCEPT ![c] = f]
  /\ todo' = [todo EXCEPT ![c] = s]
Done(c) == Work(c, "run", Idle, {})    \* handle_frame() returns
Settle(d, f) == fate' = [fate EXCEPT ![d] = f]
Lose(D) == fate' = [d \in Data |-> IF d \in D THEN "lost" ELSE fate[d]]
Within(q) == {q[i] : i \in 1 .. Len(q)}

\* Threads that hold a shared_ptr to x; whether it has owners besides thread t
Holders(x) == {c \in Peer : held[c] = x} \cup {y \in Xbuf : rdest[y] = x}
Shared(x, t) == (\E m \in Mailbox : table[m] = x) \/ Holders(x) \ {t} # {}

-----------------------------------------------------------------------------
(* EvlRouter::run, and the sockets' other sides.                           *)

Started == {c \in Conn : pc[c] # "none"}

\* connect_to_peers(), before the accept loop: the thread, then connections_
ConnectPeer(c) ==
  /\ c \in (traffic.conns \cap Outbound) \ Started /\ Started \subseteq listed \cap dialled
  /\ open' = open \cup {c}
  /\ is_peer' = is_peer \cup {c}
  /\ dialled' = dialled \cup {c}
  /\ Goto(c, "snapshot")
  /\ UNCHANGED <<regVars, local_mailboxes, listed, told, frame, todo, held, xbufVars, readerVars,
                 deviceVars, fate>>

\* accept(), of a link too when this router could not open it or the other
\* one did: again the thread starts before the connection is listed
Accept(c) ==
  /\ c \in traffic.conns \ Started /\ Started \subseteq listed
  /\ open' = open \cup {c}
  /\ Goto(c, "run")
  /\ UNCHANGED <<regVars, peerVars, frame, todo, held, xbufVars, readerVars, deviceVars, fate>>

List(c) ==
  /\ pc[c] # "none" /\ c \notin listed
  /\ listed' = listed \cup {c}
  /\ UNCHANGED <<regVars, local_mailboxes, is_peer, dialled, told, open, threadVars, held, xbufVars,
                 readerVars, deviceVars, fate>>

\* The other side closes, or the line breaks
Close(c) ==
  /\ c \in open
  /\ open' = open \ {c}
  /\ UNCHANGED <<regVars, peerVars, threadVars, held, xbufVars, readerVars, deviceVars, fate>>

-----------------------------------------------------------------------------
(* The EVL processes: external to the router.                              *)

\* oob_write() on the xbuf (send_raw() without a remote handle)
EvlSend(d) ==
  /\ d \in traffic.data /\ fate[d] = "unsent" /\ Src[d] \in device
  /\ Len(outbound[Src[d]]) < RingSize
  /\ outbound' = [outbound EXCEPT ![Src[d]] = Append(@, d)]
  /\ Settle(d, "routing")
  /\ UNCHANGED <<regVars, peerVars, open, threadVars, held, xbufVars, readerVars, traffic, device, inbound>>

\* oob_read() in receive_impl()
EvlReceive(m) ==
  /\ m \in device /\ inbound[m] # <<>>
  /\ inbound' = [inbound EXCEPT ![m] = Tail(@)]
  /\ Settle(Head(inbound[m]), "delivered")
  /\ UNCHANGED <<regVars, peerVars, open, threadVars, held, xbufVars, readerVars, traffic, device, outbound>>

\* The process ends; what it has not read is lost
EvlExit(m) ==
  /\ m \in device
  /\ device' = device \ {m}
  /\ inbound' = [inbound EXCEPT ![m] = <<>>]
  /\ Lose(Within(inbound[m]))
  /\ UNCHANGED <<regVars, peerVars, open, threadVars, held, xbufVars, readerVars, traffic, outbound>>

-----------------------------------------------------------------------------
(* XbufEntry::run_reader, the thread that carries EVL messages to TCP.     *)

\* poll() and read() of the open descriptor
ReaderRead(x) ==
  /\ rpc[x] = "poll" /\ x \in fd /\ outbound[mbx[x]] # <<>>
  /\ outbound' = [outbound EXCEPT ![mbx[x]] = Tail(@)]
  /\ rmsg' = [rmsg EXCEPT ![x] = Head(outbound[mbx[x]])]
  /\ rpc' = [rpc EXCEPT ![x] = "find"]
  /\ UNCHANGED <<regVars, peerVars, open, threadVars, held, xbufVars, rdest, traffic, device, inbound, fate>>

\* registry_.find() under the shared lock: only connections are served, but an
\* XbufEntry that is found is held to the end of the iteration
ReaderFind(x) ==
  /\ rpc[x] = "find" /\ owner = None
  /\ LET r == table[Dest[rmsg[x]]]
     IN  IF r \in Conn
         THEN /\ rpc' = [rpc EXCEPT ![x] = "forward"]
              /\ rdest' = [rdest EXCEPT ![x] = r]
              /\ UNCHANGED <<rmsg, fate>>
         ELSE /\ rpc' = [rpc EXCEPT ![x] = IF r = None THEN "poll" ELSE "drop"]
              /\ rmsg' = [rmsg EXCEPT ![x] = None]
              /\ rdest' = [rdest EXCEPT ![x] = r]
              /\ Lose({rmsg[x]})
  /\ UNCHANGED <<regVars, peerVars, open, threadVars, held, xbufVars, deviceVars>>

\* The reference goes; the last one destroys the entry and joins its reader
ReaderDrop(x) ==
  /\ rpc[x] = "drop"
  /\ IF Shared(rdest[x], x)
     THEN /\ rpc' = [rpc EXCEPT ![x] = "poll"]
          /\ rdest' = [rdest EXCEPT ![x] = None]
          /\ UNCHANGED fd
     ELSE /\ rpc' = [rpc EXCEPT ![x] = "join"]
          /\ fd' = fd \ {rdest[x]}
          /\ UNCHANGED rdest
  /\ UNCHANGED <<regVars, peerVars, open, threadVars, held, mbx, rmsg, deviceVars, fate>>
ReaderJoin(x) ==
  /\ rpc[x] = "join" /\ rpc[rdest[x]] = "exit"
  /\ rpc' = [rpc EXCEPT ![rdest[x]] = "free", ![x] = "poll"]
  /\ mbx' = [mbx EXCEPT ![rdest[x]] = None]
  /\ rdest' = [rdest EXCEPT ![x] = None]
  /\ UNCHANGED <<regVars, peerVars, open, threadVars, held, fd, rmsg, deviceVars, fate>>

\* Connection::forward(): a closed socket loses the frame
ReaderForward(x) ==
  /\ rpc[x] = "forward"
  /\ rpc' = [rpc EXCEPT ![x] = "poll"]
  /\ rmsg' = [rmsg EXCEPT ![x] = None]
  /\ rdest' = [rdest EXCEPT ![x] = None]
  /\ Settle(rmsg[x], IF rdest[x] \in open THEN "delivered" ELSE "lost")
  /\ UNCHANGED <<regVars, peerVars, open, threadVars, held, xbufVars, deviceVars>>

\* stop_requested(): the destructor has closed the descriptor
ReaderExit(x) ==
  /\ rpc[x] = "poll" /\ x \notin fd
  /\ rpc' = [rpc EXCEPT ![x] = "exit"]
  /\ UNCHANGED <<regVars, peerVars, open, threadVars, held, xbufVars, rmsg, rdest, deviceVars, fate>>

-----------------------------------------------------------------------------
(* Connection::handle_frame: registration.                                 *)

\* MBX_INIT_WITH_REPLY: a mailbox with an xbuf device gets an XbufEntry
RecvInit(c, m) ==
  /\ pc[c] = "run" /\ c \in open /\ <<c, m>> \in traffic.regs
  /\ Work(c, "add", Frame("init", m, None), {})
  /\ IF m \in device
     THEN LET x == CHOOSE x \in Xbuf : rpc[x] = "free"
          IN  /\ \E y \in Xbuf : rpc[y] = "free"
              /\ held' = [held EXCEPT ![c] = x]
              /\ mbx' = [mbx EXCEPT ![x] = m]
              /\ fd' = fd \cup {x}
              /\ rpc' = [rpc EXCEPT ![x] = "idle"]
     ELSE UNCHANGED <<held, xbufVars, rpc>>
  /\ UNCHANGED <<regVars, peerVars, open, rmsg, rdest, deviceVars, fate>>

\* add_xbuf() or add_tcp(): emplace() keeps an entry that is already there
Add(c) ==
  /\ pc[c] = "add" /\ owner = None
  /\ LET m == frame[c].mbx
         new == table[m] = None
     IN  /\ table' = IF new THEN [table EXCEPT ![m] = IF held[c] = None THEN c ELSE held[c]]
                     ELSE table
         /\ Goto(c, IF ~new THEN "release" ELSE IF held[c] = None THEN "insert" ELSE "start")
  /\ UNCHANGED <<owner, peerVars, open, frame, todo, held, xbufVars, readerVars, deviceVars, fate>>

StartReader(c) ==
  /\ pc[c] = "start"
  /\ rpc' = [rpc EXCEPT ![held[c]] = "poll"]
  /\ Goto(c, "insert")
  /\ UNCHANGED <<regVars, peerVars, open, frame, todo, held, xbufVars, rmsg, rdest, deviceVars, fate>>

\* Mutant: on_local_registered() without the broadcast
Mut_UpdateLocal(c) ==
  /\ pc[c] \in {"insert", "erase"}
  /\ local_mailboxes' = IF pc[c] = "insert" THEN local_mailboxes \cup {frame[c].mbx}
                        ELSE local_mailboxes \ {frame[c].mbx}
  /\ Goto(c, IF pc[c] = "insert" THEN "release" ELSE "peers")
  /\ UNCHANGED <<regVars, listed, is_peer, dialled, told, open, frame, todo, held, xbufVars,
                 readerVars, deviceVars, fate>>
\* on_local_registered(), on_local_deleted(): the set, then the peers
UpdateLocal(c) ==
  /\ pc[c] \in {"insert", "erase"}
  /\ local_mailboxes' = IF pc[c] = "insert" THEN local_mailboxes \cup {frame[c].mbx}
                        ELSE local_mailboxes \ {frame[c].mbx}
  /\ Goto(c, "peers")
  /\ UNCHANGED <<regVars, listed, is_peer, dialled, told, open, frame, todo, held, xbufVars, readerVars,
                 deviceVars, fate>>

\* broadcast_to_peers(): the peers under the lock, the sends without it
PeersSnapshot(c) ==
  /\ pc[c] = "peers"
  /\ LET P == listed \cap is_peer
     IN  Work(c, IF P = {} THEN "release" ELSE "broadcast", frame[c], P)
  /\ UNCHANGED <<regVars, peerVars, open, held, xbufVars, readerVars, deviceVars, fate>>

Broadcast(c) ==
  /\ pc[c] = "broadcast"
  /\ \E e \in todo[c] :
       /\ told' = [told EXCEPT ![e] = IF frame[c].type = "init" THEN @ \cup {frame[c].mbx}
                                      ELSE @ \ {frame[c].mbx}]
       /\ Work(c, IF todo[c] = {e} THEN "release" ELSE "broadcast", frame[c], todo[c] \ {e})
  /\ UNCHANGED <<regVars, local_mailboxes, listed, is_peer, dialled, open, held, xbufVars, readerVars,
                 deviceVars, fate>>

\* Mutant: a plain pointer, dropped without destroying what it points to
Mut_Release(c) ==
  /\ pc[c] = "release"
  /\ Done(c)
  /\ held' = [held EXCEPT ![c] = None]
  /\ UNCHANGED <<regVars, peerVars, open, xbufVars, readerVars, deviceVars, fate>>
\* The thread's shared_ptr goes out of scope; the last one destroys the entry:
\* ~XbufEntry() closes the descriptor, then ~jthread() stops and joins
Release(c) ==
  /\ pc[c] = "release"
  /\ IF held[c] = None \/ Shared(held[c], c)
     THEN /\ Done(c)
          /\ held' = [held EXCEPT ![c] = None]
          /\ UNCHANGED fd
     ELSE /\ Goto(c, "join")
          /\ fd' = fd \ {held[c]}
          /\ UNCHANGED <<held, frame, todo>>
  /\ UNCHANGED <<regVars, peerVars, open, mbx, readerVars, deviceVars, fate>>

\* Mutant: the descriptor is closed although a handler still holds the entry
Mut_Remove(c, t, m) ==
  /\ pc[c] = "run" /\ c \in open /\ owner = None
  /\ table' = [table EXCEPT ![m] = None]
  /\ fd' = fd \ {table[m]}
  /\ IF t = "delete" THEN Work(c, "erase", Frame(t, m, None), {}) ELSE Done(c)
  /\ UNCHANGED <<owner, held, peerVars, open, mbx, readerVars, deviceVars, fate>>
\* remove() for MBX_DELETE and PEER_DELETE: the entry is erased, and when that
\* drops the last reference it is destroyed with the registry locked
Remove(c, t, m) ==
  /\ pc[c] = "run" /\ c \in open /\ owner = None
  /\ table' = [table EXCEPT ![m] = None]
  /\ LET x == table[m]
     IN  IF x \in Xbuf /\ Holders(x) = {}
         THEN /\ owner' = c
              /\ held' = [held EXCEPT ![c] = x]
              /\ fd' = fd \ {x}
              /\ Work(c, "join", Frame(t, m, None), {})
         ELSE /\ IF t = "delete" THEN Work(c, "erase", Frame(t, m, None), {}) ELSE Done(c)
              /\ UNCHANGED <<owner, held, fd>>
  /\ UNCHANGED <<peerVars, open, mbx, readerVars, deviceVars, fate>>

RecvDelete(c, m) == <<c, m>> \in traffic.regs /\ Remove(c, "delete", m)
RecvPeerDelete(c, m) == c \in is_peer /\ m \in Remote /\ Remove(c, "peer_delete", m)

Join(c) ==
  /\ pc[c] = "join" /\ rpc[held[c]] \in {"idle", "exit"}
  /\ rpc' = [rpc EXCEPT ![held[c]] = "free"]
  /\ mbx' = [mbx EXCEPT ![held[c]] = None]
  /\ held' = [held EXCEPT ![c] = None]
  /\ owner' = IF owner = c THEN None ELSE owner
  /\ IF owner = c /\ frame[c].type = "delete"
     THEN Goto(c, "erase") /\ UNCHANGED <<frame, todo>> ELSE Done(c)
  /\ UNCHANGED <<table, peerVars, open, fd, rmsg, rdest, deviceVars, fate>>

-----------------------------------------------------------------------------
(* Peer protocol.                                                          *)

\* HELLO upgrades the connection and is answered with one
RecvHello(c) ==
  /\ pc[c] = "run" /\ c \in open \cap Links /\ c \notin is_peer
  /\ is_peer' = is_peer \cup {c}
  /\ Goto(c, "snapshot")
  /\ UNCHANGED <<regVars, local_mailboxes, listed, dialled, told, open, frame, todo, held, xbufVars,
                 readerVars, deviceVars, fate>>

\* advertise_as_peer(): a snapshot, then one frame per mailbox
local_mailboxes_snapshot(c) ==
  /\ pc[c] = "snapshot"
  /\ Work(c, IF local_mailboxes = {} THEN "run" ELSE "advertise", Idle, local_mailboxes)
  /\ UNCHANGED <<regVars, peerVars, open, held, xbufVars, readerVars, deviceVars, fate>>

Advertise(c) ==
  /\ pc[c] = "advertise"
  /\ \E m \in todo[c] :
       /\ told' = [told EXCEPT ![c] = @ \cup {m}]
       /\ Work(c, IF todo[c] = {m} THEN "run" ELSE "advertise", Idle, todo[c] \ {m})
  /\ UNCHANGED <<regVars, local_mailboxes, listed, is_peer, dialled, open, held, xbufVars, readerVars,
                 deviceVars, fate>>

RecvPeerRegister(c, m) ==
  /\ pc[c] = "run" /\ c \in open \cap is_peer /\ m \in Remote /\ owner = None
  /\ table[m] = None
  /\ table' = [table EXCEPT ![m] = c]
  /\ UNCHANGED <<owner, peerVars, open, threadVars, held, xbufVars, readerVars, deviceVars, fate>>

-----------------------------------------------------------------------------
(* Data routing.                                                           *)

\* find(): an uplink's reader serves connections only, a connection also xbufs
\* and the upstream router; either holds an XbufEntry that it finds
RecvData(c, d) ==
  /\ pc[c] = "run" /\ c \in open /\ Src[d] = c /\ fate[d] = "unsent" /\ d \in traffic.data \ Big
  /\ owner = None
  /\ LET r == table[Dest[d]]
         l == CASE r \in Conn -> "forward"
                [] r \in Xbuf -> IF c \in Conn THEN "write" ELSE "release"
                [] r = None -> IF c \in Conn \ is_peer THEN "upstream" ELSE "run"
         kept == l \in {"forward", "write", "upstream"}
     IN  /\ Work(c, l, IF kept THEN Frame("data", Dest[d], d) ELSE Idle, {r} \cap Conn)
         /\ held' = [held EXCEPT ![c] = IF r \in Xbuf THEN r ELSE None]
         /\ Settle(d, IF kept THEN "routing" ELSE "lost")
  /\ UNCHANGED <<regVars, peerVars, open, xbufVars, readerVars, deviceVars>>

Forward(c) ==
  /\ pc[c] = "forward"
  /\ \E b \in todo[c] : Settle(frame[c].data, IF b \in open THEN "delivered" ELSE "lost")
  /\ Done(c)
  /\ UNCHANGED <<regVars, peerVars, open, held, xbufVars, readerVars, deviceVars>>

\* Mutant: the result of write_body() is taken the wrong way round
Mut_WriteBody(c) ==
  /\ pc[c] = "write"
  /\ LET m == mbx[held[c]]
     IN  inbound' = IF m \in device /\ Len(inbound[m]) < RingSize
                    THEN [inbound EXCEPT ![m] = Append(@, frame[c].data)] ELSE inbound
  /\ Settle(frame[c].data, "refused")
  /\ Goto(c, "release")
  /\ UNCHANGED <<regVars, peerVars, open, frame, todo, held, xbufVars, readerVars, traffic, device, outbound>>
\* write_body(): a full ring or a closed descriptor is answered MSG_ERROR; a
\* ring whose reader has gone takes the message
WriteBody(c) ==
  /\ pc[c] = "write"
  /\ LET m == mbx[held[c]]
         d == frame[c].data
     IN  IF held[c] \in fd /\ Len(inbound[m]) < RingSize
         THEN /\ inbound' = IF m \in device THEN [inbound EXCEPT ![m] = Append(@, d)] ELSE inbound
              /\ Settle(d, IF m \in device THEN "routing" ELSE "lost")
         ELSE Settle(d, "refused") /\ UNCHANGED inbound
  /\ Goto(c, "release")
  /\ UNCHANGED <<regVars, peerVars, open, frame, todo, held, xbufVars, readerVars, traffic, device, outbound>>

\* forward_to_upstream(): the system route's socket, else the default one; a
\* broken one that its reader has not closed yet may still take the frame
ForwardUpstream(c) ==
  /\ pc[c] = "upstream"
  /\ LET u == Route[frame[c].mbx]
     IN  \/ u \in open /\ Settle(frame[c].data, "upstream")
         \/ u \notin open /\ Settle(frame[c].data, "refused")
         \/ u \in Uplink \ open /\ pc[u] # "exit" /\ Settle(frame[c].data, "lost")
  /\ Done(c)
  /\ UNCHANGED <<regVars, peerVars, open, held, xbufVars, readerVars, deviceVars>>

\* A body over max_msg_size: the socket is closed.  The reader of an uplink
\* then ends; a Connection goes on polling its closed descriptor for ever.
Oversized(c, d) ==
  /\ pc[c] = "run" /\ c \in open /\ Src[d] = c /\ fate[d] = "unsent" /\ d \in traffic.data \cap Big
  /\ open' = open \ {c}
  /\ Goto(c, IF c \in Uplink THEN "exit" ELSE "stuck")
  /\ Settle(d, "lost")
  /\ UNCHANGED <<regVars, peerVars, frame, todo, held, xbufVars, readerVars, deviceVars>>

\* Mutant: only MBX_DELETE removes entries
Mut_Disconnect(c) ==
  /\ pc[c] = "run" /\ c \notin open
  /\ Goto(c, "exit")
  /\ UNCHANGED <<regVars, peerVars, open, frame, todo, held, xbufVars, readerVars, deviceVars, fate>>
\* recv() fails: remove_all_for_con() leaves xbuf entries alone
Disconnect(c) ==
  /\ pc[c] = "run" /\ c \notin open /\ (c \in Conn => owner = None)
  /\ table' = [m \in Mailbox |-> IF table[m] = c THEN None ELSE table[m]]
  /\ Goto(c, "exit")
  /\ UNCHANGED <<owner, peerVars, open, frame, todo, held, xbufVars, readerVars, deviceVars, fate>>

ReaderStep(x) ==
  \/ ReaderRead(x) \/ ReaderFind(x) \/ ReaderForward(x) \/ ReaderDrop(x) \/ ReaderJoin(x)
  \/ ReaderExit(x)
\* What the thread of c does with the frame in hand, and when its socket ends
Work_on(c) ==
  \/ Add(c) \/ StartReader(c) \/ UpdateLocal(c) \/ PeersSnapshot(c) \/ Broadcast(c)
  \/ Release(c) \/ Join(c) \/ local_mailboxes_snapshot(c) \/ Advertise(c)
  \/ Forward(c) \/ WriteBody(c) \/ ForwardUpstream(c) \/ Disconnect(c)
\* The frames c may be sent
Receive(c) ==
  \/ \E m \in Mailbox : \/ RecvInit(c, m) \/ RecvDelete(c, m)
                         \/ RecvPeerRegister(c, m) \/ RecvPeerDelete(c, m)
  \/ \E d \in Data : RecvData(c, d) \/ Oversized(c, d)
  \/ RecvHello(c)
Evl_process(m) == EvlReceive(m) \/ EvlExit(m)

Next ==
  \/ \E c \in Conn : ConnectPeer(c) \/ Accept(c) \/ List(c)
  \/ \E c \in Peer : Close(c) \/ Receive(c) \/ Work_on(c)
  \/ \E x \in Xbuf : ReaderStep(x)
  \/ \E m \in Evl : Evl_process(m)
  \/ \E d \in Data : EvlSend(d)

Spec == Init /\ [][Next]_vars

\* Every thread of the router is scheduled; what arrives is free
Fairness ==
  /\ \A c \in Conn : WF_vars(List(c))
  /\ \A c \in Peer : WF_vars(Work_on(c))
  /\ \A x \in Xbuf : WF_vars(ReaderStep(x))
LiveSpec == Spec /\ Fairness

-----------------------------------------------------------------------------
(* Properties.                                                             *)

\* An XbufEntry lives as long as someone can reach it: a registered one, and
\* one a handler is about to write to, has its descriptor open, even when the
\* mailbox was deleted, or deleted and registered again, since find().
XbufAlive ==
  /\ \A m \in Mailbox : table[m] \in Xbuf => table[m] \in fd /\ mbx[table[m]] = m
  /\ \A c \in Peer : pc[c] = "write" => held[c] \in fd /\ mbx[held[c]] = frame[c].mbx

\* And no longer: whenever a reader thread or its object exists, the registry
\* or a handler refers to it, so that some thread will stop and join it.
NoLeakedReader == \A x \in Xbuf : rpc[x] # "free" => Shared(x, None)

\* remove_all_for_con() leaves no route to a connection whose thread has ended.
NoDanglingRoute == \A c \in Conn, m \in Mailbox : pc[c] = "exit" => table[m] # c

\* A message on its way is in exactly one place (a ring of an xbuf, the hands
\* of one reader or connection thread), and one whose fate is settled nowhere.
Positions(q, d) == {i \in DOMAIN q : q[i] = d}
Places(d) ==
  (UNION {{<<m, "in", i>> : i \in Positions(inbound[m], d)} : m \in Evl})
  \cup (UNION {{<<m, "out", i>> : i \in Positions(outbound[m], d)} : m \in Evl})
  \cup {<<x, "reader", 0>> : x \in {y \in Xbuf : rpc[y] \in {"find", "forward"} /\ rmsg[y] = d}}
  \cup {<<c, "thread", 0>> : c \in {b \in Peer : /\ pc[b] \in {"forward", "write", "upstream"}
                                                 /\ frame[b].data = d}}
OneCopy == \A d \in Data : Cardinality(Places(d)) = IF fate[d] = "routing" THEN 1 ELSE 0

\* A router connected at start-up never misses a mailbox: once the handlers are
\* through, it has been told of every registered one that a single client
\* registers and deletes (broadcasts leave without a lock, so those of two
\* clients may overtake each other, and a snapshot may be sent after a
\* deletion, which leaves the peer with a stale route).
Exclusive == {m \in Mailbox : \A b, c \in Conn : <<b, m>> \in traffic.regs /\ <<c, m>> \in traffic.regs => b = c}
Announcing(m) == \E c \in Peer : /\ pc[c] \in {"insert", "peers", "broadcast", "snapshot", "advertise"}
                                 /\ m \in {frame[c].mbx} \cup todo[c] \/ pc[c] = "snapshot"
PeersTold ==
  \A e \in dialled \cap listed, m \in Exclusive \cap local_mailboxes :
    m \in told[e] \/ Announcing(m)

\* "MailboxRegistry -- thread-safe": remove() always gives the registry back.
RemoveReturns == (owner # None) ~> (owner = None)
=============================================================================
