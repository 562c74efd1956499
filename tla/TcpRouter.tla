----------------------------- MODULE TcpRouter -----------------------------
(***************************************************************************)
(* A network of corerat-router-tcp daemons (src/router/tcp_router.cpp)     *)
(* with their clients (TimsMailbox, src/tims_backend.cpp), the peer links  *)
(* between them and their connections to routers upstream.  A connection   *)
(* is named after what is at its other side: client k stands for the       *)
(* Connection object that serves k, a link end for the one that serves the *)
(* link at its router, and an uplink for the upstream or system-route      *)
(* socket with its reader.  Each has a thread.  What a handler does        *)
(* between two critical sections or sends is one step, so the handlers of  *)
(* different connections interleave as their mutexes allow.                *)
(***************************************************************************)
EXTENDS Integers, Sequences, FiniteSets

CONSTANTS
  Router, Client, End, Uplink, Mailbox, Data,
  At,        \* router that serves each connection
  Id,        \* mailbox id of each client
  Far,       \* the other end of each peer link
  Outbound,  \* ends opened by connect_to_peers(), the --peer side of a link
  Route,     \* uplink that a router selects for a mailbox, or None
  Src,       \* client or uplink that sends each message
  Dest,      \* mailbox it is for
  Big,       \* messages longer than the router's --max-msg-size
  Raw,       \* clients that send MBX_DELETE; TimsMailbox never does
  Hasty,     \* clients that do not wait until the links of their router are up
  None

Conn == Client \cup End \cup Uplink

ASSUME NetworkAssumption ==
  /\ Client \cap End = {} /\ Client \cap Uplink = {} /\ End \cap Uplink = {}
  /\ None \notin Conn \cup Data \cup Mailbox
  /\ At \in [Conn -> Router] /\ Id \in [Client -> Mailbox]
  /\ Far \in [End -> End] /\ \A e \in End : Far[Far[e]] = e
  /\ \A e \in End : e \in Outbound <=> Far[e] \notin Outbound
  /\ Route \in [Router -> [Mailbox -> Uplink \cup {None}]]
  /\ Src \in [Data -> Client \cup Uplink] /\ Dest \in [Data -> Mailbox]
  /\ Big \subseteq Data

VARIABLES
  registry,         \* MailboxRegistry of each router: mailbox -> Conn or None
  local_mailboxes,  \* of each router
  accepting,        \* routers whose run() is in its accept loop
  open,             \* connections neither side has closed
  listed,           \* connections in connections_
  is_peer,          \* connections in peer mode
  pc,               \* where the thread of each connection stands
  frame,            \* the frame it handles
  todo,             \* what its loop has yet to visit, or whom it forwards to
  inbox,            \* frames on their way to the router, per connection
  client,           \* state of each client's TimsMailbox
  mail,             \* frames on their way to each client
  fate              \* history: what has become of each message

routeVars == <<registry, local_mailboxes>>
linkVars == <<accepting, open, listed, is_peer>>
threadVars == <<pc, frame, todo>>
vars == <<routeVars, linkVars, threadVars, inbox, client, mail, fate>>

\* FrameHeader and payload: the type, the mailbox it names, the message
Frame(t, m) == [type |-> t, mbx |-> m, data |-> None]
DataFrame(d) == [type |-> "data", mbx |-> Dest[d], data |-> d]
Hello == Frame("hello", None)

Init ==
  /\ registry = [r \in Router |-> [m \in Mailbox |-> None]]
  /\ local_mailboxes = [r \in Router |-> {}]
  /\ accepting = {} /\ open = Uplink /\ listed = {} /\ is_peer = {}
  /\ pc = [c \in Conn |-> IF c \in Uplink THEN "run" ELSE "none"]
  /\ frame = [c \in Conn |-> Hello]
  /\ todo = [c \in Conn |-> {}]
  /\ inbox = [c \in Conn |-> <<>>]
  /\ client = [k \in Client |-> "off"]
  /\ mail = [k \in Client |-> <<>>]
  /\ fate = [d \in Data |-> "unsent"]

-----------------------------------------------------------------------------
(* MailboxRegistry: operations under its mutex, on the map of one router.  *)

add(c, m) ==
  registry' = IF registry[At[c]][m] = None
              THEN [registry EXCEPT ![At[c]][m] = c] ELSE registry
remove(c, m) == registry' = [registry EXCEPT ![At[c]][m] = None]
\* Mutants: entries stay on disconnect; every entry of the router goes
Mut_remove_all(c) == registry' = [registry EXCEPT ![At[c]] = @]
Mut_clear(c) == registry' = [registry EXCEPT ![At[c]] = [m \in Mailbox |-> None]]
remove_all(c) ==
  registry' = [registry EXCEPT ![At[c]] =
                 [m \in Mailbox |-> IF @[m] = c THEN None ELSE @[m]]]

\* The messages in a queue, and what is recorded when messages are lost
Within(q) == {q[i].data : i \in 1 .. Len(q)} \ {None}
Lose(D) == fate' = [d \in Data |-> IF d \in D THEN "lost" ELSE fate[d]]

\* send_all() on connection c: a closed one loses what is written to it
SendTo(c, f) ==
  /\ mail' = IF c \in Client \cap open
             THEN [mail EXCEPT ![c] = Append(@, f)] ELSE mail
  /\ inbox' = IF c \in End \cap open
              THEN [inbox EXCEPT ![Far[c]] = Append(@, f)] ELSE inbox

Goto(c, l) == pc' = [pc EXCEPT ![c] = l]
Work(c, l, f, s) ==
  /\ Goto(c, l)
  /\ frame' = [frame EXCEPT ![c] = f]
  /\ todo' = [todo EXCEPT ![c] = s]

-----------------------------------------------------------------------------
(* TcpRouter::run: the outbound links first, then the accept loop.         *)

\* connect_to_peers(): the thread starts before the connection is listed
ConnectPeer(e) ==
  /\ e \in Outbound /\ pc[e] = "none" /\ At[e] \notin accepting
  /\ \A o \in End : At[o] = At[e] /\ pc[o] # "none" => o \in listed
  /\ open' = open \cup {e, Far[e]}
  /\ is_peer' = is_peer \cup {e}
  /\ Goto(e, "hello")
  /\ UNCHANGED <<routeVars, accepting, listed, frame, todo, inbox, client, mail, fate>>

\* connections_.emplace_back() after the thread was started
List(e) ==
  /\ pc[e] # "none" /\ e \notin listed
  /\ listed' = listed \cup {e}
  /\ UNCHANGED <<routeVars, accepting, open, is_peer, threadVars, inbox, client, mail, fate>>

Unlisted(r) == \E e \in End : At[e] = r /\ pc[e] # "none" /\ e \notin listed

Listen(r) ==
  /\ r \notin accepting /\ ~Unlisted(r)
  /\ accepting' = accepting \cup {r}
  /\ UNCHANGED <<routeVars, open, listed, is_peer, threadVars, inbox, client, mail, fate>>

\* accept() of the other router's link; clients are accepted in Connect
Accept(e) ==
  /\ At[e] \in accepting /\ ~Unlisted(At[e])
  /\ e \notin Outbound /\ pc[e] = "none" /\ pc[Far[e]] # "none"
  /\ Goto(e, "run")
  /\ UNCHANGED <<routeVars, linkVars, frame, todo, inbox, client, mail, fate>>

\* A patient client leaves the links of its router time to be set up
LinksListed(k) == \A e \in End : At[e] = At[k] => e \in listed
Advertising(e) == pc[e] \in {"hello", "snapshot", "advertise"}
LinksSettled(k) ==
  LinksListed(k) /\ \A e \in End : At[e] = At[k] => e \in is_peer /\ ~Advertising(e)
-----------------------------------------------------------------------------
(* TimsMailbox.                                                            *)

\* initialize(): connect, then MBX_INIT; the router accepts the connection
Connect(k) ==
  /\ client[k] = "off"
  /\ At[k] \in accepting /\ ~Unlisted(At[k])
  /\ k \in Hasty \/ LinksListed(k)
  /\ client' = [client EXCEPT ![k] = "waiting"]
  /\ open' = open \cup {k}
  /\ Goto(k, "run")
  /\ inbox' = [inbox EXCEPT ![k] = <<Frame("init", Id[k])>>]
  /\ UNCHANGED <<routeVars, accepting, listed, is_peer, frame, todo, mail, fate>>

\* close(): what the client has not read is lost
Close(k) ==
  /\ client' = [client EXCEPT ![k] = "closed"]
  /\ open' = open \ {k}
  /\ mail' = [mail EXCEPT ![k] = <<>>]
  /\ Lose(Within(mail[k]))

\* initialize() reads one header and looks at its type only: a data frame
\* (type 0) passes for MSG_OK, and its body is then taken for frames
Reply(k) ==
  /\ client[k] = "waiting" /\ mail[k] # <<>>
  /\ LET f == Head(mail[k])
     IN  IF f.type = "error" THEN Close(k)
         ELSE /\ client' = [client EXCEPT ![k] = IF f.type = "ok" THEN "ready" ELSE "garbled"]
              /\ mail' = [mail EXCEPT ![k] = Tail(@)]
              /\ Lose({f.data})
              /\ UNCHANGED open
  /\ UNCHANGED <<routeVars, accepting, listed, is_peer, threadVars, inbox>>

\* send_raw(), or a router upstream that sends to a mailbox of this one
Send(d) ==
  /\ fate[d] = "unsent" /\ Src[d] \in open
  /\ Src[d] \in Client => client[Src[d]] \in {"ready", "garbled"}
  /\ inbox' = [inbox EXCEPT ![Src[d]] = Append(@, DataFrame(d))]
  /\ fate' = [fate EXCEPT ![d] = "routing"]
  /\ UNCHANGED <<routeVars, linkVars, threadVars, client, mail>>

\* receive_raw(): frames without a body, MSG_ERROR among them, are skipped
Receive(k) ==
  /\ client[k] \in {"ready", "deleted"} /\ mail[k] # <<>>
  /\ mail' = [mail EXCEPT ![k] = Tail(@)]
  /\ fate' = [d \in Data |-> IF d = Head(mail[k]).data THEN "delivered" ELSE fate[d]]
  /\ UNCHANGED <<routeVars, linkVars, threadVars, inbox, client>>

\* MBX_DELETE, from a client that speaks the protocol itself
Unregister(k) ==
  /\ k \in Raw /\ client[k] = "ready" /\ k \in open
  /\ k \in Hasty \/ LinksSettled(k)
  /\ client' = [client EXCEPT ![k] = "deleted"]
  /\ inbox' = [inbox EXCEPT ![k] = Append(@, Frame("delete", Id[k]))]
  /\ UNCHANGED <<routeVars, linkVars, threadVars, mail, fate>>

\* shutdown(): the socket is closed, nothing else
Shutdown(k) ==
  /\ client[k] \in {"ready", "garbled", "deleted"}
  /\ Close(k)
  /\ UNCHANGED <<routeVars, accepting, listed, is_peer, threadVars, inbox>>

\* A link or uplink breaks
Break(c) ==
  /\ c \in open \ Client
  /\ open' = open \ (IF c \in End THEN {c, Far[c]} ELSE {c})
  /\ UNCHANGED <<routeVars, accepting, listed, is_peer, threadVars, inbox, client, mail, fate>>

-----------------------------------------------------------------------------
(* Connection::run and handle_frame.                                       *)

\* The next frame of connection c, of type t, is read
Read(c, t) ==
  /\ pc[c] = "run" /\ inbox[c] # <<>> /\ Head(inbox[c]).type = t
  /\ inbox' = [inbox EXCEPT ![c] = Tail(@)]
Next_mbx(c) == Head(inbox[c]).mbx

RecvHello(e) ==
  /\ Read(e, "hello")
  /\ is_peer' = is_peer \cup {e}
  /\ pc' = IF e \in is_peer THEN pc ELSE [pc EXCEPT ![e] = "hello"]
  /\ UNCHANGED <<routeVars, accepting, open, listed, frame, todo, client, mail, fate>>

\* advertise_as_peer(): HELLO, then a snapshot, then one frame per mailbox
SendHello(e) ==
  /\ pc[e] = "hello"
  /\ SendTo(e, Hello)
  /\ Goto(e, "snapshot")
  /\ UNCHANGED <<routeVars, linkVars, frame, todo, client, fate>>

local_mailboxes_snapshot(e) ==
  /\ pc[e] = "snapshot"
  /\ Work(e, IF local_mailboxes[At[e]] = {} THEN "run" ELSE "advertise",
          Hello, local_mailboxes[At[e]])
  /\ UNCHANGED <<routeVars, linkVars, inbox, client, mail, fate>>

Advertise(e) ==
  /\ pc[e] = "advertise"
  /\ \E m \in todo[e] :
       /\ SendTo(e, Frame("peer_register", m))
       /\ Work(e, IF todo[e] = {m} THEN "run" ELSE "advertise", Hello, todo[e] \ {m})
  /\ UNCHANGED <<routeVars, linkVars, client, fate>>

RecvPeerRegister(e) ==
  /\ Read(e, "peer_register")
  /\ IF e \in is_peer THEN add(e, Next_mbx(e)) ELSE UNCHANGED registry
  /\ UNCHANGED <<local_mailboxes, linkVars, threadVars, client, mail, fate>>

RecvPeerDelete(e) ==
  /\ Read(e, "peer_delete")
  /\ IF e \in is_peer THEN remove(e, Next_mbx(e)) ELSE UNCHANGED registry
  /\ UNCHANGED <<local_mailboxes, linkVars, threadVars, client, mail, fate>>

\* MBX_INIT_WITH_REPLY: registry, reply, local_mailboxes_, broadcast
RecvInit(k) ==
  /\ Read(k, "init")
  /\ add(k, Next_mbx(k))
  /\ Work(k, IF registry[At[k]][Next_mbx(k)] = None THEN "accept" ELSE "refuse",
          Head(inbox[k]), {})
  /\ UNCHANGED <<local_mailboxes, linkVars, client, mail, fate>>

SendReply(k) ==
  /\ pc[k] \in {"accept", "refuse"}
  /\ SendTo(k, Frame(IF pc[k] = "accept" THEN "ok" ELSE "error", None))
  /\ Goto(k, IF pc[k] = "accept" THEN "insert" ELSE "run")
  /\ UNCHANGED <<routeVars, linkVars, frame, todo, client, fate>>

\* Mutant: the peers connected now are told, local_mailboxes_ is not kept
Mut_InsertLocal(k) ==
  /\ pc[k] = "insert"
  /\ Goto(k, "peers")
  /\ UNCHANGED <<routeVars, linkVars, frame, todo, inbox, client, mail, fate>>
InsertLocal(k) ==
  /\ pc[k] = "insert"
  /\ local_mailboxes' = [local_mailboxes EXCEPT ![At[k]] = @ \cup {frame[k].mbx}]
  /\ Goto(k, "peers")
  /\ UNCHANGED <<registry, linkVars, frame, todo, inbox, client, mail, fate>>

\* MBX_DELETE: registry, local_mailboxes_, broadcast
RecvDelete(k) ==
  /\ Read(k, "delete")
  /\ remove(k, Next_mbx(k))
  /\ Work(k, "erase", Head(inbox[k]), {})
  /\ UNCHANGED <<local_mailboxes, linkVars, client, mail, fate>>

\* Mutant: on_local_deleted() without the broadcast
Mut_EraseLocal(k) ==
  /\ pc[k] = "erase"
  /\ local_mailboxes' = [local_mailboxes EXCEPT ![At[k]] = @ \ {frame[k].mbx}]
  /\ Goto(k, "run")
  /\ UNCHANGED <<registry, linkVars, frame, todo, inbox, client, mail, fate>>
EraseLocal(k) ==
  /\ pc[k] = "erase"
  /\ local_mailboxes' = [local_mailboxes EXCEPT ![At[k]] = @ \ {frame[k].mbx}]
  /\ Goto(k, "peers")
  /\ UNCHANGED <<registry, linkVars, frame, todo, inbox, client, mail, fate>>

\* broadcast_to_peers(): the peers under the lock, the sends without it
Peers(r) == {e \in End \cap listed \cap is_peer : At[e] = r}
PeersSnapshot(k) ==
  /\ pc[k] = "peers"
  /\ Work(k, IF Peers(At[k]) = {} THEN "run" ELSE "broadcast", frame[k], Peers(At[k]))
  /\ UNCHANGED <<routeVars, linkVars, inbox, client, mail, fate>>

Broadcast(k) ==
  /\ pc[k] = "broadcast"
  /\ \E e \in todo[k] :
       /\ SendTo(e, Frame(IF frame[k].type = "init" THEN "peer_register" ELSE "peer_delete",
                          frame[k].mbx))
       /\ Work(k, IF todo[k] = {e} THEN "run" ELSE "broadcast", frame[k], todo[k] \ {e})
  /\ UNCHANGED <<routeVars, linkVars, client, fate>>

\* Mutants: the result of find() is not tested; a message for an unknown
\* mailbox is passed to a peer
Mut_RecvData(c) ==
  /\ Read(c, "data") /\ Head(inbox[c]).data \notin Big
  /\ Work(c, "forward", Head(inbox[c]), {registry[At[c]][Next_mbx(c)]})
  /\ UNCHANGED <<routeVars, linkVars, client, mail, fate>>
Mut_RecvDataFlood(c) ==
  /\ Read(c, "data") /\ Head(inbox[c]).data \notin Big
  /\ LET dest == registry[At[c]][Next_mbx(c)]
         peers == {e \in End : At[e] = At[c]}
         targets == IF dest # None THEN {dest} ELSE peers
     IN  Work(c, IF targets = {} THEN "run" ELSE "forward", Head(inbox[c]), targets)
  /\ UNCHANGED <<routeVars, linkVars, client, mail, fate>>
\* Data: the registry decides; only clients fall back to an upstream router
RecvData(c) ==
  /\ Read(c, "data") /\ Head(inbox[c]).data \notin Big
  /\ LET dest == registry[At[c]][Next_mbx(c)]
     IN  /\ Work(c, CASE dest # None -> "forward"
                      [] dest = None /\ c \in Client -> "upstream"
                      [] OTHER -> "run",
                 Head(inbox[c]), {dest} \ {None})
         /\ Lose(IF dest = None /\ c \notin Client THEN {Head(inbox[c]).data} ELSE {})
  /\ UNCHANGED <<routeVars, linkVars, client, mail>>

Forward(c) ==
  /\ pc[c] = "forward"
  /\ \E dest \in todo[c] :
       SendTo(dest, frame[c]) /\ Lose(IF dest \in open THEN {} ELSE {frame[c].data})
  /\ Goto(c, "run")
  /\ UNCHANGED <<routeVars, linkVars, frame, todo, client>>

\* Mutant: MSG_ERROR is sent although the frame went upstream
Mut_ForwardUpstream(c) ==
  /\ pc[c] = "upstream"
  /\ LET u == Route[At[c]][frame[c].mbx]
     IN  /\ u # None /\ pc[u] # "exit"
         /\ fate' = [fate EXCEPT ![frame[c].data] = IF u \in open THEN "upstream" ELSE "lost"]
  /\ UNCHANGED <<routeVars, linkVars, threadVars, inbox, client, mail>>
\* forward_to_upstream(): the selected socket takes the frame, or, when it is
\* closed or there is none, the client is answered MSG_ERROR.  A socket its
\* reader has not yet closed may still take a frame that is then lost.
ForwardUpstream(c) ==
  /\ pc[c] = "upstream"
  /\ LET u == Route[At[c]][frame[c].mbx]
     IN  /\ u # None /\ pc[u] # "exit"
         /\ fate' = [fate EXCEPT ![frame[c].data] = IF u \in open THEN "upstream" ELSE "lost"]
  /\ Goto(c, "run")
  /\ UNCHANGED <<routeVars, linkVars, frame, todo, inbox, client, mail>>

NoUpstream(c) ==
  /\ pc[c] = "upstream"
  /\ Route[At[c]][frame[c].mbx] \notin open
  /\ SendTo(c, Frame("error", None))
  /\ fate' = [fate EXCEPT ![frame[c].data] = "refused"]
  /\ Goto(c, "run")
  /\ UNCHANGED <<routeVars, linkVars, frame, todo, client>>

\* A body over max_msg_size: the socket is closed.  The reader of an uplink
\* then ends; a Connection goes on polling its closed descriptor for ever.
Oversized(c) ==
  /\ pc[c] = "run" /\ inbox[c] # <<>> /\ Head(inbox[c]).data \in Big
  /\ inbox' = [inbox EXCEPT ![c] = <<>>]
  /\ open' = open \ (IF c \in End THEN {c, Far[c]} ELSE {c})
  /\ Goto(c, IF c \in Uplink THEN "exit" ELSE "stuck")
  /\ Lose(Within(inbox[c]))
  /\ UNCHANGED <<routeVars, accepting, listed, is_peer, frame, todo, client, mail>>

\* recv() fails: unread frames may have been discarded by the reset
Disconnect(c) ==
  /\ pc[c] = "run" /\ c \notin open
  /\ remove_all(c)
  /\ Goto(c, "exit")
  /\ inbox' = [inbox EXCEPT ![c] = <<>>]
  /\ Lose(Within(inbox[c]))
  /\ UNCHANGED <<local_mailboxes, linkVars, frame, todo, client, mail>>

LinkStep(e) ==
  \/ RecvHello(e) \/ SendHello(e) \/ local_mailboxes_snapshot(e) \/ Advertise(e)
  \/ RecvPeerRegister(e) \/ RecvPeerDelete(e)
ClientStep(k) ==
  \/ RecvInit(k) \/ SendReply(k) \/ InsertLocal(k)
  \/ RecvDelete(k) \/ EraseLocal(k) \/ PeersSnapshot(k) \/ Broadcast(k)
  \/ ForwardUpstream(k) \/ NoUpstream(k)
ThreadStep(c) ==
  \/ RecvData(c) \/ Forward(c) \/ Oversized(c) \/ Disconnect(c)
  \/ c \in End /\ LinkStep(c)
  \/ c \in Client /\ ClientStep(c)
RouterStep(r) == Listen(r) \/ \E e \in End : At[e] = r /\ (List(e) \/ Accept(e))
UserStep(k) == Connect(k) \/ Reply(k) \/ Receive(k) \/ Unregister(k) \/ Shutdown(k)

Next ==
  \/ \E r \in Router : RouterStep(r)
  \/ \E e \in End : ConnectPeer(e)
  \/ \E c \in Conn : ThreadStep(c) \/ Break(c)
  \/ \E k \in Client : UserStep(k)
  \/ \E d \in Data : Send(d)

Spec == Init /\ [][Next]_vars

\* Every thread of a router is scheduled; clients and links are free
Fairness ==
  /\ \A r \in Router : WF_vars(RouterStep(r))
  /\ \A c \in Conn : WF_vars(ThreadStep(c))
LiveSpec == Spec /\ Fairness

-----------------------------------------------------------------------------
(* Properties.                                                             *)

FrameType == {"init", "delete", "hello", "peer_register", "peer_delete", "data", "ok", "error"}
FrameRecord == [type : FrameType, mbx : Mailbox \cup {None}, data : Data \cup {None}]
PC == {"none", "run", "hello", "snapshot", "advertise", "accept", "refuse", "insert", "erase",
       "peers", "broadcast", "forward", "upstream", "stuck", "exit"}

\* The state of the routers, their connections and clients has its types; in
\* particular a handler forwards to connections and advertises mailboxes only.
TypeOK ==
  /\ registry \in [Router -> [Mailbox -> Client \cup End \cup {None}]]
  /\ local_mailboxes \in [Router -> SUBSET Mailbox]
  /\ accepting \subseteq Router /\ open \subseteq Conn
  /\ listed \subseteq End /\ is_peer \subseteq End
  /\ pc \in [Conn -> PC]
  /\ frame \in [Conn -> FrameRecord]
  /\ todo \in [Conn -> SUBSET (Client \cup End \cup Mailbox)]
  /\ inbox \in [Conn -> Seq(FrameRecord)]
  /\ client \in [Client -> {"off", "waiting", "ready", "garbled", "deleted", "closed"}]
  /\ mail \in [Client -> Seq(FrameRecord)]
  /\ fate \in [Data -> {"unsent", "routing", "delivered", "upstream", "refused", "lost"}]

\* MailboxRegistry::remove_all() leaves nothing behind: once the thread of a
\* connection has ended, no route of its router leads to it, whatever other
\* threads were registering or deleting meanwhile.
NoDanglingRoute ==
  \A c \in Conn, m \in Mailbox : pc[c] = "exit" => registry[At[c]][m] # c

\* Routing neither copies nor forgets: a message on its way is in exactly one
\* place (a socket towards a router, the hands of one thread, a socket towards
\* a client), and one whose fate is settled is nowhere.
Positions(q, d) == {i \in DOMAIN q : q[i].data = d}
Places(d) ==
  (UNION {{<<c, "inbox", i>> : i \in Positions(inbox[c], d)} : c \in Conn})
  \cup (UNION {{<<k, "mail", i>> : i \in Positions(mail[k], d)} : k \in Client})
  \cup {<<c, "thread", 0>> : c \in {x \in Conn : /\ pc[x] \in {"forward", "upstream"}
                                                 /\ frame[x].data = d}}
OneCopy ==
  \A d \in Data : Cardinality(Places(d)) = IF fate[d] = "routing" THEN 1 ELSE 0

\* With one client per mailbox id, only a client's own connection takes its
\* route away, by MBX_DELETE or when it ends: no disconnect, peer message or
\* registration of anyone else does (MailboxRegistry knows no owners in
\* remove(), so this rests on who sends what).
OwnEntryKept ==
  [][\A k \in Client :
       registry[At[k]][Id[k]] = k /\ registry'[At[k]][Id[k]] # k
         => pc'[k] \in {"erase", "exit"}]_vars

\* A mailbox that stays registered at a router becomes and stays known to the
\* router at the other end of each link that stays open, whatever the order of
\* HELLOs, snapshots and broadcasts (on_local_registered, advertise_as_peer).
\* This needs clients that connect once the links of their router are listed
\* (Hasty = {}): one that registers between the snapshot of an accepted link
\* and its emplace_back() is in neither the snapshot nor the broadcast.
Linked(e) == e \in open /\ pc[e] # "none" /\ pc[Far[e]] # "none"
PeersLearn ==
  \A k \in Client, e \in End :
    At[e] = At[k] =>
      (<>[](registry[At[k]][Id[k]] = k /\ Linked(e))
         => <>[](registry[At[Far[e]]][Id[k]] = Far[e]))

\* A mailbox that its client has deleted is forgotten at the other end of
\* every open link (on_local_deleted).  This needs clients that delete once
\* the links of their router have advertised (Hasty = {}): a link thread that
\* took its snapshot before the deletion may send PEER_REGISTER after the
\* PEER_DELETE.
PeersForget ==
  \A k \in Client, e \in End :
    At[e] = At[k] =>
      (<>[](client[k] = "deleted" /\ k \in open /\ Linked(e))
         => <>[](registry[At[Far[e]]][Id[k]] # Far[e]))

\* "Register mailbox; expect MSG_OK reply": the frame that completes
\* TimsMailbox::initialize() is the reply to its MBX_INIT.
ReplyComesFirst ==
  \A k \in Client : client[k] = "waiting" /\ mail[k] # <<>> => Head(mail[k]).type # "data"

\* No message circulates between routers: one that has left the router it
\* entered by never comes back to it over a link, stale routes or not.
NeverReturns ==
  \A d \in Data, e \in End : At[e] = At[Src[d]] => d \notin Within(inbox[e])
=============================================================================
