---------------------------- MODULE TypedMailbox ----------------------------
(***************************************************************************)
(* A Mailbox (ipc/mailbox.hpp) on its TimsMailbox (tims_backend.cpp): the  *)
(* life cycle, the frames on the socket to the router, and the dispatch of *)
(* received messages to the types of the registry. One thread of the       *)
(* application starts, stops and receives, another one sends.              *)
(*                                                                         *)
(* The socket is a sequence of frame headers and bodies. A header has the  *)
(* type "status" (MSG_ROUTER_GET_STATUS), "empty" (MSG_OK or anything      *)
(* else without a body) or is the header of a message of a payload type,   *)
(* which has the type number of MSG_OK.                                    *)
(***************************************************************************)
EXTENDS MessageRegistry

CONSTANTS
  Registries,   \* sequences of definitions the programs may be compiled with
  Size,         \* serialized size of each payload type
  max_msg_size, \* of the configuration
  MaxRx,        \* bound: headers and bodies waiting to be received
  MaxControl    \* bound: status and empty frames the router sends

\* What the C++ types allow, and names of control frames and operations that are
\* no payload types
Definition ==
  [payload : DOMAIN Size, prefix : 0 .. 2^8 - 1, subprefix : 0 .. 2^8 - 1, local_id : 0 .. 2^16 - 1,
   reply : DOMAIN Size \cup {None}]
ASSUME TypedMailboxAssumption ==
  /\ Size \in [DOMAIN Size -> Nat] /\ DOMAIN Size \cap {None, "status", "empty", "any", "clean"} = {}
  /\ Registries \subseteq Seq(Definition) \ {<<>>}
  /\ None \notin Definition
  /\ None \notin [kind : DOMAIN Size \cup {"any", "clean"}, timed : BOOLEAN, body : DOMAIN Size \cup {None},
                  cap : Nat]

VARIABLES
  defs, reg,    \* the registry and its MessageDefsTuple
  running,      \* running_, and is_initialized_ with it
  link,         \* socket_: "none", "registering", "open", or "eof" once the router closed it
  rx,           \* headers and bodies that have arrived
  rest,         \* payload type of the message whose body is still to arrive, or None
  control,      \* control frames sent by the router
  call,         \* the receive operation under way: [kind, cap, timed, body] or None
  result,       \* what the last one returned
  sending,      \* whether the header of a message has been sent and its body not yet
  lost          \* history: what made the reader take a body for a header

rxVars == <<rx, rest, control>>
vars == <<defs, reg, running, link, rxVars, call, result, sending, lost>>

Payloads == PayloadTypes(reg)
header(t) == [part |-> "header", of |-> t]
body(T) == [part |-> "body", of |-> T]
Nothing == [code |-> "none", why |-> "none", sent |-> None, seen |-> None]

Init ==
  /\ defs \in {d \in Registries : Compiles(d)} /\ reg = MessageDefsTuple(defs)
  /\ running = FALSE /\ link = "none" /\ rx = <<>> /\ rest = None /\ control = 0
  /\ call = None /\ result = Nothing /\ sending = FALSE /\ lost = "no"

-----------------------------------------------------------------------------
(* The router (external): it answers the registration, delivers messages   *)
(* and control frames, and may close the connection at any time. A         *)
(* registered mailbox gets messages even before the answer.                *)

Connected == link \in {"registering", "open"}
RouterControl(t) ==
  /\ Connected /\ rest = None /\ Len(rx) < MaxRx /\ control < MaxControl
  /\ rx' = Append(rx, header(t)) /\ control' = control + 1
  /\ UNCHANGED <<defs, reg, running, link, rest, call, result, sending, lost>>
RouterHeader(T) ==
  /\ Connected /\ rest = None /\ Len(rx) < MaxRx
  /\ rx' = Append(rx, header(T)) /\ rest' = T
  /\ UNCHANGED <<defs, reg, running, link, control, call, result, sending, lost>>
RouterBody ==
  /\ Connected /\ rest # None
  /\ rx' = Append(rx, body(rest)) /\ rest' = None
  /\ UNCHANGED <<defs, reg, running, link, control, call, result, sending, lost>>
RouterCloses ==
  /\ Connected /\ link' = "eof" /\ rest' = None
  /\ UNCHANGED <<defs, reg, running, rx, control, call, result, sending, lost>>

-----------------------------------------------------------------------------
(* start() and stop().                                                     *)

\* initialize(): connect, MSG_ROUTER_DISABLE_WATCHDOG, MSG_ROUTER_MBX_INIT_WITH_REPLY
Start ==
  /\ ~running /\ link = "none"
  /\ link' = "registering" /\ lost' = "no"
  /\ UNCHANGED <<defs, reg, running, rxVars, call, result, sending>>
\* The header read as the answer: any with the type of MSG_OK will do, that of
\* a message too
InitReply ==
  /\ link \in {"registering", "eof"} /\ ~running /\ rx # <<>>
  /\ IF Head(rx).of = "status"
     THEN link' = "none" /\ rx' = <<>> /\ rest' = None /\ UNCHANGED <<running, lost>>
     ELSE /\ running' = TRUE /\ link' = IF link = "eof" THEN "eof" ELSE "open"
          /\ rx' = Tail(rx) /\ lost' = IF Head(rx).of \in Payloads THEN "early message" ELSE lost
          /\ UNCHANGED rest
  /\ UNCHANGED <<defs, reg, control, call, result, sending>>
\* recv_all() fails: MailboxError::NotInitialized
InitFails ==
  /\ link = "eof" /\ ~running /\ rx = <<>>
  /\ link' = "none" /\ rest' = None
  /\ UNCHANGED <<defs, reg, running, rx, control, call, result, sending, lost>>
\* stop() closes the socket, with all that is on its way
Stop ==
  /\ running /\ call = None /\ ~sending
  /\ running' = FALSE /\ link' = "none" /\ rx' = <<>> /\ rest' = None
  /\ result' = Nothing
  /\ UNCHANGED <<defs, reg, control, call, sending, lost>>

-----------------------------------------------------------------------------
(* The receiving thread.                                                   *)

\* receive_any_for(), receive<T>() and clean(); timed is a positive timeout, else
\* the call polls once
Receive(kind, timed) ==
  /\ running /\ call = None
  /\ call' = [kind |-> kind, timed |-> timed, body |-> None,
              cap |-> IF kind \in Payloads THEN Size[kind] ELSE max_message_size(reg, Size)]
  /\ result' = Nothing
  /\ UNCHANGED <<defs, reg, running, link, rxVars, sending, lost>>

\* bytes <= 0; why is -ETIMEDOUT, -EMSGSIZE or -1
Code(why) ==
  IF call.kind # "any" THEN "false"
  ELSE IF ~call.timed \/ why = "closed" THEN "Timeout" ELSE "NetworkError"
Return(why) ==
  /\ call' = None
  /\ result' = [Nothing EXCEPT !.code = Code(why), !.why = why]

\* poll_in() <= 0
PollTimeout ==
  /\ call # None /\ call.body = None /\ rx = <<>> /\ link = "open"
  /\ Return("timeout")
  /\ UNCHANGED <<defs, reg, running, link, rxVars, sending, lost>>
\* Mutant: in the middle of a frame, the end of the stream is tried again
Mut_RecvFails ==
  /\ call # None /\ rx = <<>> /\ link = "eof"
  /\ IF call.body = None THEN Return("closed") ELSE UNCHANGED <<call, result>>
  /\ UNCHANGED <<defs, reg, running, link, rxVars, sending, lost>>
\* recv_all() of a header or a body fails
RecvFails ==
  /\ call # None /\ rx = <<>> /\ link = "eof"
  /\ Return("closed")
  /\ UNCHANGED <<defs, reg, running, link, rxVars, sending, lost>>
\* A status request is answered, a frame without a body skipped; then the loop
\* polls again, with the full timeout
RecvControl ==
  /\ call # None /\ call.body = None /\ rx # <<>> /\ Head(rx).of \in {"status", "empty"} /\ lost = "no"
  /\ rx' = Tail(rx)
  /\ UNCHANGED <<defs, reg, running, link, rest, control, call, result, sending, lost>>
\* The header of a message; one that does not fit the buffer returns -EMSGSIZE
\* and leaves the body
RecvHeader ==
  /\ call # None /\ call.body = None /\ rx # <<>> /\ Head(rx).of \in Payloads /\ lost = "no"
  /\ rx' = Tail(rx)
  /\ IF Size[Head(rx).of] > call.cap
     THEN Return("too long") /\ lost' = IF call.kind \in Payloads THEN "typed receive" ELSE call.kind
     ELSE call' = [call EXCEPT !.body = Head(rx).of] /\ UNCHANGED <<result, lost>>
  /\ UNCHANGED <<defs, reg, running, link, rest, control, sending>>

\* Registry::visit(): the payload type the message is deserialized as
Visit(T) == PayloadTypeFor(reg, get_message_id(reg, T))
\* The body: receive_any_for() hands it to the visitor, receive<T>() takes it
\* for a T if it can be deserialized as one, clean() goes on
RecvBody ==
  /\ call # None /\ call.body # None /\ rx # <<>>
  /\ rx' = Tail(rx)
  /\ \/ /\ call.kind = "clean" /\ call' = [call EXCEPT !.body = None] /\ UNCHANGED result
     \/ /\ call.kind # "clean" /\ call' = None
        /\ result' = IF call.kind = "any"
                     THEN [code |-> "ok", why |-> "none", sent |-> call.body, seen |-> Visit(call.body)]
                     ELSE [code |-> "ok", why |-> "none", sent |-> None, seen |-> call.kind]
     \/ call.kind \in Payloads \ {call.body} /\ Return("not a T")
  /\ UNCHANGED <<defs, reg, running, link, rest, control, sending, lost>>
\* Once a body is taken for a header, its bytes may say anything
RecvGarbage ==
  /\ call # None /\ lost # "no" /\ rx # <<>>
  /\ rx' = Tail(rx)
  /\ Return("too long") \/ Return("garbage") \/ UNCHANGED <<call, result>>
  /\ UNCHANGED <<defs, reg, running, link, rest, control, sending, lost>>

-----------------------------------------------------------------------------
(* The sending thread: header and body are two send_all() calls. A message *)
(* longer than max_msg_size, or a closed socket, gives NetworkError.       *)

SendHeader(T) ==
  /\ running /\ ~sending /\ link = "open" /\ Size[T] <= max_msg_size
  /\ sending' = TRUE
  /\ UNCHANGED <<defs, reg, running, link, rxVars, call, result, lost>>
SendBody ==
  /\ sending /\ sending' = FALSE
  /\ UNCHANGED <<defs, reg, running, link, rxVars, call, result, lost>>
\* send_reply() to the request received last
send_reply ==
  /\ result.code = "ok" /\ IsRequestPayload(reg, result.seen)
  /\ SendHeader(GetReplyPayloadFor(reg, result.seen))

Router ==
  \/ \E t \in {"status", "empty"} : RouterControl(t)
  \/ \E T \in Payloads : RouterHeader(T)
  \/ RouterBody \/ RouterCloses
Reader ==
  \/ InitReply \/ InitFails \/ PollTimeout \/ RecvFails \/ RecvControl \/ RecvHeader \/ RecvBody
  \/ RecvGarbage
Application ==
  \/ Start \/ Stop
  \/ \E timed \in BOOLEAN : Receive("any", timed)
  \/ \E kind \in {"clean"} \cup Payloads : Receive(kind, TRUE)
  \/ \E T \in Payloads : SendHeader(T)
  \/ send_reply
Next == Router \/ Reader \/ Application \/ SendBody
Spec == Init /\ [][Next]_vars
\* The threads run, and the router ends a frame it began
LiveSpec == Spec /\ WF_vars(Reader) /\ WF_vars(RouterBody)

-----------------------------------------------------------------------------
\* A message that receive_any_for() hands to the visitor has the payload type
\* it was sent with: for an orderly registry, whatever its automatic ids, its
\* replies and the frames received before, no two types share an id.
VisitedAsSent ==
  Orderly(defs) /\ result.sent # None => result.seen = result.sent

\* The replies of an orderly registry are those of its requests, in order, and
\* is_reply and filter_replies agree on them; if payload types are used once, the
\* reply sent for a request has the negated id of the request.
RepliesPaired ==
  Orderly(defs) =>
    LET requests == filter_requests(reg) IN
    /\ filter_replies(reg) = [k \in DOMAIN requests |-> ReplyMessageDef(requests[k])]
    /\ filter_replies(reg) = FilterTuple(reg, {d \in ToSet(reg) : is_reply(d)})
    /\ IsInjective([k \in DOMAIN reg |-> reg[k].payload]) =>
         \A T \in Payloads : IsRequestPayload(reg, T) =>
           LET r == GetReplyPayloadFor(reg, T) IN
           r \in Payloads /\ FindMessageDef(reg, r).local_id + FindMessageDef(reg, T).local_id = 2^16

\* The reader takes a body for a header only after a receive<T>() that met a
\* longer message, or a message that came before the answer to the
\* registration; receive_any_for() and clean() never lose the frame boundary,
\* across control frames, partial frames, closed connections and restarts.
\* Until then the bytes it takes for a body are those of the message whose
\* header it read, and those it takes for a header are one.
StaysInSync ==
  /\ lost \in {"no", "typed receive", "early message"}
  /\ lost = "no" /\ call # None /\ rx # <<>> =>
       IF call.body = None THEN Head(rx).part = "header" ELSE Head(rx) = body(call.body)

\* A receive that keeps the frame boundary returns, whatever the router does
\* half-way through a frame; clean() may go on as long as messages come.
ReceiveReturns == (call # None /\ lost = "no") ~> (call = None \/ call.kind = "clean" \/ lost # "no")

\* Timeout means that nothing came in time, and nothing else does.
TimeoutMeans ==
  result.code \in {"Timeout", "NetworkError"} => (result.code = "Timeout" <=> result.why = "timeout")
=============================================================================
