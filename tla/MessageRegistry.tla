-------------------------- MODULE MessageRegistry --------------------------
(***************************************************************************)
(* The compile-time message registry (messaging/message_registry.hpp,      *)
(* message_id.hpp and registry_utils.hpp): a sequence of definitions       *)
(* [payload, prefix, subprefix, local_id, reply], where local_id 0 asks    *)
(* for an automatic id and reply is None for a message without a reply.    *)
(***************************************************************************)
EXTENDS Integers, Sequences, FiniteSets, SequencesExt, FiniteSetsExt

CONSTANT None

-----------------------------------------------------------------------------
(* MessageDefinition.                                                      *)

MAX_MESSAGE_ID == 2^15 - 1
System == 0
UserDefined == 1
\* The categories that may have a reply: System Subscription and Control,
\* UserDefined Commands, GetData and GetNextData
Replying == {<<System, 0>>, <<System, 1>>, <<UserDefined, 1>>, <<UserDefined, 3>>, <<UserDefined, 4>>}

make_message_id(prefix, subprefix, id) == prefix * 2^24 + subprefix * 2^16 + id
full_id(d) == make_message_id(d.prefix, d.subprefix, d.local_id)

has_reply(d) == d.reply # None
\* A local_id whose sign bit is set
is_reply(d) == ~has_reply(d) /\ d.local_id > MAX_MESSAGE_ID
needs_auto_id(d) == d.local_id = 0
\* Mutant: the reply keeps the id of its request
Mut_ReplyMessageDef(d) == [d EXCEPT !.payload = d.reply, !.reply = None]
\* The id of a reply is the negated id of its request, in 16 bits
ReplyMessageDef(d) ==
  [d EXCEPT !.payload = d.reply, !.local_id = (2^16 - d.local_id) % 2^16, !.reply = None]

\* The static_asserts of a definition
Accepted(d) == has_reply(d) => <<d.prefix, d.subprefix>> \in Replying /\ d.local_id <= MAX_MESSAGE_ID

-----------------------------------------------------------------------------
(* MessageRegistry.                                                        *)

SameGroup(d, e) == d.prefix = e.prefix /\ d.subprefix = e.subprefix
\* Mutant: the highest id is looked for in all groups but the own
Mut_HighestID(done, d) == Max({0} \cup {e.local_id : e \in {x \in ToSet(done) : ~SameGroup(x, d)}})
\* The highest id of the group among the definitions already processed
HighestID(done, d) ==
  Max({0} \cup {e.local_id : e \in {x \in ToSet(done) : SameGroup(x, d) /\ ~is_reply(x)}})
CurrentProcessed(done, d) == IF needs_auto_id(d) THEN [d EXCEPT !.local_id = HighestID(done, d) + 1] ELSE d
AutoAssignIDs(defs) ==
  LET done[n \in 0 .. Len(defs)] ==
        IF n = 0 THEN <<>> ELSE Append(done[n - 1], CurrentProcessed(done[n - 1], defs[n]))
  IN  done[Len(defs)]
ExpandReplies(defs) ==
  FlattenSeq([k \in DOMAIN defs |->
                IF has_reply(defs[k]) THEN <<defs[k], ReplyMessageDef(defs[k])>> ELSE <<defs[k]>>])
MessageDefsTuple(defs) == ExpandReplies(AutoAssignIDs(defs))
\* Ids that collide compile: nothing uses collisions_checked
Compiles(defs) == \A d \in ToSet(AutoAssignIDs(defs)) : Accepted(d)

\* Lookups in a processed registry: the first of the definitions that match
At(reg, k) == IF k = 0 THEN None ELSE reg[k]
PayloadTypes(reg) == {d.payload : d \in ToSet(reg)}
FindMessageDef(reg, T) == At(reg, SelectInSeq(reg, LAMBDA d : d.payload = T))
get_message_id(reg, T) == full_id(FindMessageDef(reg, T))
PayloadTypeFor(reg, id) ==
  LET d == At(reg, SelectInSeq(reg, LAMBDA e : full_id(e) = id)) IN IF d = None THEN None ELSE d.payload
\* Mutant: the replies are left out
Mut_max_message_size(reg, Size) == Max({Size[d.payload] : d \in {e \in ToSet(reg) : ~is_reply(e)}})
\* max_message_size, for the sizes of the payloads
max_message_size(reg, Size) == Max({Size[T] : T \in PayloadTypes(reg)})

-----------------------------------------------------------------------------
(* registry_utils.hpp.                                                     *)

\* The definitions that are in D, in their order
FilterTuple(reg, D) ==
  LET kept[n \in 0 .. Len(reg)] ==
        IF n = 0 THEN <<>> ELSE IF reg[n] \in D THEN Append(kept[n - 1], reg[n]) ELSE kept[n - 1]
  IN  kept[Len(reg)]
filter_requests(reg) == FilterTuple(reg, {d \in ToSet(reg) : has_reply(d)})
filter_replies(reg) == FilterTuple(reg, {d \in ToSet(reg) : d.local_id > MAX_MESSAGE_ID})
IsRequestPayload(reg, T) ==
  LET d == FindMessageDef(reg, T) IN d # None /\ has_reply(d)
GetReplyPayloadFor(reg, T) == ReplyMessageDef(FindMessageDef(reg, T)).payload

-----------------------------------------------------------------------------
\* The manual ids of a group come before its automatic ones, are distinct and
\* leave room for those.
Orderly(defs) ==
  /\ \A j, k \in DOMAIN defs : j < k /\ SameGroup(defs[j], defs[k]) /\ ~needs_auto_id(defs[k]) =>
       ~needs_auto_id(defs[j]) /\ defs[j].local_id # defs[k].local_id
  /\ \A k \in DOMAIN defs : defs[k].local_id + Len(defs) <= MAX_MESSAGE_ID
=============================================================================
