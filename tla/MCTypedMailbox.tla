--------------------------- MODULE MCTypedMailbox ---------------------------
(* All registries of up to two of the definitions below, two data messages *)
(* and two requests with automatic and with manual ids, and those of the   *)
(* two data messages followed by a request with an automatic id.           *)
EXTENDS TypedMailbox

def(T, s, i, R) == [payload |-> T, prefix |-> UserDefined, subprefix |-> s, local_id |-> i, reply |-> R]
Definitions ==
  {def("A", 0, i, None) : i \in {0, MAX_MESSAGE_ID}} \cup {def("B", 0, i, None) : i \in {0, 1}}
    \cup {def("C", 1, i, "R") : i \in {0, 2}} \cup {def("D", 1, 0, R) : R \in {"S", "R"}}
ValRegistries ==
  {d \in UNION {[1 .. n -> Definitions] : n \in 1 .. 3} :
     \A j, k \in DOMAIN d : /\ d[j].payload = d[k].payload => j = k
                           /\ Len(d) = 3 => d[1].payload = "B" /\ d[2].payload = "A" /\ d[3] = def("C", 1, 0, "R")}
ValSize == [T \in {"A", "B", "C", "D", "R", "S"} |-> IF T \in {"B", "R"} THEN 2 ELSE 1]

MCRegistries == ValRegistries
MCSize == ValSize
=============================================================================
