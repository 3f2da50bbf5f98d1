------------------------------- MODULE MCXswd -------------------------------
(***************************************************************************)
(* The XSWD host for TLC: the dispatcher of native events, the calls of    *)
(* the bridge and the adapter, the capabilities of the Dart service and    *)
(* the payload of a permission request.  Each model has its own            *)
(* abstraction of the parts next to it, so a behaviour runs one of them,   *)
(* its focus, and leaves the others where they start.                      *)
(***************************************************************************)
EXTENDS XswdHost, TLC

CONSTANT p1

VARIABLES
  focus,                                               \* the model that runs
  limits, value, tokens, decoded                       \* XswdPayload

payloadVars == <<limits, value, tokens, decoded>>

-----------------------------------------------------------------------------
(* XswdCalls: policies of the known permission, alone, and next to an      *)
(* unknown and a prefixed name.  Two sessions of one application change    *)
(* their permissions, by one call at a time and by the decisions of the    *)
(* user; the calls of two applications overlap, and change none.           *)

OneApplication == [s \in Session |-> "app"]
KnownAndUnknown ==
  [{p1} -> {"Accept", "Ask"}] \cup [{p1, "unknown", "wallet"} -> {"Accept"}]

TwoApplications == INSTANCE XswdCalls WITH AppId <- [s \in Session |-> s]

-----------------------------------------------------------------------------
(* XswdPayload                                                             *)

Str(t, n) == [kind |-> "string", text |-> t, bytes |-> n]
Scalars == {[kind |-> "null"], Str("x", 1), Str("y", 2),
            [kind |-> "number", integer |-> TRUE, number |-> 7]}
ArraysOf(S) == {[kind |-> "array", items |-> i] : i \in {<<>>} \cup {<<v>> : v \in S}
                                                       \cup (S \X S)}
F(k, n, v) == [key |-> k, bytes |-> n, value |-> v]
ObjectsOf(S) ==
  {[kind |-> "object", fields |-> f] :
     f \in {<<>>} \cup {<<F("k", 1, v)>> : v \in S}
             \cup {<<F("k", 1, p[1]), F("kk", 2, p[2])>> : p \in S \X S}}

Small == {[kind |-> "bool", bool |-> TRUE], Str("y", 2)}

\* Objects of scalars and of small arrays and objects, and a root that is none.
PayloadValue ==
  {Str("x", 1)}
    \cup ObjectsOf(Scalars \cup ArraysOf(Small) \cup ObjectsOf(Small))

PayloadTechnical == [max_depth |-> 3, max_tokens |-> 7, max_container_members |-> 2,
                max_text_bytes |-> 2, max_total_text_bytes |-> 6]

PayloadLimits == [max_depth : {0, 2, 3}, max_tokens : {3, 7}, max_container_members : {1, 2},
             max_text_bytes : {1, 2, 3}, max_total_text_bytes : {1, 4, 6}]

Payload ==
  INSTANCE XswdPayload WITH
    Value <- PayloadValue, Limits <- PayloadLimits, Technical <- PayloadTechnical

\* XswdPayload's property of a permission request's parameters.
PayloadFaithful == focus = "payload" => Payload!PayloadFaithful

-----------------------------------------------------------------------------

\* Nothing orders sessions, or the calls and reads.
Symmetry == Permutations(Session) \cup Permutations(Read)

RunInit ==
  /\ focus \in {"dispatcher", "calls", "permissions", "sessions", "payload"}
  /\ Init /\ Calls!Init /\ Sessions!Init /\ Payload!Init
  /\ focus # "dispatcher" => nextRef = 1
  /\ focus # "payload" => limits = PayloadTechnical

RunNext ==
  \/ /\ focus = "dispatcher" /\ Next
     /\ UNCHANGED <<focus, callVars, sessionVars, payloadVars>>
  \/ /\ focus = "calls" /\ TwoApplications!Next /\ UNCHANGED <<perms, granted>>
     /\ UNCHANGED <<focus, vars, sessionVars, payloadVars>>
  \/ /\ focus = "permissions" /\ Calls!Next
     /\ \A c, d \in Call : call'[c].op # "none" /\ call'[d].op # "none" => c = d
     /\ UNCHANGED <<focus, vars, sessionVars, payloadVars>>
  \/ /\ focus = "sessions" /\ Sessions!Next
     /\ UNCHANGED <<focus, vars, callVars, payloadVars>>
  \/ /\ focus = "payload" /\ Payload!Next
     /\ UNCHANGED <<focus, vars, callVars, sessionVars>>

RunSpec ==
  RunInit /\ [][RunNext]_<<focus, vars, callVars, sessionVars, payloadVars>>
=============================================================================
