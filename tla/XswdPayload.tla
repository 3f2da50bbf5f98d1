----------------------------- MODULE XswdPayload -----------------------------
(***************************************************************************)
(* The payload of an XSWD permission request crosses the bridge as a flat  *)
(* list of tokens.  The native side walks the JSON value under the limits  *)
(* of the handler; the Dart side rebuilds the value under the same limits  *)
(* and treats any violation as an invalid payload.                         *)
(*                                                                         *)
(* A JSON value is [kind, ...]: a string has its text and length in bytes, *)
(* a number says whether it is an integer, an array has a sequence of      *)
(* values and an object a sequence of fields [key, bytes, value].          *)
(***************************************************************************)
EXTENDS Integers, Sequences, FiniteSets

CONSTANTS
  Value,       \* requests that arrive, as JSON
  Limits,      \* projection limits callers ask for
  Technical    \* the largest limits the code allows

VARIABLES
  limits,   \* of the handler
  value,    \* the request
  tokens,   \* what crosses the bridge
  decoded   \* what Dart makes of it

vars == <<limits, value, tokens, decoded>>

Nothing == [kind |-> "nothing"]
Refused == [error |-> TRUE]

\* The order of the checks of NativeXswdProjectionLimits::validate.
Field == <<"max_depth", "max_tokens", "max_container_members", "max_text_bytes",
           "max_total_text_bytes">>

Validate(l) ==
  /\ \A i \in DOMAIN Field : l[Field[i]] \in 1..Technical[Field[i]]
  /\ l.max_total_text_bytes >= l.max_text_bytes

Init ==
  /\ limits \in {l \in Limits : Validate(l)}
  /\ value = Nothing /\ tokens = Nothing /\ decoded = Nothing

-----------------------------------------------------------------------------
(* PayloadProjection                                                       *)

\* Its state: the tokens and the text so far, and whether a limit was met.
NewProjection == [error |-> FALSE, tokens |-> <<>>, text |-> 0]

Push(p, token) ==
  IF p.error \/ Len(p.tokens) >= limits.max_tokens THEN Refused
  ELSE [p EXCEPT !.tokens = Append(@, token)]

\* Mutant: a text is only compared with the limit for a single one.
AddText_Single(p, bytes) ==
  IF p.error THEN Refused
  ELSE IF bytes > limits.max_text_bytes THEN Refused
  ELSE p

AddText(p, bytes) ==
  IF p.error THEN Refused
  ELSE IF bytes > limits.max_text_bytes \/ p.text + bytes > limits.max_total_text_bytes
    THEN Refused
    ELSE [p EXCEPT !.text = @ + bytes]

\* A token has the one field of its kind; with_kind leaves the others empty.
Token(kind, field, x) == [kind |-> kind, field |-> field, value |-> x]

\* Integers in the i64 or u64 range keep their digits, others become floats.
NumberToken(v) ==
  IF v.integer THEN Token("Integer", "text", v.number) ELSE Token("Float", "float", v.number)

RECURSIVE ProjectValue(_, _, _), ProjectItems(_, _, _), ProjectFields(_, _, _)
ProjectValue(p, v, depth) ==
  IF p.error \/ depth > limits.max_depth THEN Refused
  ELSE CASE v.kind = "null" -> Push(p, Token("Null", "none", 0))
         [] v.kind = "bool" -> Push(p, Token("Bool", "bool", v.bool))
         [] v.kind = "string" ->
              Push(AddText(p, v.bytes), Token("StringValue", "text", <<v.text, v.bytes>>))
         [] v.kind = "number" -> Push(p, NumberToken(v))
         [] v.kind = "array" ->
              IF Len(v.items) > limits.max_container_members THEN Refused
              ELSE ProjectItems(Push(p, Token("ArrayStart", "length", Len(v.items))),
                                v.items, depth + 1)
         [] v.kind = "object" ->
              IF Len(v.fields) > limits.max_container_members THEN Refused
              ELSE ProjectFields(Push(p, Token("ObjectStart", "length", Len(v.fields))),
                                 v.fields, depth + 1)

ProjectItems(p, items, depth) ==
  IF items = <<>> THEN p
  ELSE ProjectItems(ProjectValue(p, Head(items), depth), Tail(items), depth)

ProjectFields(p, fields, depth) ==
  IF fields = <<>> THEN p
  ELSE LET f == Head(fields)
           key == Push(AddText(p, f.bytes), Token("ObjectKey", "text", <<f.key, f.bytes>>))
       IN ProjectFields(ProjectValue(key, f.value, depth), Tail(fields), depth)

-----------------------------------------------------------------------------
(* _XswdPayloadDecoder                                                     *)

\* Its state: the next token, the text so far and the value read last.
Reader(ok, index, text, v) == [ok |-> ok, index |-> index, text |-> text, value |-> v]
Broken == Reader(FALSE, 0, 0, Nothing)

ReadText(r, token) ==
  IF token.field # "text" \/ token.value[2] > limits.max_text_bytes
       \/ r.text + token.value[2] > limits.max_total_text_bytes
    THEN Broken
    ELSE [r EXCEPT !.text = @ + token.value[2]]

RECURSIVE ReadValue(_, _, _), ReadItems(_, _, _, _, _), ReadFields(_, _, _, _, _)
ReadValue(ts, r, depth) ==
  IF ~r.ok \/ depth > limits.max_depth \/ r.index > Len(ts) THEN Broken
  ELSE LET t == ts[r.index]
           next == [r EXCEPT !.index = @ + 1]
           Scalar(v) == [next EXCEPT !.value = v]
       IN CASE t.kind = "Null" -> Scalar([kind |-> "null"])
            [] t.kind = "Bool" -> Scalar([kind |-> "bool", bool |-> t.value])
            [] t.kind = "StringValue" ->
                 [ReadText(next, t) EXCEPT
                    !.value = [kind |-> "string", text |-> t.value[1], bytes |-> t.value[2]]]
            [] t.kind \in {"Integer", "Float"} ->
                 Scalar([kind |-> "number", integer |-> t.kind = "Integer", number |-> t.value])
            [] t.kind = "ArrayStart" ->
                 IF t.value > limits.max_container_members THEN Broken
                 ELSE ReadItems(ts, next, t.value, depth + 1, <<>>)
            [] t.kind = "ObjectStart" ->
                 IF t.value > limits.max_container_members THEN Broken
                 ELSE ReadFields(ts, next, t.value, depth + 1, <<>>)
            [] OTHER -> Broken

ReadItems(ts, r, length, depth, items) ==
  IF ~r.ok THEN Broken
  ELSE IF length = 0 THEN [r EXCEPT !.value = [kind |-> "array", items |-> items]]
  ELSE LET item == ReadValue(ts, r, depth)
       IN ReadItems(ts, item, length - 1, depth, Append(items, item.value))

ReadFields(ts, r, length, depth, fields) ==
  IF ~r.ok THEN Broken
  ELSE IF length = 0 THEN [r EXCEPT !.value = [kind |-> "object", fields |-> fields]]
  ELSE IF r.index > Len(ts) THEN Broken
  ELSE LET t == ts[r.index]
           key == ReadText([r EXCEPT !.index = @ + 1], t)
           item == ReadValue(ts, key, depth)
       IN IF t.kind # "ObjectKey" \/ \E i \in DOMAIN fields : fields[i].key = t.value[1]
            THEN Broken
            ELSE ReadFields(ts, item, length - 1, depth,
                            Append(fields, [key |-> t.value[1], bytes |-> t.value[2],
                                            value |-> item.value]))

-----------------------------------------------------------------------------
(* A request                                                               *)

Receive(v) ==
  /\ value = Nothing
  /\ value' = v
  /\ UNCHANGED <<limits, tokens, decoded>>

\* NativeXswdPayload::project; the root has to be an object.
Project ==
  /\ value # Nothing /\ tokens = Nothing
  /\ tokens' = IF value.kind # "object" THEN Refused
               ELSE ProjectValue(NewProjection, value, 1)
  /\ UNCHANGED <<limits, value, decoded>>

\* _xswdPayloadFromGenerated
Decode ==
  /\ tokens # Nothing /\ tokens # Refused /\ decoded = Nothing
  /\ LET ts == tokens.tokens
         r == ReadValue(ts, Reader(TRUE, 1, 0, Nothing), 1)
     IN decoded' = IF Len(ts) \in 1..limits.max_tokens /\ r.ok /\ r.index = Len(ts) + 1
                        /\ r.value.kind = "object"
                     THEN r.value ELSE [kind |-> "invalid"]
  /\ UNCHANGED <<limits, value, tokens>>

\* The decision was made, or the request refused.
Answered ==
  /\ decoded # Nothing \/ tokens = Refused
  /\ value' = Nothing /\ tokens' = Nothing /\ decoded' = Nothing
  /\ UNCHANGED limits

Next == (\E v \in Value : Receive(v)) \/ Project \/ Decode \/ Answered

Spec == Init /\ [][Next]_vars

-----------------------------------------------------------------------------
(* Properties                                                              *)

\* Measures of a value, by their meaning and not by the walk.
RECURSIVE Depth(_), Tokens(_), Texts(_), Members(_)
Children(v) ==
  CASE v.kind = "array" -> v.items
    [] v.kind = "object" -> [i \in DOMAIN v.fields |-> v.fields[i].value]
    [] OTHER -> <<>>
MaxOf(S) == CHOOSE n \in S : \A m \in S : m <= n
RECURSIVE Total(_)
Total(s) == IF s = <<>> THEN 0 ELSE Head(s) + Total(Tail(s))
Depth(v) == 1 + MaxOf({0} \cup {Depth(Children(v)[i]) : i \in DOMAIN Children(v)})
Tokens(v) == 1 + (IF v.kind = "object" THEN Len(v.fields) ELSE 0)
               + Total([i \in DOMAIN Children(v) |-> Tokens(Children(v)[i])])
Texts(v) ==
  (IF v.kind = "string" THEN <<v.bytes>>
   ELSE IF v.kind = "object" THEN [i \in DOMAIN v.fields |-> v.fields[i].bytes]
   ELSE <<>>) \o
  LET RECURSIVE All(_)
      All(s) == IF s = <<>> THEN <<>> ELSE Texts(Head(s)) \o All(Tail(s))
  IN All(Children(v))
Members(v) == MaxOf({Len(Children(v))} \cup {Members(Children(v)[i]) : i \in DOMAIN Children(v)})

Fits(v) ==
  /\ v.kind = "object"
  /\ Depth(v) <= limits.max_depth /\ Tokens(v) <= limits.max_tokens
  /\ Members(v) <= limits.max_container_members
  /\ \A i \in DOMAIN Texts(v) : Texts(v)[i] <= limits.max_text_bytes
  /\ Total(Texts(v)) <= limits.max_total_text_bytes

\* A request crosses the bridge exactly when its whole value fits the limits,
\* and the application then reviews that very value: the two sides, written in
\* two languages, count depth, tokens, members and text alike.
PayloadFaithful ==
  /\ tokens # Nothing => ((tokens # Refused) <=> Fits(value))
  /\ decoded # Nothing => decoded = value

=============================================================================
