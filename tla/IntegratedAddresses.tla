------------------------- MODULE IntegratedAddresses -------------------------
(***************************************************************************)
(* The typed data of integrated addresses: the tagged wire values that     *)
(* cross the bridge, their conversion to and from the protocol's data      *)
(* elements, and the pure address functions built on them.                 *)
(*                                                                         *)
(* A protocol value is [type, value]; integers keep their width.  On the   *)
(* wire an integer is a decimal text, here the number it spells and        *)
(* whether it is spelled canonically, and a hash is a hex text, here the   *)
(* hash and its letter case.  Elements nest: an array is a sequence of     *)
(* elements and fields are a sequence of key/value pairs.                  *)
(***************************************************************************)
EXTENDS Naturals, Sequences, SequencesExt

CONSTANTS
  Mainnet,            \* one of Networks
  Networks,
  Key,                \* public keys
  Width,              \* bits of every unsigned integer type
  CollectionLimit,    \* 255 entries
  BlobLimit,          \* 65535 bytes
  SizeLimit,          \* EXTRA_DATA_LIMIT_SIZE
  Wire                \* the wire elements that callers pass

VARIABLES
  call,       \* the inputs of the call, and how far it is
  descriptor  \* what make_integrated_address, then parse_address, returned

vars == <<call, descriptor>>

Error(kind) == [kind |-> "error", error |-> kind]
IsError(r) == r.kind = "error"

-----------------------------------------------------------------------------
(* Values                                                                  *)

IntegerType == DOMAIN Width

\* DataValue -> NativeXelisDataValue
ValueFromXelis(v) ==
  CASE v.type \in IntegerType ->
         [kind |-> "unsigned", type |-> v.type, value |-> v.value, canonical |-> TRUE]
    [] v.type = "Hash" -> [kind |-> "hash", value |-> v.value, lower |-> TRUE]
    [] OTHER -> [kind |-> "plain", type |-> v.type, value |-> v.value]

ParseUnsigned(w) ==
  IF w.value >= 2^Width[w.type] THEN Error("UNSIGNED_INVALID")
  ELSE IF ~w.canonical THEN Error("UNSIGNED_NON_CANONICAL")
  ELSE [kind |-> "value", type |-> w.type, value |-> w.value]

\* NativeXelisDataValue -> DataValue; a blob's value is its length.
ValueIntoXelis(w) ==
  CASE w.kind = "unsigned" -> ParseUnsigned(w)
    [] w.kind = "hash" -> [kind |-> "value", type |-> "Hash", value |-> w.value]
    [] w.kind = "badHash" -> Error("HASH_INVALID")
    [] OTHER -> IF w.type = "Blob" /\ w.value > BlobLimit
                  THEN Error("BLOB_TOO_LARGE")
                  ELSE [kind |-> "value", type |-> w.type, value |-> w.value]

-----------------------------------------------------------------------------
(* Elements                                                                *)

RECURSIVE FromXelis(_)
FromXelis(d) ==
  CASE d.kind = "value" -> ValueFromXelis(d)
    [] d.kind = "array" ->
         [kind |-> "array",
          values |-> [i \in DOMAIN d.values |-> FromXelis(d.values[i])]]
    [] d.kind = "fields" ->
         [kind |-> "fields",
          fields |-> [i \in DOMAIN d.fields |->
                        [key |-> ValueFromXelis(d.fields[i].key),
                         value |-> FromXelis(d.fields[i].value)]]]

EnsureCollectionLimit(length) == length <= CollectionLimit

\* The first error of a sequence of conversions decides.
FirstError(results) == SelectInSeq(results, IsError)

\* Mutant: keys are compared as they were spelled.
DuplicateAt_Spelling(fields, keys, i) ==
  \E j \in 1..(i - 1) : fields[j].key = fields[i].key

\* Field i repeats the converted key of an earlier field.
DuplicateAt(fields, keys, i) == \E j \in 1..(i - 1) : keys[j] = keys[i]

RECURSIVE IntoXelis(_)
IntoXelis(w) ==
  CASE w.kind = "array" ->
         IF ~EnsureCollectionLimit(Len(w.values)) THEN Error("COLLECTION_TOO_LARGE")
         ELSE LET values == [i \in DOMAIN w.values |-> IntoXelis(w.values[i])]
                  bad == FirstError(values)
              IN IF bad # 0 THEN values[bad] ELSE [kind |-> "array", values |-> values]
    [] w.kind = "fields" ->
         IF ~EnsureCollectionLimit(Len(w.fields)) THEN Error("COLLECTION_TOO_LARGE")
         ELSE LET keys == [i \in DOMAIN w.fields |-> ValueIntoXelis(w.fields[i].key)]
                  values == [i \in DOMAIN w.fields |-> IntoXelis(w.fields[i].value)]
                  outcome == [i \in DOMAIN w.fields |->
                    IF IsError(keys[i]) THEN keys[i]
                    ELSE IF DuplicateAt(w.fields, keys, i) THEN Error("FIELD_DUPLICATE")
                    ELSE values[i]]
                  bad == FirstError(outcome)
              IN IF bad # 0 THEN outcome[bad]
                 ELSE [kind |-> "fields",
                       fields |-> [i \in DOMAIN keys |->
                                     [key |-> keys[i], value |-> values[i]]]]
    [] OTHER -> ValueIntoXelis(w)

-----------------------------------------------------------------------------
(* Addresses: [key, mainnet, data], data being NoData for a normal one     *)

NoData == [kind |-> "none"]
Normal(key, mainnet) == [key |-> key, mainnet |-> mainnet, data |-> NoData]

\* External: an address text spells one address, canonically or not.
ParseText(text) == IF text.valid THEN text.address ELSE Error("ADDRESS_INVALID")
AddressText(address) == [valid |-> TRUE, address |-> address]
BadText == [valid |-> FALSE, address |-> Error("ADDRESS_INVALID")]

\* External: the serialized size; what matters is that nesting adds up.
RECURSIVE Size(_)
Size(d) ==
  CASE d.kind = "array" -> FoldSeq(LAMBDA x, n : n + Size(x), 1, d.values)
    [] d.kind = "fields" -> FoldSeq(LAMBDA x, n : n + 1 + Size(x.value), 1, d.fields)
    [] OTHER -> 1

Describe(address) ==
  [kind |-> "descriptor",
   encoded_address |-> AddressText(address),
   base_address |-> AddressText(Normal(address.key, address.mainnet)),
   is_mainnet |-> address.mainnet,
   integrated_data |-> IF address.data = NoData THEN NoData ELSE FromXelis(address.data)]

ParseXelisAddress(text) == ParseText(text)

ParseAddress(text) ==
  LET address == ParseXelisAddress(text) IN
  IF text.valid THEN Describe(address) ELSE address

IsAddressValid(text, network) ==
  text.valid /\ (text.address.mainnet <=> network = Mainnet)

MakeIntegratedAddress(base, integrated) ==
  LET address == ParseXelisAddress(base)
      data == IntoXelis(integrated)
  IN IF ~base.valid THEN address
     ELSE IF address.data # NoData THEN Error("ADDRESS_NOT_NORMAL")
     ELSE IF IsError(data) THEN data
     ELSE IF Size(data) > SizeLimit THEN Error("DATA_TOO_LARGE")
     ELSE Describe([address EXCEPT !.data = data])

-----------------------------------------------------------------------------

Base == {AddressText(Normal(k, m)) : k \in Key, m \in BOOLEAN} \cup {BadText}

NoDescriptor == [kind |-> "none"]

Init ==
  /\ call \in [pc : {"make"}, base : Base, data : Wire]
  /\ descriptor = NoDescriptor

Make ==
  /\ call.pc = "make"
  /\ descriptor' = MakeIntegratedAddress(call.base, call.data)
  /\ call' = [call EXCEPT !.pc = "made"]

\* The caller parses the address it got, or makes another one from it.
Parse ==
  /\ call.pc = "made" /\ ~IsError(descriptor)
  /\ descriptor' = ParseAddress(descriptor.encoded_address)
  /\ call' = [call EXCEPT !.pc = "parsed"]

MakeAgain ==
  /\ call.pc = "made" /\ ~IsError(descriptor)
  /\ call' = [call EXCEPT !.pc = "make", !.base = descriptor.encoded_address]
  /\ descriptor' = NoDescriptor

Next == Make \/ Parse \/ MakeAgain

Spec == Init /\ [][Next]_vars

-----------------------------------------------------------------------------
(* Properties                                                              *)

\* The wire element with every hash in lower case.
RECURSIVE Canonical(_)
Canonical(w) ==
  CASE w.kind = "hash" -> [w EXCEPT !.lower = TRUE]
    [] w.kind = "array" ->
         [w EXCEPT !.values = [i \in DOMAIN @ |-> Canonical(@[i])]]
    [] w.kind = "fields" ->
         [w EXCEPT !.fields = [i \in DOMAIN @ |->
            [key |-> Canonical(@[i].key), value |-> Canonical(@[i].value)]]]
    [] OTHER -> w

\* "Lossless native projection of a parsed XELIS address": the descriptor of a
\* made address, and the one parsed back from its text, carry the very data the
\* caller gave, element for element in order and width, on the same network
\* and over the same normal address, and no address is made from one that
\* already carries data or has two equal keys.
AddressLossless ==
  descriptor.kind = "descriptor" =>
    LET base == call.base.address
        data == descriptor.integrated_data
    IN
    /\ data = Canonical(call.data)
    /\ data.kind = "fields" =>
         \A i, j \in DOMAIN data.fields :
           data.fields[i].key = data.fields[j].key => i = j
    /\ base.data = NoData
    /\ descriptor.base_address = call.base
    /\ \A n \in Networks :
         IsAddressValid(call.base, n) <=> IsAddressValid(descriptor.encoded_address, n)

=============================================================================
