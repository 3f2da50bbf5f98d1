------------------------ MODULE TransactionProjection ------------------------
(***************************************************************************)
(* What a transaction of the wallet looks like across the bridge, and how  *)
(* much of its decrypted extra data goes with it.                          *)
(*                                                                         *)
(* An entry is its hash, the shape of its type, the extra data it carries  *)
(* (of a blob, or one per transfer) and `detail`, which stands for the     *)
(* amounts, fees and other public fields that are copied one to one.       *)
(***************************************************************************)
EXTENDS Sequences

CONSTANTS NoPayload   \* extra data that was not decrypted, or is withheld

Disclosure == {"Redacted", "Metadata", "Detailed"}

\* Entry types by where their extra data is.
BlobTypes == {"OutgoingBlob", "IncomingBlob"}
TransferTypes == {"Incoming", "Outgoing"}
PlainTypes == {"Coinbase", "Burn", "Multisig", "InvokeContract",
               "DeployContract", "IncomingContract"}

\* extra_data_payload_kind: the shape of the payload, never its content.
PayloadKind(payload) == payload.kind

\* Mutant: the metadata disclosure carries the payload as well.
ExtraData_Leaky(value, projection) ==
  [flag |-> value.flag,
   has_payload |-> value.data # NoPayload,
   payload |-> IF projection = "Redacted" THEN NoPayload ELSE value.data,
   payload_kind |-> IF projection = "Redacted" \/ value.data = NoPayload
                      THEN "none" ELSE PayloadKind(value.data)]

\* extra_data
ExtraData(value, projection) ==
  [flag |-> value.flag,
   has_payload |-> value.data # NoPayload,
   payload |-> IF projection = "Detailed" THEN value.data ELSE NoPayload,
   payload_kind |-> IF projection = "Redacted" \/ value.data = NoPayload
                      THEN "none" ELSE PayloadKind(value.data)]

\* transfer_in and transfer_out: a transfer without extra data stays without.
ProjectTransfer(transfer, projection) ==
  [transfer EXCEPT !.extra = [i \in DOMAIN @ |-> ExtraData(@[i], projection)]]

\* transaction_entry_data
EntryData(entry, projection) ==
  CASE entry.type \in TransferTypes ->
         [entry EXCEPT !.transfers =
            [i \in DOMAIN @ |-> ProjectTransfer(@[i], projection)]]
    [] entry.type \in BlobTypes ->
         [entry EXCEPT !.data = [i \in DOMAIN @ |-> ExtraData(@[i], projection)]]
    [] OTHER -> entry

\* transaction_entry; a pending transaction has no topoheight.
ProjectEntry(tx, projection) ==
  [hash |-> tx.hash, topoheight |-> tx.topoheight,
   entry |-> EntryData(tx.entry, projection)]

ProjectPending(tx, projection) ==
  [hash |-> tx.hash, entry |-> EntryData(tx.entry, projection)]

-----------------------------------------------------------------------------
(* What a projection may show                                              *)

\* An entry has its type, and extra data where its type says.
IsEntry(entry) ==
  /\ {"type", "transfers", "data"} \subseteq DOMAIN entry
  /\ \A i \in DOMAIN entry.transfers : "extra" \in DOMAIN entry.transfers[i]

\* The extra data of an entry, projected or not: of its transfers, in order, or
\* of its blob.
ExtraDataOf(entry) ==
  CASE entry.type \in TransferTypes ->
         [i \in DOMAIN entry.transfers |-> entry.transfers[i].extra]
    [] entry.type \in BlobTypes -> <<entry.data>>
    [] OTHER -> <<>>

\* "Redacted projection omits both, metadata adds only [payload_kind], and
\* detailed projection may include both.  [payload] is lossless".
Shows(shown, original, disclosure) ==
  /\ shown.has_payload <=> original.data # NoPayload
  /\ disclosure # "Detailed" => shown.payload = NoPayload
  /\ disclosure = "Redacted" => shown.payload_kind = "none"
  /\ disclosure = "Detailed" => shown.payload = original.data
  /\ disclosure # "Redacted" /\ shown.has_payload =>
       shown.payload_kind = original.data.kind

Discloses(shown, original, disclosure) ==
  LET s == ExtraDataOf(shown)
      o == ExtraDataOf(original)
  IN
  /\ DOMAIN s = DOMAIN o
  /\ \A i \in DOMAIN s :
       /\ DOMAIN s[i] = DOMAIN o[i]
       /\ \A j \in DOMAIN s[i] : Shows(s[i][j], o[i][j], disclosure)

=============================================================================
