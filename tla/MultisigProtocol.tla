-------------------------- MODULE MultisigProtocol --------------------------
(***************************************************************************)
(* The multisig signing protocol: what a source wallet puts into a signing *)
(* request, what a participant checks before it believes one, and how      *)
(* signature shares are checked against the configuration.                 *)
(*                                                                         *)
(* Cryptography is external and ideal: a signature names the key that made *)
(* it and what it signs, an amount proof the key and the amount it proves. *)
(* An encoding is the value it encodes with a note of what the canonical   *)
(* encoder would say about it.                                             *)
(***************************************************************************)
EXTENDS Naturals, Sequences, Functions

CONSTANTS
  Mainnet,          \* the network whose addresses are mainnet addresses
  MaxParticipants   \* MAX_MULTISIG_PARTICIPANTS

ASSUME MaxParticipantsAssumption == MaxParticipants \in Nat

Version == 1

IsMainnet(network) == network = Mainnet

-----------------------------------------------------------------------------
(* Configurations and signature shares                                     *)

ValidSetup(threshold, count) ==
  /\ count # 0
  /\ count <= MaxParticipants
  /\ threshold # 0 /\ threshold <= count

\* is_multisig_participant_address_valid
ParticipantValid(address, network, own) ==
  /\ address.normal
  /\ address.mainnet = IsMainnet(network)
  /\ address.key # own

\* parse_multisig_participants: an ordered set of valid addresses.
ParticipantsValid(addresses, network, own) ==
  /\ \A i \in DOMAIN addresses : ParticipantValid(addresses[i], network, own)
  /\ \A i, j \in DOMAIN addresses : addresses[i] = addresses[j] => i = j

\* External: signing, and Signature::verify.
Sign(key, message) == [key |-> key, message |-> message, canonical |-> TRUE]
Verify(signature, message, key) ==
  signature.key = key /\ signature.message = message

\* The share is a signature of the hash by the participant with its id.
VerifySignature(hash, configuration, share) ==
  /\ share.signer_id < Len(configuration.participants)
  /\ share.signature.canonical
  /\ Verify(share.signature, hash, configuration.participants[share.signer_id + 1])

\* Exactly the threshold, every share verified, no participant twice.
BuildVerified(hash, configuration, shares) ==
  /\ Len(shares) = configuration.threshold
  /\ \A i \in DOMAIN shares : VerifySignature(hash, configuration, shares[i])
  /\ \A i, j \in DOMAIN shares :
       shares[i].signer_id = shares[j].signer_id => i = j

CreateShare(hash, signer_id, signature) ==
  [version |-> Version, signing_hash |-> hash, signer_id |-> signer_id,
   signature |-> signature, text |-> "canonical"]

\* Surrounding blanks are trimmed; any other deviation from the canonical
\* text is refused.
CanonicalText(text) == text \in {"canonical", "padded"}

ParseShare(share, hash) ==
  /\ share.text # "oversized"
  /\ share.version = Version
  /\ share.signing_hash = hash
  /\ CanonicalText(share.text)
  /\ share.signature.canonical

-----------------------------------------------------------------------------
(* Transactions: what a wallet declares, what it built, what it shows      *)

AddressOf(key, network) == [key |-> key, mainnet |-> IsMainnet(network)]

\* validate_transfer_public_details
PublicDetailsMatch(declared, actual, network) ==
  /\ declared.destination.mainnet = IsMainnet(network)
  /\ declared.destination.key = actual.destination
  /\ declared.asset = actual.asset
  /\ (declared.extra \/ declared.integrated) = actual.extra

\* External: MultiSigPayload::is_delete.
IsDelete(data) == data.threshold = 0 /\ data.participants = <<>>

\* The declared transaction matches the one that was built.
DeclarationMatches(declared, actual, network) ==
  /\ declared.type = actual.type
  /\ CASE declared.type = "Transfers" ->
            /\ Len(declared.transfers) = Len(actual.transfers)
            /\ \A i \in DOMAIN actual.transfers :
                 PublicDetailsMatch(declared.transfers[i], actual.transfers[i],
                                    network)
       [] declared.type = "Burn" -> declared = actual
       [] OTHER -> declared = actual /\ IsDelete(actual)

\* build_signing_request_transaction: the public details of what was built,
\* with a proof of every hidden amount.
RequestTransaction(declared, actual, network, source) ==
  CASE actual.type = "Transfers" ->
         [type |-> "Transfers",
          transfers |-> [i \in DOMAIN actual.transfers |->
            [amount |-> declared.transfers[i].amount,
             asset |-> actual.transfers[i].asset,
             destination |-> AddressOf(actual.transfers[i].destination, network),
             extra |-> actual.transfers[i].extra,
             proof |-> [key |-> source, canonical |-> TRUE,
                        amount |-> declared.transfers[i].amount]]]]
    [] actual.type = "Burn" -> actual
    [] OTHER -> [type |-> "DeleteMultisig"]

\* What the opened wallet shows for a declared transfer.
PreviewTransfer(t) == [amount |-> t.amount, asset |-> t.asset,
                       destination |-> t.destination, extra |-> t.extra]

\* External: BalanceProof::verify against the sender's ciphertext, which hides
\* the actual amount.
ProofVerifies(proof, source, actual) ==
  proof.key = source /\ proof.amount = actual.amount

TransferMatches(declared, actual, network, source) ==
  /\ declared.destination = AddressOf(actual.destination, network)
  /\ declared.asset = actual.asset
  /\ declared.extra = actual.extra
  /\ declared.proof.canonical
  /\ declared.proof.amount = declared.amount
  /\ ProofVerifies(declared.proof, source, actual)

\* Mutant: declared and actual transfers are zipped without comparing their
\* number.
PreviewMatches_Zipped(declared, actual, network, source) ==
  CASE declared.type = "Transfers" /\ actual.type = "Transfers" ->
         \A i \in DOMAIN declared.transfers \cap DOMAIN actual.transfers :
           TransferMatches(declared.transfers[i], actual.transfers[i], network,
                           source)
    [] declared.type = "Burn" /\ actual.type = "Burn" -> declared = actual
    [] declared.type = "DeleteMultisig" /\ actual.type = "MultiSig" ->
         IsDelete(actual)
    [] OTHER -> FALSE

\* validate_and_build_transaction_preview, its checks ...
PreviewMatches(declared, actual, network, source) ==
  CASE declared.type = "Transfers" /\ actual.type = "Transfers" ->
         /\ Len(declared.transfers) = Len(actual.transfers)
         /\ \A i \in DOMAIN actual.transfers :
              TransferMatches(declared.transfers[i], actual.transfers[i],
                              network, source)
    [] declared.type = "Burn" /\ actual.type = "Burn" -> declared = actual
    [] declared.type = "DeleteMultisig" /\ actual.type = "MultiSig" ->
         IsDelete(actual)
    [] OTHER -> FALSE

\* ... and its result.
Preview(declared) ==
  IF declared.type = "Transfers"
    THEN [type |-> "Transfers",
          transfers |-> [i \in DOMAIN declared.transfers |->
                           PreviewTransfer(declared.transfers[i])]]
    ELSE declared

-----------------------------------------------------------------------------
(* Signing requests                                                        *)

\* multisig_request_signing_bytes: the domain and the whole payload.
SigningBytes(payload) == [domain |-> "request", payload |-> payload]

\* create_multisig_signing_request, up to its own parsing of the result.
CreateRequest(unsigned, declared, network, source) ==
  LET payload == [version |-> Version, network |-> network,
                  unsigned |-> unsigned,
                  transaction |-> RequestTransaction(declared, unsigned.data,
                                                     network, source)]
  IN [payload |-> payload, text |-> "canonical",
      source_signature |-> Sign(source, SigningBytes(payload))]

\* The checks of parse_multisig_signing_request.
Accepts(envelope, network) ==
  LET payload == envelope.payload
      unsigned == payload.unsigned
  IN /\ envelope.text # "oversized"
     /\ payload.version = Version
     /\ payload.network = network
     /\ unsigned.encoding = "canonical"
     /\ ~unsigned.multisig
     /\ envelope.source_signature.canonical
     /\ Verify(envelope.source_signature, SigningBytes(payload), unsigned.source)
     /\ CanonicalText(envelope.text)
     /\ PreviewMatches(payload.transaction, unsigned.data, network,
                       unsigned.source)

\* External: UnsignedTransaction::get_hash_for_multisig covers all of it.
SigningHash(unsigned) == [source |-> unsigned.source, data |-> unsigned.data]

\* What an accepted request says: ParsedMultisigSigningRequest.
Parsed(envelope, network) ==
  [signing_hash |-> SigningHash(envelope.payload.unsigned),
   source |-> AddressOf(envelope.payload.unsigned.source, network),
   network |-> network,
   transaction |-> Preview(envelope.payload.transaction)]

=============================================================================
