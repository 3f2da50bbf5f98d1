------------------------ MODULE MultisigParticipant -------------------------
(***************************************************************************)
(* A participant wallet that inspects and signs multisig requests.  A      *)
(* request reaches it over a channel that the package does not provide: it *)
(* may arrive damaged, mixed up with another one, re-encoded, or from a    *)
(* wallet of another version or network.  The participant looks up the     *)
(* source's configuration at its node, which takes an await during which   *)
(* the configuration may change or the wallet go offline.                  *)
(*                                                                         *)
(* The source wallet is the one of PendingMultisig.  That module lets any  *)
(* signature share arrive and this one any request, so they share          *)
(* constants and no variable.                                              *)
(***************************************************************************)
EXTENDS PendingMultisig

CONSTANTS
  Self,            \* the key of the participant's wallet; Own is the source's
  Wallet,          \* keys of the wallets that write requests
  Network,         \* networks
  Declared,        \* transactions the source wallet may declare
  MaxAlterations   \* bound on what happens to a request under way

ASSUME ParticipantAssumption ==
  /\ MaxAlterations \in Nat
  /\ \A d \in Declared :
       /\ d.type \in {"Transfers", "Burn", "MultiSig"}
       /\ d.type = "Transfers" => d.transfers \in Seq(Range(d.transfers))

VARIABLES
  envelope,     \* the request as it is in the channel
  alterations,  \* what has happened to it so far
  attested,     \* history: the payloads the source wallet has signed
  chain,        \* external: the source's configuration on the chain
  online,       \* external: the wallet has a network handler
  reading,      \* the call in progress
  shown,        \* history: the request last returned to, or signed for, the user
  signed        \* history: the share it got

participantVars == <<envelope, alterations, attested, chain, online, reading, shown, signed>>

NoEnvelope == [text |-> "none"]
Idle == [op |-> "none"]

ParticipantInit ==
  /\ envelope = NoEnvelope
  /\ alterations = 0
  /\ attested = {}
  /\ chain \in Configuration \cup {NoConfiguration}
  /\ online \in BOOLEAN
  /\ reading = Idle
  /\ shown = Idle
  /\ signed = {}

-----------------------------------------------------------------------------
(* The source wallet and the channel                                       *)

\* External: what the transaction builder makes of a declaration.
Built(declared) ==
  IF declared.type = "Transfers"
    THEN [type |-> "Transfers",
          transfers |-> [i \in DOMAIN declared.transfers |->
            [amount |-> declared.transfers[i].amount,
             asset |-> declared.transfers[i].asset,
             destination |-> declared.transfers[i].destination.key,
             extra |-> declared.transfers[i].extra
                         \/ declared.transfers[i].integrated]]]
    ELSE declared

Unsigned(key, declared) == [source |-> key, data |-> Built(declared),
                            multisig |-> FALSE, encoding |-> "canonical"]

\* store_pending_multisig_transaction as far as the channel is concerned: the
\* request exists if the source wallet itself accepts it.
Compose(declared, network) ==
  LET unsigned == Unsigned(Own, declared)
      composed == CreateRequest(unsigned, declared, network, Own)
  IN /\ envelope = NoEnvelope
     /\ DeclarationMatches(declared, unsigned.data, network)
     /\ Accepts(composed, network)
     /\ envelope' = composed
     /\ attested' = attested \cup {composed.payload}
     /\ UNCHANGED <<alterations, chain, online, reading, shown, signed>>

\* A request of another wallet, which may describe its transaction wrongly.
ComposeForeign(key, built, described, network) ==
  LET payload == [version |-> Version, network |-> network,
                  unsigned |-> Unsigned(key, built),
                  transaction |-> RequestTransaction(described,
                                    Built(described), network, key)]
  IN /\ envelope = NoEnvelope
     /\ envelope' = [payload |-> payload, text |-> "canonical",
                     source_signature |-> Sign(key, SigningBytes(payload))]
     /\ UNCHANGED <<alterations, attested, chain, online, reading, shown, signed>>

\* The request's own text, or a part of it, is not what was sent.
Altered(e) ==
  {[e EXCEPT !.text = t] : t \in {"padded", "reordered", "oversized"}}
  \cup {[e EXCEPT !.payload.version = 2]}
  \cup {[e EXCEPT !.payload.network = n] : n \in Network}
  \cup {[e EXCEPT !.payload.unsigned.multisig = TRUE]}
  \cup {[e EXCEPT !.payload.unsigned.encoding = c] :
          c \in {"other", "oversized", "invalid"}}
  \cup {[e EXCEPT !.payload.unsigned = Unsigned(k, d)] :
          k \in Wallet, d \in Declared}
  \cup {[e EXCEPT !.payload.transaction =
            RequestTransaction(d, Built(d), n, e.payload.unsigned.source)] :
          d \in Declared, n \in Network}
  \cup {[e EXCEPT !.source_signature.canonical = FALSE]}

Alter ==
  /\ envelope # NoEnvelope
  /\ alterations < MaxAlterations
  /\ envelope' \in Altered(envelope)
  /\ alterations' = alterations + 1
  /\ UNCHANGED <<attested, chain, online, reading, shown, signed>>

-----------------------------------------------------------------------------
(* The participant wallet                                                  *)

\* inspect_multisig_signing_request and sign_multisig_signing_request parse the
\* request, or return an error; the next step of the call is an await.
Begin(op, network) ==
  /\ envelope # NoEnvelope
  /\ reading = Idle
  /\ Accepts(envelope, network)
  /\ reading' = [op |-> op, request |-> Parsed(envelope, network)]
  /\ UNCHANGED <<envelope, alterations, attested, chain, online, shown, signed>>

\* resolve_active_multisig_configuration: the id of the opened wallet, if it is
\* a participant of an active and valid configuration.
Active(state) ==
  /\ state # NoConfiguration
  /\ ValidSetup(state.threshold, Len(state.participants))

SignerIds(state) ==
  {i \in 0 .. Len(state.participants) - 1 : state.participants[i + 1] = Self}

\* Resolved: an inspection returns the request with what the node said ...
Inspect ==
  /\ reading.op = "inspect"
  /\ online /\ Active(chain)
  /\ shown' = reading.request
  /\ signed' = {}
  /\ reading' = Idle
  /\ UNCHANGED <<envelope, alterations, attested, chain, online>>

\* ... and a participant signs the hash.
SignRequest ==
  /\ reading.op = "sign"
  /\ online /\ Active(chain)
  /\ \E id \in SignerIds(chain) :
       signed' = {CreateShare(reading.request.signing_hash, id,
                              Sign(Self, reading.request.signing_hash))}
  /\ shown' = reading.request
  /\ reading' = Idle
  /\ UNCHANGED <<envelope, alterations, attested, chain, online>>

\* No network handler, a failed lookup, an inactive configuration, or a wallet
\* that is no participant.
Refuse ==
  /\ reading # Idle
  /\ reading' = Idle
  /\ UNCHANGED <<envelope, alterations, attested, chain, online, shown, signed>>

\* External: consensus changes the source's configuration; the wallet connects
\* or disconnects.
ChainChanges ==
  /\ chain' \in Configuration \cup {NoConfiguration}
  /\ UNCHANGED <<envelope, alterations, attested, online, reading, shown, signed>>

ToggleOnline ==
  /\ online' = ~online
  /\ UNCHANGED <<envelope, alterations, attested, chain, reading, shown, signed>>

ParticipantNext ==
  \/ \E d \in Declared, n \in Network : Compose(d, n)
  \/ \E k \in Wallet \ {Own}, d, f \in Declared, n \in Network :
       ComposeForeign(k, d, f, n)
  \/ Alter
  \/ \E op \in {"inspect", "sign"}, n \in Network : Begin(op, n)
  \/ Inspect \/ SignRequest \/ Refuse
  \/ ChainChanges \/ ToggleOnline

ParticipantSpec == ParticipantInit /\ [][ParticipantNext]_participantVars

-----------------------------------------------------------------------------
(* Properties                                                              *)

\* What a transaction does, as a user would have to be told.
Describe(data, network) ==
  CASE data.type = "Transfers" ->
         [type |-> "Transfers",
          transfers |-> [i \in DOMAIN data.transfers |->
            [amount |-> data.transfers[i].amount,
             asset |-> data.transfers[i].asset,
             destination |-> AddressOf(data.transfers[i].destination, network),
             extra |-> data.transfers[i].extra]]]
    [] data.type = "Burn" -> data
    [] OTHER -> [type |-> "DeleteMultisig"]

\* "so a participant can inspect the typed transaction instead of blindly
\* signing a hash": whatever the channel does to a request, one that is shown
\* or signed describes exactly the transaction behind the hash, and a request
\* attributed to the source wallet was attested by it for this network.
RequestFaithful ==
  shown # Idle =>
    /\ shown.transaction = Describe(shown.signing_hash.data, shown.network)
    /\ shown.source.key = Own =>
         \E p \in attested : /\ SigningHash(p.unsigned) = shown.signing_hash
                             /\ p.network = shown.network
    /\ \A s \in signed : s.signature.message = shown.signing_hash

=============================================================================
