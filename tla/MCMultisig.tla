----------------------------- MODULE MCMultisig -----------------------------
(***************************************************************************)
(* The two sides of multisig signing for TLC: the source wallet, which     *)
(* keeps requests and finalizes them, and a participant, which receives a  *)
(* request through a channel.  A behaviour runs one of them, its focus,    *)
(* and leaves the other where it starts.                                   *)
(***************************************************************************)
EXTENDS MultisigParticipant, TLC

CONSTANTS k1, k2, other, test, xel, tok

VARIABLE focus    \* the model that runs

-----------------------------------------------------------------------------
(* PendingMultisig: two of two participants, and another configuration in  *)
(* which one of them has another id.                                       *)

MCKey == {k1, k2}
MCConfiguration ==
  {[threshold |-> 2, participants |-> <<k1, k2>>],
   [threshold |-> 1, participants |-> <<k2>>]}

Address(key, normal, mainnet) ==
  [key |-> key, normal |-> normal, mainnet |-> mainnet]

\* A valid setup, and one of every kind that is refused.
MCSetupInput ==
  {[threshold |-> 0, participants |-> <<Address(k1, TRUE, TRUE)>>]}
  \cup
  {[threshold |-> 1, participants |-> p] :
     p \in {<<>>, <<Address(k1, TRUE, TRUE)>>, <<Address(k1, FALSE, TRUE)>>,
            <<Address(k1, TRUE, FALSE)>>, <<Address(Own, TRUE, TRUE)>>,
            <<Address(k2, TRUE, TRUE), Address(k2, TRUE, TRUE)>>}}

Symmetry == Permutations(Call) \cup Permutations(Hash)

-----------------------------------------------------------------------------
(* MultisigParticipant: transfers that differ in one detail each, two in   *)
(* either order, a burn, and the deletion of the configuration.            *)

Transfer(amount, asset, integrated) ==
  [amount |-> amount, asset |-> asset, extra |-> FALSE,
   integrated |-> integrated, destination |-> [key |-> other, mainnet |-> TRUE]]

MCDeclared ==
  {[type |-> "Transfers", transfers |-> ts] :
     ts \in {<<Transfer(1, xel, FALSE)>>,
             <<Transfer(2, xel, FALSE)>>,
             <<Transfer(1, xel, TRUE)>>,
             <<Transfer(1, xel, FALSE), Transfer(2, tok, FALSE)>>,
             <<Transfer(2, tok, FALSE), Transfer(1, xel, FALSE)>>}}
  \cup {[type |-> "Burn", asset |-> xel, amount |-> 1],
        [type |-> "MultiSig", threshold |-> 0, participants |-> <<>>]}

MCWallet == {k1, Own, other}
MCNetwork == {Mainnet, test}

-----------------------------------------------------------------------------

RunInit ==
  /\ focus \in {"pending", "participant"} /\ Init /\ ParticipantInit
  /\ focus # "pending" => stored = NoConfiguration
  /\ focus # "participant" => chain = NoConfiguration /\ ~online

RunNext ==
  \/ focus = "pending" /\ Next /\ UNCHANGED <<focus, participantVars>>
  \/ focus = "participant" /\ ParticipantNext /\ UNCHANGED <<focus, vars>>

RunSpec == RunInit /\ [][RunNext]_<<focus, vars, participantVars>>
=============================================================================
