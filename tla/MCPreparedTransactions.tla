----------------------- MODULE MCPreparedTransactions -----------------------
(***************************************************************************)
(* Building a transaction and the slot that keeps a prepared one, for TLC. *)
(* PreparedTransactions does not look into a transaction, and              *)
(* TransactionBuilding prepares one at a time, so a behaviour runs one of  *)
(* them, its focus, and leaves the other where it starts.                  *)
(***************************************************************************)
EXTENDS WalletTransactions, Integers, Sequences, TLC

VARIABLE focus    \* the model that runs

Symmetry == Permutations(Call) \cup Permutations(Hash)

-----------------------------------------------------------------------------
(* TransactionBuilding                                                     *)

Address(key, data) == [valid |-> TRUE, key |-> key, data |-> data]
R(amount, asset, destination, extra, encrypt) ==
  [amount |-> amount, asset |-> asset, destination |-> destination,
   extra_data |-> extra, encrypt |-> encrypt]

MCNobody == Address("nobody", NoData)
MCDecimals == [xelis |-> 1, token |-> 2]

\* Plain, with a memo, to an integrated address, with both, and the refusals.
MCRequest ==
  {R(1, "xelis", Address("k1", NoData), NoData, TRUE),
   R(2, "token", Address("k2", NoData), "memo", FALSE),
   R(3, "xelis", Address("k1", "id"), NoData, TRUE),
   R(1, "xelis", Address("k1", "id"), "memo", TRUE),
   R(0, "xelis", Address("k1", NoData), NoData, TRUE),
   R(1, "bad", Address("k1", NoData), NoData, TRUE),
   R(1, "xelis", [valid |-> FALSE, key |-> "k1", data |-> NoData], NoData, TRUE)}

MCPolicy ==
  {[kind |-> "Automatic", value |-> 0]}
    \cup [kind : {"Fixed"}, value : {0, 7}]
    \cup [kind : {"Tip"}, value : {1, 6}]
    \cup [kind : {"Multiplier"}, value : {0, 1, 3, 7}]

\* Amounts as fine as the assets, finer by one and by two places, the last
\* within and beyond the tolerance of a quarter, and products that are off
\* without effect, beyond the tolerance, or by enough to be another amount.
MCInput ==
  [finite : {TRUE}, mantissa : {0, 1, 2, 3, 5}, places : {0, 1, 3}, error : {0}]
    \cup [finite : {TRUE}, mantissa : {1, 3}, places : {0, 1}, error : {-1, 1}]
    \cup {[finite |-> FALSE, mantissa |-> 1, places |-> 0, error |-> 0]}

-----------------------------------------------------------------------------

RunInit ==
  /\ focus \in {"slot", "building"} /\ Init /\ Building!Init
  /\ focus # "building" => \A a \in DOMAIN balance : balance[a] = 0

RunNext ==
  \/ focus = "slot" /\ Next /\ UNCHANGED <<focus, buildingVars>>
  \/ focus = "building" /\ Building!Next /\ UNCHANGED <<focus, vars>>

RunSpec == RunInit /\ [][RunNext]_<<focus, vars, buildingVars>>
=============================================================================
