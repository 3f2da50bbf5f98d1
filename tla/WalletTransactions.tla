------------------------- MODULE WalletTransactions -------------------------
(***************************************************************************)
(* The transactions of a wallet: the slot that keeps a prepared one        *)
(* (PreparedTransactions), and how its transfers, amounts and fee come     *)
(* about (TransactionBuilding).  The slot does not look into a             *)
(* transaction, so they share no variable.                                 *)
(***************************************************************************)
EXTENDS PreparedTransactions

CONSTANTS
  MaxU64, Scale, Radix, Precision, Grain, MaxError, Xelis, BadAsset, NoData, Nobody,
  Invalid, Decimals, Request, MaxTransfers, Input, Policy, BaseFee

VARIABLES balance, building, prepared

buildingVars == <<balance, building, prepared>>

Building == INSTANCE TransactionBuilding WITH call <- building

ASSUME BuildingAssumption == Building!ConstantsAssumption

\* TransactionBuilding's properties of the review, and of fees and amounts.
ReviewIsTransaction == Building!ReviewIsTransaction
AmountsExact == Building!AmountsExact

=============================================================================
