---------------------------- MODULE WalletProcess ----------------------------
(***************************************************************************)
(* The life of the process around its wallets: the tables they share       *)
(* (WalletTables), the initialization of the runtime's services            *)
(* (RuntimeLifecycle), and the Dart handle of a wallet with its            *)
(* subscriptions (WalletHandle).  The three share no state.                *)
(***************************************************************************)
EXTENDS WalletTables

CONSTANTS
  Subscription, Business, NoOne, MaxGeneration, MaxCancelFailures, \* WalletHandle
  Caller, Service, Configuration, Unit, None, MaxAttempts          \* RuntimeLifecycle

VARIABLES
  terminal, closed, disposed, registered, generation, sub, closer,
  failures,                              \* WalletHandle
  lifecycle, attempts, native, caller    \* RuntimeLifecycle

Handle == INSTANCE WalletHandle
Runtime == INSTANCE RuntimeLifecycle

ASSUME ProcessAssumption ==
  Handle!ConstantsAssumption /\ Runtime!ConstantsAssumption

\* WalletHandle's property of what a completed close() leaves behind.
ClosedQuiets == Handle!ClosedQuiets

\* RuntimeLifecycle's property of callers that share an initialization.
InitializationShared == Runtime!InitializationShared

=============================================================================
