---------------------------- MODULE NativeErrors ----------------------------
(***************************************************************************)
(* How an operation's failure becomes the structured error of the bridge.  *)
(* Upstream wraps causes in one another: an untyped wallet error around    *)
(* any error, a JSON-RPC error around any error, a daemon error around any *)
(* error.  An error is [wraps, leaf]: the wrappers from the outside in,    *)
(* and the innermost error.  Texts are left out.                           *)
(***************************************************************************)
EXTENDS Naturals, Sequences, SequencesExt

CONSTANT MaxWraps   \* bound on the wrappers around a cause

VARIABLE reported   \* the last failure and what was reported of it

Wrapper == {"WalletAny", "RpcAny", "Daemon"}

WalletCode(leaf) ==
  CASE leaf \in {"NotOnlineMode", "NetworkNotRunning"} -> "Offline"
    [] leaf \in {"AlreadyOnlineMode", "NetworkAlreadyRunning"} -> "Conflict"
    [] leaf \in {"NotEnoughFunds", "ProofInsufficientFunds"} -> "InsufficientFunds"
    [] leaf \in {"AssetNotTracked"} -> "NotFound"
    [] leaf \in {"DatabaseError"} -> "Storage"
    [] leaf \in {"InvalidEncryptedValue"} -> "AuthenticationOrCorruptData"
    [] leaf \in {"Unsupported"} -> "Unsupported"
    [] leaf \in {"GenerationError", "InvalidFeeProvided"} -> "InvalidInput"
    [] leaf \in {"NetworkMismatch"} -> "NetworkMismatch"
    [] OTHER -> "Internal"

\* classify_network_error, for the errors of the network that wrap no other.
NetworkLeaf == {"NetworkNotRunning", "NetworkAlreadyRunning", "NetworkMismatch"}

\* One variant for each class of WalletError.
WalletLeaf ==
  NetworkLeaf \cup
  {"NotOnlineMode", "AlreadyOnlineMode", "NotEnoughFunds", "ProofInsufficientFunds",
   "AssetNotTracked", "DatabaseError", "InvalidEncryptedValue", "Unsupported",
   "GenerationError", "InvalidFeeProvided", "CryptoError", "PoisonError"}

CommonLeaf == {"ProofInsufficientFunds", "GenerationError"}

RpcCode(leaf) ==
  CASE leaf = "TimedOut" -> "Network"
    [] leaf = "MissingResult" -> "Serialization"
    [] leaf = "EventNotRegistered" -> "NotFound"
    [] OTHER -> "RemoteRejected"

RpcLeaf == {"TimedOut", "MissingResult", "EventNotRegistered", "ServerError"}

\* Errors without a class: of the seed's words, of a private key's reader, and
\* any other.
UntypedLeaf == {"Mnemonics", "Reader", "Other"}

Leaf == WalletLeaf \cup RpcLeaf \cup UntypedLeaf

Class(source, code) == [source |-> source, code |-> code]
None == Class("none", "none")

ClassOfWallet(leaf, policy) ==
  IF leaf = "CryptoError" /\ policy = "Authentication"
    THEN Class("XelisWallet", "AuthenticationOrCorruptData")
    ELSE Class(IF leaf \in CommonLeaf THEN "XelisCommon" ELSE "XelisWallet", WalletCode(leaf))

ClassOfLeaf(leaf, policy) ==
  CASE leaf \in RpcLeaf -> Class("XelisCommon", RpcCode(leaf))
    [] leaf \in WalletLeaf -> ClassOfWallet(leaf, policy)
    [] OTHER -> None

Or(class, fallback) == IF class = None THEN fallback ELSE class

\* classify_anyhow_error_with_policy: the policy is handed on through an untyped
\* wallet error only.
RECURSIVE ClassifyAnyhow(_, _, _)
ClassifyAnyhow(wraps, leaf, policy) ==
  IF wraps = <<>> THEN ClassOfLeaf(leaf, policy)
  ELSE CASE Head(wraps) = "WalletAny" ->
              Or(ClassifyAnyhow(Tail(wraps), leaf, policy), Class("XelisWallet", "Internal"))
         [] Head(wraps) = "Daemon" ->
              Or(ClassifyAnyhow(Tail(wraps), leaf, "Standard"), Class("XelisWallet", "Network"))
         [] Head(wraps) = "RpcAny" ->
              Or(ClassifyAnyhow(Tail(wraps), leaf, "Standard"), Class("XelisCommon", "Internal"))

\* Mutant: an untyped wallet error has a class of its own at a storage boundary.
ClassifyStorage_Internal(wraps, leaf) == ClassifyAnyhow(wraps, leaf, "Standard")

\* classify_storage_operation_error: an untyped wallet error is looked through.
ClassifyStorage(wraps, leaf) ==
  LET Named(w) == w # "WalletAny"
      i == SelectInSeq(wraps, Named)
  IN IF i = 0 THEN ClassOfLeaf(leaf, "Standard")
     ELSE ClassifyAnyhow(SubSeq(wraps, i, Len(wraps)), leaf, "Standard")

\* from_wallet_operation, from_wallet_authentication_operation
FromOperation(e, fallback, policy) ==
  Or(ClassifyAnyhow(e.wraps, e.leaf, policy), Class("XelisWallet", fallback))

\* from_wallet_storage_operation
FromStorage(e) == Or(ClassifyStorage(e.wraps, e.leaf), Class("XelisWallet", "Storage"))

\* Errors of what the user typed in are not classified; their texts are static.
Safe(call, e) == e.wraps = <<>> /\ <<call, e.leaf>> \in {<<"create_from_seed", "Mnemonics">>,
                                                       <<"create_from_key", "Reader">>}

\* from_wallet_seed_recovery_operation
FromSeedRecovery(e) ==
  IF Safe("create_from_seed", e) THEN Class("XelisWallet", "InvalidInput")
  ELSE FromOperation(e, "Internal", "Standard")

\* from_wallet_private_key_recovery_operation
FromPrivateKeyRecovery(e) ==
  IF Safe("create_from_key", e) THEN Class("XelisCommon", "InvalidInput")
  ELSE FromOperation(e, "Internal", "Standard")

\* What the upstream call of an operation may fail with: a WalletError for some,
\* any error for the others.
Fails(call, e) ==
  call = "rescan" => \/ e.wraps # <<>> /\ Head(e.wraps) # "RpcAny"
                     \/ e.wraps = <<>> /\ e.leaf \in WalletLeaf

ChangePassword(e) == FromOperation(e, "Internal", "Authentication")
IsValidPassword(e) == FromOperation(e, "Internal", "Authentication")
OpenXelisWallet(e) == FromOperation(e, "Internal", "Authentication")

\* create_xelis_wallet, by its RecoveryInputKind
CreateXelisWallet(kind, e) ==
  CASE kind = "create" -> FromOperation(e, "Internal", "Standard")
    [] kind = "create_from_seed" -> FromSeedRecovery(e)
    [] kind = "create_from_key" -> FromPrivateKeyRecovery(e)

GetSeed(e) == FromOperation(e, "Internal", "Standard")
Rescan(e) == ClassifyAnyhow(e.wraps, e.leaf, "Standard")
GetDaemonInfo(e) == FromOperation(e, "Network", "Standard")
UpdateTables(e) == FromOperation(e, "Storage", "Standard")
ArePrecomputedTablesAvailable(e) == FromOperation(e, "Storage", "Standard")
ParseSigningHash(e) == FromOperation(e, "InvalidInput", "Standard")
AddressBookStorage(e) == FromStorage(e)
AssetStorage(e) == FromStorage(e)

FailingCall ==
  {"change_password", "is_valid_password", "open", "create", "create_from_seed",
   "create_from_key", "get_seed", "rescan", "get_daemon_info", "update_tables",
   "tables_available", "signing_hash", "address_book", "assets"}

Reported(call, e) ==
  CASE call = "change_password" -> ChangePassword(e)
    [] call = "is_valid_password" -> IsValidPassword(e)
    [] call = "open" -> OpenXelisWallet(e)
    [] call \in {"create", "create_from_seed", "create_from_key"} ->
         CreateXelisWallet(call, e)
    [] call = "get_seed" -> GetSeed(e)
    [] call = "rescan" -> Rescan(e)
    [] call = "get_daemon_info" -> GetDaemonInfo(e)
    [] call = "update_tables" -> UpdateTables(e)
    [] call = "tables_available" -> ArePrecomputedTablesAvailable(e)
    [] call = "signing_hash" -> ParseSigningHash(e)
    [] call = "address_book" -> AddressBookStorage(e)
    [] call = "assets" -> AssetStorage(e)

Init == reported = [call |-> "none"]

Report(call, e) ==
  /\ Fails(call, e)
  /\ reported' = [call |-> call, error |-> e, class |-> Reported(call, e)]

Handled == reported.call # "none" /\ reported' = [call |-> "none"]

Next ==
  \/ /\ reported.call = "none"
     /\ \E call \in FailingCall, wraps \in BoundedSeq(Wrapper, MaxWraps), leaf \in Leaf :
          Report(call, [wraps |-> wraps, leaf |-> leaf])
  \/ Handled

Spec == Init /\ [][Next]_reported

-----------------------------------------------------------------------------
\* The reported code is that of the innermost cause that has one, however often
\* it was wrapped, so that a consumer may act on it; a call that checks a
\* password tells a wrong one from other failures through any number of untyped
\* wallet errors, and no other call does; a failure that says nothing of itself
\* is one of the storage or of the network where the call is about those.
CauseReported ==
  reported.call # "none" =>
    LET call == reported.call
        e == reported.error
        code == reported.class.code
        plain == \A i \in DOMAIN e.wraps : e.wraps[i] = "WalletAny"
        checksPassword == call \in {"change_password", "is_valid_password", "open"}
        storage == call \in {"address_book", "assets"}
        tables == call \in {"update_tables", "tables_available"}
    IN
    /\ e.leaf \in RpcLeaf => code = RpcCode(e.leaf)
    /\ e.leaf \in WalletLeaf \ {"CryptoError"} => code = WalletCode(e.leaf)
    /\ e.leaf = "CryptoError" =>
         code = IF checksPassword /\ plain
                  THEN "AuthenticationOrCorruptData" ELSE "Internal"
    /\ e.leaf \in UntypedLeaf /\ ~plain =>
         code = IF Last(e.wraps) = "Daemon" THEN "Network" ELSE "Internal"
    /\ e.leaf = "Other" /\ plain =>
         /\ storage => code = "Storage"
         /\ tables /\ e.wraps = <<>> => code = "Storage"
         /\ call = "get_daemon_info" /\ e.wraps = <<>> => code = "Network"
         /\ ~storage /\ e.wraps # <<>> => code = "Internal"

=============================================================================
