------------------------- MODULE TransactionBuilding -------------------------
(***************************************************************************)
(* How a prepared transaction gets its transfers, amounts and fee: the     *)
(* validation of the request, the balance read, the fee estimate and the   *)
(* creation are separated by awaits, and the wallet may synchronise a      *)
(* different balance in between.  The slot that receives the result is     *)
(* modelled in PreparedTransactions.                                       *)
(*                                                                         *)
(* u64 values are 0..MaxU64 with checked arithmetic; Invalid is an error.  *)
(* An address is [valid, key, data]: an integrated one carries data.       *)
(* An f64 is the decimal number it was written as, and how far its product *)
(* with the asset's unit is off after the two roundings: error parts in    *)
(* Grain.                                                                  *)
(***************************************************************************)
EXTENDS Integers, Sequences, Functions

CONSTANTS
  MaxU64,
  Scale,        \* FEE_BASIS_POINTS_SCALE
  Radix,        \* 10, the base of decimal amounts
  Precision,    \* 10^6: a product may be off an amount by one part of it
  Grain,        \* the parts in which the error of an f64 product is counted
  MaxError,     \* and the most it can be, 2^-52 of Grain and a little more
  Xelis,        \* the native asset
  BadAsset,     \* a text that is no asset hash
  NoData,       \* no extra data
  Nobody,       \* the recipient of a burn
  Invalid,
  Decimals,     \* decimals of each asset
  Request,      \* transfers callers ask for
  MaxTransfers, \* bound on the transfers of a request
  Input,        \* float amounts of the older calls
  Policy,       \* fee policies
  BaseFee       \* fees the daemon estimates

Asset == DOMAIN Decimals

\* A transfer as callers write it; amounts and fees are u64, decimals unsigned.
IsTransfer(t) ==
  /\ t = [amount |-> t.amount, asset |-> t.asset, destination |-> t.destination,
          extra_data |-> t.extra_data, encrypt |-> t.encrypt]
  /\ t.amount \in 0..MaxU64
  /\ t.asset \in Asset \cup {BadAsset}

ConstantsAssumption ==
  /\ MaxU64 \in Nat /\ Scale \in Nat \ {0} /\ Radix \in Nat \ {0, 1}
  /\ Precision \in Nat \ {0} /\ MaxTransfers \in Nat
  /\ Grain \in Nat /\ MaxError \in Nat /\ MaxError < Grain
  /\ Invalid \notin Int
  /\ BaseFee \subseteq 0..MaxU64
  /\ Decimals \in [Asset -> Nat] /\ Xelis \in Asset
  /\ \A t \in Request : IsTransfer(t)
  /\ \A p \in Policy : p.value \in 0..MaxU64
  /\ \A x \in Input :
       x.mantissa \in Int /\ x.places \in Nat /\ x.error \in -MaxError .. MaxError

VARIABLES
  balance,    \* the spendable balance of each asset
  call,       \* the preparing call
  prepared    \* what it returned, next to the transaction it built

vars == <<balance, call, prepared>>

Idle == [pc |-> "idle"]
NoPrepared == [kind |-> "none"]

Init ==
  /\ balance \in [Asset -> 0..MaxU64]
  /\ call = Idle
  /\ prepared = NoPrepared

-----------------------------------------------------------------------------
(* Fees and amounts                                                        *)

\* Mutant: the division rounds down.
Adjusted_Floor(base, basis_points) == (base * basis_points) \div Scale

\* Rounded up, in u128, where the product and the increment always fit.
Adjusted(base, basis_points) == (base * basis_points + Scale - 1) \div Scale

\* apply_fee_policy
ApplyFeePolicy(base, policy) ==
  LET fee == CASE policy.kind = "Automatic" -> base
               [] policy.kind = "Fixed" -> policy.value
               [] policy.kind = "Tip" -> base + policy.value
               [] OTHER -> Adjusted(base, policy.value)
  IN IF fee > MaxU64 \/ (policy.kind = "Multiplier" /\ policy.value = 0)
       THEN Invalid ELSE fee

\* amount_after_fee: only the native asset pays the fee.
AmountAfterFee(amount, fee, asset) ==
  LET left == IF asset = Xelis THEN amount - fee ELSE amount
  IN IF left > 0 THEN left ELSE Invalid

\* checked_pow
Power[n \in Nat] == IF n = 0 THEN 1 ELSE Radix * Power[n - 1]

Distance(m, n) == IF m > n THEN m - n ELSE n - m

\* f64::round of n / unit.
Rounded(n, unit) == (2 * n + unit) \div (2 * unit)

\* checked_atomic_amount: the f64 product of mantissa * Radix^-places and the
\* unit, rounded where it is off by less than the tolerance and refused otherwise.
CheckedAtomicAmount(input, decimals) ==
  LET scaled == input.mantissa * Power[decimals] * (Grain + input.error)
      unit == Power[input.places] * Grain
      rounded == Rounded(scaled, unit)
  IN IF ~input.finite \/ input.mantissa <= 0 \/ Power[decimals] > MaxU64
          \/ scaled >= MaxU64 * unit
          \/ Distance(scaled, rounded * unit) * Precision > unit \/ rounded = 0
       THEN Invalid ELSE rounded

-----------------------------------------------------------------------------
(* Transfers                                                               *)

\* project_prepared_transfer: what the reviewer sees, the effective extra data
\* apart; data in two places is a conflict.
Conflict(t) == t.extra_data # NoData /\ t.destination.data # NoData

\* Mutant: the data of an integrated address is not looked at.
EffectiveData_ExplicitOnly(t) ==
  [data |-> t.extra_data, source |-> IF t.extra_data # NoData THEN "Explicit" ELSE "none",
   encrypted |-> t.encrypt]

EffectiveData(t) ==
  IF t.extra_data # NoData
    THEN [data |-> t.extra_data, source |-> "Explicit", encrypted |-> t.encrypt]
  ELSE IF t.destination.data # NoData
    THEN [data |-> t.destination.data, source |-> "IntegratedAddress",
          encrypted |-> t.encrypt]
  ELSE [data |-> NoData, source |-> "none", encrypted |-> t.encrypt]

Projection(t) ==
  [amount |-> t.amount, destination |-> t.destination.key, asset |-> t.asset,
   has_extra_data |-> EffectiveData(t).data # NoData, encrypt |-> t.encrypt]

\* build_transfer: the builder keeps the whole address.
BuildTransfer(t) ==
  [destination |-> t.destination, amount |-> t.amount, asset |-> t.asset,
   extra_data |-> t.extra_data, encrypt |-> t.encrypt]

\* The checks of build_atomic_transfers, in order.
TransferError(t) ==
  IF t.amount = 0 THEN "AMOUNT_INVALID"
  ELSE IF t.asset = BadAsset THEN "ASSET_INVALID"
  ELSE IF ~t.destination.valid THEN "DESTINATION_INVALID"
  ELSE IF Conflict(t) THEN "EXTRA_DATA_CONFLICT"
  ELSE "ok"

TransfersError(ts) ==
  LET bad == {i \in DOMAIN ts : TransferError(ts[i]) # "ok"}
      first == CHOOSE i \in bad : \A j \in bad : i <= j
  IN IF ts = <<>> THEN "TRANSFERS_EMPTY" ELSE IF bad # {} THEN TransferError(ts[first]) ELSE "ok"

\* build_atomic_transfers, build_burn_type
Built(ts) == [i \in DOMAIN ts |-> BuildTransfer(ts[i])]

-----------------------------------------------------------------------------
(* The calls                                                               *)

Goto(c) == call' = c /\ UNCHANGED <<balance, prepared>>
Fail == Goto(Idle)

\* prepare_transfers_transaction, and estimate_transfer_fees_atomic, which
\* stops after the estimate.
PrepareTransfers(ts, policy) ==
  IF ApplyFeePolicy(0, policy) = Invalid \/ TransfersError(ts) # "ok" THEN Fail
  ELSE Goto([pc |-> "estimate", kind |-> "Transfers", all |-> FALSE,
             transfers |-> ts, policy |-> policy, read |-> 0])

\* A burn is kept as one transfer to nobody.
BurnOf(t) == [t EXCEPT !.destination = Nobody, !.extra_data = NoData, !.encrypt = FALSE]

\* prepare_burn_transaction
PrepareBurn(t, policy) ==
  IF ApplyFeePolicy(0, policy) = Invalid \/ t.amount = 0 \/ t.asset = BadAsset THEN Fail
  ELSE Goto([pc |-> "estimate", kind |-> "Burn", all |-> FALSE,
             transfers |-> <<BurnOf(t)>>, policy |-> policy, read |-> 0])

\* prepare_transfer_all_transaction; the amount is not known yet.
PrepareTransferAll(t, policy) ==
  IF ApplyFeePolicy(0, policy) = Invalid \/ t.asset = BadAsset
       \/ ~t.destination.valid
    THEN Fail
    ELSE Goto([pc |-> "readBalance", kind |-> "Transfers", all |-> TRUE,
               transfers |-> <<t>>, policy |-> policy, read |-> 0])

\* prepare_burn_all_transaction
PrepareBurnAll(t, policy) ==
  IF ApplyFeePolicy(0, policy) = Invalid \/ t.asset = BadAsset THEN Fail
  ELSE Goto([pc |-> "readBalance", kind |-> "Burn", all |-> TRUE,
             transfers |-> <<BurnOf(t)>>, policy |-> policy, read |-> 0])

\* Under the storage read lock; the estimate is for the whole balance.
ReadBalance ==
  /\ call.pc = "readBalance"
  /\ LET read == balance[call.transfers[1].asset] IN
     IF AmountAfterFee(read, 0, call.transfers[1].asset) = Invalid THEN Fail
     ELSE Goto([call EXCEPT !.pc = "estimate", !.read = read])

\* estimate_target_fee, then the amount that is left and the review.
EstimateFee ==
  /\ call.pc = "estimate"
  /\ \E base \in BaseFee :
       LET fee == ApplyFeePolicy(base, call.policy)
           first == call.transfers[1]
           left == AmountAfterFee(call.read, fee, first.asset)
           ts == IF call.all THEN <<[first EXCEPT !.amount = left]>> ELSE call.transfers
       IN IF fee = Invalid \/ (call.all /\ (left = Invalid \/ Conflict(first))) THEN Fail
          ELSE Goto([pc |-> "create", kind |-> call.kind, all |-> call.all, transfers |-> ts,
                     policy |-> call.policy, read |-> call.read, base |-> base,
                     fee |-> fee])

\* External: creation under the storage write lock spends from the balance as
\* it is now and fails when it does not suffice; the code does not rely on it
\* to keep the fixed fee.  The data of a transfer is the explicit one or the
\* one of the address.
Spent(ts, fee, a) ==
  SumFunction([i \in DOMAIN ts |-> IF ts[i].asset = a THEN ts[i].amount ELSE 0])
    + (IF a = Xelis THEN fee ELSE 0)

Sent(b) ==
  [key |-> b.destination.key, amount |-> b.amount, asset |-> b.asset,
   data |-> IF b.extra_data # NoData THEN b.extra_data ELSE b.destination.data,
   encrypt |-> b.encrypt]

CreatedFee == {call.fee, call.fee + 1}

FeeMatches(fee) == fee = call.fee

\* create_and_commit_prepared_transaction up to the commit.
Create ==
  /\ call.pc = "create"
  /\ call' = Idle
  /\ \/ \E fee \in CreatedFee :
        /\ \A a \in Asset : Spent(call.transfers, fee, a) <= balance[a]
        /\ FeeMatches(fee)
        /\ prepared' =
             [kind |-> call.kind, all |-> call.all, read |-> call.read,
              base |-> call.base, policy |-> call.policy, fee |-> fee,
              transfers |-> [i \in DOMAIN call.transfers |-> Projection(call.transfers[i])],
              review |-> IF call.kind = "Burn" THEN <<>> ELSE
                [i \in DOMAIN call.transfers |-> EffectiveData(call.transfers[i])],
              tx |-> [i \in DOMAIN call.transfers |-> Sent(Built(call.transfers)[i])]]
     \/ UNCHANGED prepared
  /\ UNCHANGED balance

\* create_transfers_with_decimals of the older calls: one transfer after the
\* other, decimals from the storage.
CreateTransfers(ts, inputs) ==
  LET amount == [i \in DOMAIN ts |->
        IF ts[i].asset = BadAsset THEN Invalid
        ELSE CheckedAtomicAmount(inputs[i], Decimals[ts[i].asset])]
  IN IF \E i \in DOMAIN ts : amount[i] = Invalid \/ ~ts[i].destination.valid THEN Fail
     ELSE /\ prepared' = [kind |-> "older", inputs |-> inputs,
                          tx |-> [i \in DOMAIN ts |->
                            [asset |-> ts[i].asset, amount |-> amount[i]]]]
          /\ UNCHANGED <<balance, call>>

\* The caller has looked at the result.
Reviewed ==
  /\ prepared # NoPrepared
  /\ prepared' = NoPrepared
  /\ UNCHANGED <<balance, call>>

\* External: the wallet synchronises.
Sync(a, n) ==
  /\ call # Idle /\ n # balance[a]
  /\ balance' = [balance EXCEPT ![a] = n]
  /\ UNCHANGED <<call, prepared>>

Transfers == UNION {[1..n -> Request] : n \in 0..MaxTransfers}

\* Calls are prepared one at a time.
Begin ==
  /\ call = Idle /\ prepared = NoPrepared
  /\ \/ \E ts \in Transfers, p \in Policy : PrepareTransfers(ts, p)
     \/ \E t \in Request, p \in Policy :
          PrepareBurn(t, p) \/ PrepareTransferAll(t, p) \/ PrepareBurnAll(t, p)
     \/ \E ts \in Transfers :
          \E inputs \in [DOMAIN ts -> Input] : CreateTransfers(ts, inputs)

Next ==
  \/ Begin
  \/ ReadBalance \/ EstimateFee \/ Create
  \/ Reviewed
  \/ \E a \in Asset, n \in {0, MaxU64} : Sync(a, n)

Spec == Init /\ [][Next]_vars

-----------------------------------------------------------------------------
(* Properties                                                              *)

Shown == prepared.kind \in {"Transfers", "Burn"}

\* What the caller reviews is the transaction that was built: every transfer's
\* amount, asset and recipient, and the very extra data that will be sent with
\* it, where it came from and whether it is encrypted.
ReviewIsTransaction ==
  Shown =>
    /\ Len(prepared.tx) = Len(prepared.transfers)
    /\ \A i \in DOMAIN prepared.tx :
         LET tx == prepared.tx[i]
             shown == prepared.transfers[i]
         IN
         /\ <<shown.amount, shown.destination, shown.asset, shown.encrypt>> =
              <<tx.amount, tx.key, tx.asset, tx.encrypt>>
         /\ shown.has_extra_data <=> tx.data # NoData
         /\ prepared.kind = "Transfers" =>
              /\ prepared.review[i].data = tx.data
              /\ prepared.review[i].encrypted = tx.encrypt

\* A multiplied fee is the exact product rounded up and a tip is added in full,
\* never wrapped around; a transfer or burn of everything spends exactly the
\* balance that was read, the fee inside it only for the native asset; the
\* older calls send exactly the decimal amount they were given if it is not finer
\* than the asset and below the size at which the f64 product loses its last
\* unit, and otherwise one that is off by the tolerance and that loss at most.
AmountsExact ==
  /\ Shown =>
       LET p == prepared.policy
           fee == prepared.fee
       IN
       /\ fee \in 0..MaxU64
       /\ p.kind = "Tip" => fee - p.value = prepared.base
       /\ p.kind = "Multiplier" =>
            /\ fee * Scale >= prepared.base * p.value
            /\ (fee - 1) * Scale < prepared.base * p.value
       /\ prepared.all =>
            prepared.tx[1].amount + (IF prepared.tx[1].asset = Xelis THEN fee ELSE 0)
              = prepared.read
  /\ prepared.kind = "older" =>
       \A i \in DOMAIN prepared.tx :
         LET input == prepared.inputs[i]
             decimals == Decimals[prepared.tx[i].asset]
             n == input.mantissa * Power[decimals]
             sent == prepared.tx[i].amount * Power[input.places]
         IN /\ prepared.tx[i].amount \in 1..MaxU64
            /\ input.places <= decimals /\ 2 * n * MaxError < Power[input.places] * Grain
                 => sent = n
            /\ Distance(n, sent) * Grain * Precision
                 <= Power[input.places] * Grain + n * MaxError * Precision

=============================================================================
