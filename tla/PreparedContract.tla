-------------------------- MODULE PreparedContract --------------------------
(***************************************************************************)
(* What the prepared-transaction API promises about one wallet's slot: at  *)
(* most one transaction is held; it is replaced only while it is not being *)
(* submitted; a retryable submission puts the very same transaction back;  *)
(* and once it has left the slot it never returns.  Who ends a submission  *)
(* is not the contract's concern: a slot emptied during one is consumed.   *)
(***************************************************************************)
CONSTANTS Id, Hash, NoTransaction

VARIABLES
  held,        \* the transaction in the slot, or NoTransaction
  submitting,  \* whether it is being submitted
  spent        \* ids that have left the slot

cvars == <<held, submitting, spent>>

Leaves == IF held = NoTransaction THEN {} ELSE {held[1]}

CInit ==
  /\ held = NoTransaction
  /\ submitting = FALSE
  /\ spent = {}

\* A successful preparation replaces what the slot held with a fresh id.
Prepare(i, h) ==
  /\ ~submitting
  /\ i \notin spent \cup Leaves
  /\ held' = <<i, h>>
  /\ spent' = spent \cup Leaves
  /\ UNCHANGED submitting

Discard ==
  /\ ~submitting
  /\ held # NoTransaction
  /\ held' = NoTransaction
  /\ spent' = spent \cup Leaves
  /\ UNCHANGED submitting

StartSubmission ==
  /\ ~submitting
  /\ held # NoTransaction
  /\ submitting' = TRUE
  /\ UNCHANGED <<held, spent>>

Restore ==
  /\ submitting
  /\ submitting' = FALSE
  /\ UNCHANGED <<held, spent>>

Consume ==
  /\ submitting
  /\ submitting' = FALSE
  /\ held' = NoTransaction
  /\ spent' = spent \cup Leaves

CNext ==
  \/ \E i \in Id, h \in Hash : Prepare(i, h)
  \/ Discard
  \/ StartSubmission
  \/ Restore
  \/ Consume

CSpec == CInit /\ [][CNext]_cvars
=============================================================================
