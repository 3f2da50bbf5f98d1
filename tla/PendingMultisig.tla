--------------------------- MODULE PendingMultisig ---------------------------
(***************************************************************************)
(* The pending multisig request of a source wallet, from the unsigned      *)
(* transaction to its finalization into the prepared-transaction slot.     *)
(*                                                                         *)
(* `request` and `next_generation` are PendingMultisigStore.  The slot is  *)
(* the store of PreparedTransactions reduced to what finalization meets:   *)
(* who holds the preparation guard, whether a submission is in flight, and *)
(* what the slot holds.  Both stores are behind synchronous locks, so each *)
(* of their operations is a step, and every await separates two steps.     *)
(***************************************************************************)
EXTENDS MultisigProtocol, FiniteSets

CONSTANTS
  Call,             \* overlapping bridge calls
  NoCall,           \* nobody holds the preparation guard
  Other,            \* a preparation that is not a multisig one holds it
  Key,              \* keys of participants
  Own,              \* the key of this wallet
  SetupInput,       \* thresholds and participant addresses given to a setup
  Hash,             \* multisig signing hashes
  NoHash,           \* absence of a hash
  Configuration,    \* multisig configurations
  NoConfiguration,  \* the wallet has none
  MaxGeneration,    \* u64::MAX, the last generation checked_add can allocate
  MaxShares         \* bound on the shares in circulation

ASSUME ConstantsAssumption ==
  /\ Call \cap {NoCall, Other} = {} /\ NoCall # Other
  /\ NoHash \notin Hash
  /\ NoConfiguration \notin Configuration
  /\ \A f \in Configuration :
       /\ f.threshold \in Nat
       /\ f.participants \in Seq(Key)
       /\ \A i, j \in DOMAIN f.participants :
            f.participants[i] = f.participants[j] => i = j
  /\ MaxGeneration \in Nat
  /\ MaxShares \in Nat

VARIABLES
  request,          \* the pending request
  next_generation,  \* last generation allocated, 0 at first
  stored,           \* the wallet's own multisig configuration in its storage
  preparing,        \* who holds the preparation guard
  submitting,       \* a prepared transaction is being submitted
  slot,             \* the request whose transaction is prepared, 0 for another or none
  call,             \* control point and locals of every call
  issued,           \* <<generation, hash>> pairs handed to callers
  shares,           \* signature shares in circulation
  cancelled,        \* history: generations cancelled
  finalized         \* history: what was finalized, with its shares

vars == <<request, next_generation, stored, preparing, submitting, slot, call,
          issued, shares, cancelled, finalized>>

prepared == <<preparing, submitting, slot>>
history == <<issued, shares, cancelled, finalized>>

None == 0
NoRequest == [generation |-> None, hash |-> NoHash,
              configuration |-> NoConfiguration]
Request(g, h, f) == [generation |-> g, hash |-> h, configuration |-> f]

Location == {"idle", "readingBalance", "estimating", "checking", "reading",
             "building", "storing", "finalizing", "committing",
             "setupReading", "setupBeginning", "setupBuilding"}

Outcome == {"none", "ok", "invalid", "failed", "AlreadyPending",
            "GenerationOverflow", "NotFound", "RequestMismatch",
            "AlreadyConfigured", "SlotBusy", "Internal"}

Init ==
  /\ request = NoRequest
  /\ next_generation = 0
  /\ stored \in Configuration \cup {NoConfiguration}
  /\ preparing = NoCall
  /\ submitting = FALSE
  /\ slot = None
  /\ call = [c \in Call |-> [pc |-> "idle", request |-> NoRequest,
                             shares |-> <<>>, outcome |-> "none"]]
  /\ issued = {}
  /\ shares = {}
  /\ cancelled = {}
  /\ finalized = {}

At(c, pc) == call[c].pc = pc

\* The call moves on, with the request it works on and the shares it was given.
Goto(c, pc, r, s) ==
  call' = [call EXCEPT ![c] = [pc |-> pc, request |-> r, shares |-> s,
                               outcome |-> "none"]]

Return(c, out) ==
  call' = [call EXCEPT ![c] = [pc |-> "idle", request |-> NoRequest,
                               shares |-> <<>>, outcome |-> out]]

-----------------------------------------------------------------------------
(* The store: PendingMultisigStore                                         *)

InsertError ==
  IF request # NoRequest THEN "AlreadyPending"
  ELSE IF next_generation >= MaxGeneration THEN "GenerationOverflow"
  ELSE "ok"

\* signing_hash().is_some()
IsPending == request # NoRequest

\* ensure_expected_request
ExpectedError(g, h) ==
  IF request = NoRequest THEN "NotFound"
  ELSE IF request.generation # g \/ request.hash # h THEN "RequestMismatch"
  ELSE "ok"

\* validate: the pending request is the expected one, and it passes.
ValidateError(g, h, passes) ==
  IF ExpectedError(g, h) # "ok" THEN ExpectedError(g, h)
  ELSE IF passes THEN "ok" ELSE "invalid"

\* take_validated leaves the request alone unless it passes.
TakeValidated(g, h, passes) ==
  request' = IF ValidateError(g, h, passes) = "ok" THEN NoRequest ELSE request

-----------------------------------------------------------------------------
(* Creating a request                                                      *)

Unchanged == UNCHANGED <<request, next_generation, stored, prepared, history>>

\* Fee policy, amounts, assets and destinations are validated first.
BeginCreate(c, pc) ==
  /\ At(c, "idle")
  /\ Return(c, "invalid") \/ Goto(c, pc, NoRequest, <<>>)
  /\ Unchanged

CreateTransfers(c) == BeginCreate(c, "estimating")
CreateBurn(c) == BeginCreate(c, "estimating")
InitDelete(c) == BeginCreate(c, "estimating")
CreateTransferAll(c) == BeginCreate(c, "readingBalance")
CreateBurnAll(c) == BeginCreate(c, "readingBalance")

\* The balance is read under the storage's read lock; a balance that does not
\* cover the amount is an error.
ReadBalance(c) ==
  /\ At(c, "readingBalance")
  /\ Return(c, "failed") \/ Goto(c, "estimating", NoRequest, <<>>)
  /\ Unchanged

\* estimate_target_fee, and what is left after the fee.
EstimateFee(c) ==
  /\ At(c, "estimating")
  /\ Return(c, "failed") \/ Goto(c, "checking", NoRequest, <<>>)
  /\ Unchanged

\* The first look at the store ...
CheckPending(c) ==
  /\ At(c, "checking")
  /\ IF IsPending THEN Return(c, "AlreadyPending")
                  ELSE Goto(c, "reading", NoRequest, <<>>)
  /\ Unchanged

\* ... the configuration and the unsigned transaction, with awaits ...
ReadConfiguration(c) ==
  /\ At(c, "reading")
  /\ \/ Return(c, "failed")
     \/ stored = NoConfiguration /\ Return(c, "NotFound")
     \/ /\ stored # NoConfiguration
        /\ Goto(c, "building", Request(None, NoHash, stored), <<>>)
  /\ Unchanged

BuildUnsigned(c) ==
  /\ At(c, "building")
  /\ \/ Return(c, "failed")
     \/ \E h \in Hash :
          Goto(c, "storing", Request(None, h, call[c].request.configuration),
               <<>>)
  /\ Unchanged

\* ... and the insertion.  Creating the request text may fail, and so may the
\* comparison of its fee.
StorePending(c) ==
  LET g == next_generation + 1
      h == call[c].request.hash
  IN
  /\ At(c, "storing")
  /\ \/ /\ Return(c, "failed")
        /\ UNCHANGED <<request, next_generation, issued>>
     \/ /\ InsertError # "ok"
        /\ Return(c, InsertError)
        /\ UNCHANGED <<request, next_generation, issued>>
     \/ /\ InsertError = "ok"
        /\ next_generation' = g
        /\ request' = Request(g, h, call[c].request.configuration)
        /\ issued' = issued \cup {<<g, h>>}
        /\ Return(c, "ok")
  /\ UNCHANGED <<stored, prepared, shares, cancelled, finalized>>

-----------------------------------------------------------------------------
(* Cancelling, and inspecting a share                                      *)

CancelPending(c, g, h) ==
  /\ At(c, "idle")
  /\ Return(c, ExpectedError(g, h))
  /\ IF ExpectedError(g, h) = "ok"
       THEN request' = NoRequest /\ cancelled' = cancelled \cup {g}
       ELSE UNCHANGED <<request, cancelled>>
  /\ UNCHANGED <<next_generation, stored, prepared, issued, shares, finalized>>

InspectShare(c, g, h, share) ==
  /\ At(c, "idle")
  /\ Return(c, IF ~ParseShare(share, h) THEN "invalid"
               ELSE ValidateError(g, h, VerifySignature(h,
                                     request.configuration, share)))
  /\ Unchanged

-----------------------------------------------------------------------------
(* Finalizing: no await, but three locks                                   *)

\* Mutant: the preparation guard is not taken.
BeginGuard_Missing(c) == UNCHANGED preparing

\* PreparedTransactionPreparationGuard::begin.
BeginGuard(c) == preparing' = c

SlotFree == preparing = NoCall /\ ~submitting

\* The shares are parsed, and the preparation guard is taken.
BeginFinalize(c, g, h, s) ==
  /\ At(c, "idle")
  /\ \/ /\ \E i \in DOMAIN s : ~ParseShare(s[i], h)
        /\ Return(c, "invalid")
        /\ UNCHANGED preparing
     \/ /\ \A i \in DOMAIN s : ParseShare(s[i], h)
        /\ ~SlotFree
        /\ Return(c, "SlotBusy")
        /\ UNCHANGED preparing
     \/ /\ \A i \in DOMAIN s : ParseShare(s[i], h)
        /\ SlotFree
        /\ BeginGuard(c)
        /\ Goto(c, "finalizing", Request(g, h, NoConfiguration), s)
  /\ UNCHANGED <<request, next_generation, stored, submitting, slot, history>>

\* The dropped guard abandons its preparation.
Abandoned(c) == IF preparing = c THEN NoCall ELSE preparing

\* The pending request is taken if its configuration verifies the shares.
TakePending(c) ==
  LET g == call[c].request.generation
      h == call[c].request.hash
      s == call[c].shares
      passes == BuildVerified(h, request.configuration, s)
      error == ValidateError(g, h, passes)
  IN
  /\ At(c, "finalizing")
  /\ TakeValidated(g, h, passes)
  /\ IF error = "ok"
       THEN /\ Goto(c, "committing", request, s)
            /\ UNCHANGED preparing
       ELSE /\ Return(c, error)
            /\ preparing' = Abandoned(c)
  /\ UNCHANGED <<next_generation, stored, submitting, slot, history>>

\* commit_preparation: the transaction enters the slot.
CommitFinalized(c) ==
  LET r == call[c].request IN
  /\ At(c, "committing")
  /\ \/ /\ preparing # c \/ submitting
        /\ Return(c, "Internal")
        /\ preparing' = Abandoned(c)
        /\ UNCHANGED <<slot, finalized>>
     \/ /\ preparing = c /\ ~submitting
        /\ slot' = r.generation
        /\ preparing' = NoCall
        /\ finalized' = finalized \cup
             {[generation |-> r.generation, hash |-> r.hash,
               configuration |-> r.configuration, shares |-> call[c].shares]}
        /\ Return(c, "ok")
  /\ UNCHANGED <<request, next_generation, stored, submitting, issued, shares,
                 cancelled>>

-----------------------------------------------------------------------------
(* multisig_setup: the configuration is looked up before the guard         *)

\* The fee policy, the threshold and the participants are checked first.
BeginSetup(c, in) ==
  /\ At(c, "idle")
  /\ \/ Return(c, "invalid")
     \/ /\ ValidSetup(in.threshold, Len(in.participants))
        /\ ParticipantsValid(in.participants, Mainnet, Own)
        /\ Goto(c, "setupReading", NoRequest, <<>>)
  /\ Unchanged

SetupReads(c) ==
  /\ At(c, "setupReading")
  /\ \/ Return(c, "failed")
     \/ stored # NoConfiguration /\ Return(c, "AlreadyConfigured")
     \/ stored = NoConfiguration /\ Goto(c, "setupBeginning", NoRequest, <<>>)
  /\ Unchanged

SetupBegins(c) ==
  /\ At(c, "setupBeginning")
  /\ \/ /\ ~SlotFree
        /\ Return(c, "SlotBusy")
        /\ UNCHANGED preparing
     \/ /\ SlotFree
        /\ BeginGuard(c)
        /\ Goto(c, "setupBuilding", NoRequest, <<>>)
  /\ UNCHANGED <<request, next_generation, stored, submitting, slot, history>>

\* create_and_commit_prepared_transaction commits or fails.
SetupEnds(c) ==
  /\ At(c, "setupBuilding")
  /\ preparing' = Abandoned(c)
  /\ \/ Return(c, "failed") /\ UNCHANGED slot
     \/ preparing = c /\ Return(c, "ok") /\ slot' = None
  /\ UNCHANGED <<request, next_generation, stored, submitting, history>>

\* get_multisig_state
GetState(c) ==
  /\ At(c, "idle")
  /\ \/ Return(c, "failed")
     \/ Return(c, IF stored = NoConfiguration THEN "none" ELSE "ok")
  /\ Unchanged

\* is_address_valid_for_multisig; an address that does not parse is not valid.
AddressValid(c, address) ==
  /\ At(c, "idle")
  /\ Return(c, IF ParticipantValid(address, Mainnet, Own) THEN "ok" ELSE "none")
  /\ Unchanged

-----------------------------------------------------------------------------
(* The rest of the prepared-transaction slot, participants and the chain   *)

OtherPreparation ==
  /\ \/ SlotFree /\ preparing' = Other /\ UNCHANGED slot
     \/ preparing = Other /\ preparing' = NoCall /\ UNCHANGED slot
     \/ preparing = Other /\ preparing' = NoCall /\ slot' = None
  /\ UNCHANGED <<request, next_generation, stored, submitting, call, history>>

\* A transaction is submitted or restored, or leaves the slot.
Submission ==
  /\ \/ SlotFree /\ submitting' = TRUE /\ UNCHANGED slot
     \/ submitting /\ submitting' = FALSE /\ slot' \in {slot, None}
  /\ UNCHANGED <<request, next_generation, stored, preparing, call, history>>

\* A participant signs, under the id it has in a configuration it was told.
ParticipantSigns(k, h, f) ==
  \E i \in DOMAIN f.participants :
    /\ f.participants[i] = k
    /\ Cardinality(shares) < MaxShares
    /\ shares' = shares \cup {CreateShare(h, i - 1, Sign(k, h))}
    /\ UNCHANGED <<request, next_generation, stored, prepared, call, issued,
                   cancelled, finalized>>

\* Synchronisation brings a new configuration, or its deletion.
StoredChanges ==
  /\ stored' \in Configuration \cup {NoConfiguration}
  /\ UNCHANGED <<request, next_generation, prepared, call, history>>

-----------------------------------------------------------------------------

\* The lists of shares a caller may present.
Presented == UNION {[1..n -> shares] : n \in 0..MaxShares}

\* Arguments come from what callers were given.
Start(c) ==
  \/ CreateTransfers(c) \/ CreateTransferAll(c) \/ CreateBurn(c)
  \/ CreateBurnAll(c) \/ InitDelete(c) \/ GetState(c)
  \/ \E in \in SetupInput :
       \/ BeginSetup(c, in)
       \/ \E a \in Range(in.participants) : AddressValid(c, a)
  \/ \E p \in issued :
       \/ CancelPending(c, p[1], p[2])
       \/ \E share \in shares : InspectShare(c, p[1], p[2], share)
       \/ \E s \in Presented : BeginFinalize(c, p[1], p[2], s)

Continue(c) ==
  \/ ReadBalance(c) \/ EstimateFee(c) \/ CheckPending(c)
  \/ ReadConfiguration(c) \/ BuildUnsigned(c) \/ StorePending(c)
  \/ TakePending(c) \/ CommitFinalized(c)
  \/ SetupReads(c) \/ SetupBegins(c) \/ SetupEnds(c)

Next ==
  \/ \E c \in Call : Start(c) \/ Continue(c)
  \/ OtherPreparation \/ Submission \/ StoredChanges
  \/ \E k \in Key, p \in issued, f \in Configuration :
       ParticipantSigns(k, p[2], f)

Spec == Init /\ [][Next]_vars

-----------------------------------------------------------------------------
(* Properties                                                              *)

\* "without consuming the pending request on failure": a request that was
\* stored is still pending, was cancelled, was finalized into the slot, or is
\* in the hands of a finalization that is certain to succeed.
RequestNotLost ==
  \A g \in 1 .. next_generation :
    \/ request.generation = g
    \/ g \in cancelled
    \/ \E f \in finalized : f.generation = g
    \/ \E c \in Call : /\ At(c, "committing") /\ call[c].request.generation = g
                       /\ preparing = c /\ ~submitting

\* A finalized transaction carries signatures of its own hash by exactly as
\* many different participants of its configuration as the threshold says,
\* although participants sign under ids from configurations of their own.
ThresholdMet ==
  \A f \in finalized :
    /\ Len(f.shares) = f.configuration.threshold
    /\ \A i \in DOMAIN f.shares :
         /\ f.shares[i].signature.message = f.hash
         /\ f.shares[i].signature.key \in Range(f.configuration.participants)
    /\ \A i, j \in DOMAIN f.shares :
         f.shares[i].signature.key = f.shares[j].signature.key => i = j

\* A request leaves the store whole or not at all: nothing is lost on the way
\* into the prepared slot, and nothing below its threshold arrives there.
FinalizationSound == RequestNotLost /\ ThresholdMet

=============================================================================
