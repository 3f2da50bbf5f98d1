------------------------ MODULE PreparedTransactions ------------------------
(***************************************************************************)
(* The prepared-transaction slot of one wallet and the asynchronous bridge *)
(* calls that share it: the stable prepare / cancel / broadcast calls      *)
(* (addressed by preparation id and hash) and the older calls addressed by *)
(* hash alone.                                                             *)
(*                                                                         *)
(* `state`, `next_generation` and `active_preparation` are the fields of   *)
(* PreparedTransactionStore.  The store sits behind a synchronous RwLock,  *)
(* so every store operation is one step; everything a call awaits          *)
(* (`is_online`, storage, the daemon) separates two steps.  `call[c]` is   *)
(* the local state of an in-flight call, including the two RAII guards:    *)
(* "preparing" holds a PreparedTransactionPreparationGuard, "reading" and  *)
(* "submitting" hold a PreparedTransactionGuard.                           *)
(***************************************************************************)
EXTENDS Naturals

CONSTANTS
  Call,           \* concurrent bridge calls
  Hash,           \* transaction hashes
  NoHash,         \* the absence of a hash
  MaxGeneration   \* u64::MAX, the last generation checked_add can allocate

ASSUME ConstantsAssumption ==
  /\ NoHash \notin Hash
  /\ MaxGeneration \in Nat

VARIABLES
  state,               \* Empty, Ready or InFlight, with generation and hash
  next_generation,     \* last generation allocated, 0 at first
  active_preparation,  \* generation being prepared, 0 for None
  call,                \* local state of every call
  online,              \* Wallet::is_online
  unconfirmed,         \* generations whose unconfirmed balances are stored
  issued,              \* <<generation, hash>> pairs handed to callers; the
                       \* older calls hand out the hash alone
  retired,             \* history: generations that left the slot
  atBegin,             \* history: the slot when the active preparation began
  accepted,            \* history: generations the daemon accepted
  ambiguous            \* history: generations whose fate was left unknown

store == <<state, next_generation, active_preparation>>
history == <<retired, atBegin, accepted, ambiguous>>
vars == <<state, next_generation, active_preparation, call, online,
          unconfirmed, issued, retired, atBegin, accepted, ambiguous>>

None == 0
Generation == 0 .. MaxGeneration

Empty == [tag |-> "Empty", generation |-> None, hash |-> NoHash]
Ready(g, h) == [tag |-> "Ready", generation |-> g, hash |-> h]
InFlight(g, h) == [tag |-> "InFlight", generation |-> g, hash |-> h]

Location == {"idle", "preparing", "building", "checking", "offline", "taking",
             "reading", "submitting", "applying", "clearing",
             "legacyChecking", "legacyReading", "legacyTaking"}

\* Errors the code reserves for a store that no longer matches its guards.
\* CommitDuringSubmission is the ReplacementDuringSubmission that
\* commit_preparation returns, kept apart from the one of a refused begin.
InternalError == {"PreparationStateInconsistent", "CommitDuringSubmission",
                  "SubmissionStateInconsistent"}

Outcome == {"None", "Prepared", "PreparationFailed", "Cancelled", "Offline",
            "PreparationInProgress", "ReplacementDuringSubmission",
            "GenerationOverflow", "CancellationDuringSubmission",
            "AlreadySubmitting", "NotFound", "CannotDelete",
            "StorageReadFailed",
            "Submitted", "SubmittedNeedsResync", "Retryable", "Rejected",
            "LocalFailure", "Interrupted"} \cup InternalError

At(c, pc) == call[c].pc = pc

\* The call moves on, carrying the capability <<g, h>> and a pending outcome.
Goto(c, pc, g, h, out) ==
  call' = [call EXCEPT ![c] =
             [pc |-> pc, generation |-> g, hash |-> h, outcome |-> out]]

\* The call completes and its future yields `out`.
Return(c, out) == Goto(c, "idle", None, NoHash, out)

Init ==
  /\ state = Empty
  /\ next_generation = 0
  /\ active_preparation = None
  /\ call = [c \in Call |-> [pc |-> "idle", generation |-> None,
                             hash |-> NoHash, outcome |-> "None"]]
  /\ online = FALSE
  /\ unconfirmed = {}
  /\ issued = {}
  /\ retired = {}
  /\ atBegin = Empty
  /\ accepted = {}
  /\ ambiguous = {}

-----------------------------------------------------------------------------
(* The store: PreparedTransactionStore                                     *)

\* Mutant: a submission in flight no longer blocks a replacement.
EnsureReplaceable_IgnoresInFlight ==
  IF active_preparation # None THEN "PreparationInProgress" ELSE "Ok"

EnsureReplaceable ==
  IF active_preparation # None THEN "PreparationInProgress"
  ELSE IF state.tag = "InFlight" THEN "ReplacementDuringSubmission"
  ELSE "Ok"

EnsureSlotOperationAvailable ==
  IF active_preparation # None THEN "PreparationInProgress" ELSE "Ok"

\* The generation checked_add yields, or None on overflow.
AllocateGeneration ==
  IF next_generation < MaxGeneration THEN next_generation + 1 ELSE None

\* Replacing or beginning: the checks in their order.
AllocationError ==
  IF EnsureReplaceable # "Ok" THEN EnsureReplaceable
  ELSE IF AllocateGeneration = None THEN "GenerationOverflow"
  ELSE "Ok"

CommitError(g) ==
  IF active_preparation # g THEN "PreparationStateInconsistent"
  ELSE IF state.tag = "InFlight" THEN "CommitDuringSubmission"
  ELSE "Ok"

\* Whether the slot holds the addressed transaction; g = None addresses it
\* by hash alone, as the older calls do.
Holds(tag, g, h) ==
  /\ state.tag = tag
  /\ state.hash = h
  /\ g # None => state.generation = g

CancelError(g, h) ==
  IF EnsureSlotOperationAvailable # "Ok" THEN EnsureSlotOperationAvailable
  ELSE IF Holds("InFlight", g, h) THEN "CancellationDuringSubmission"
  ELSE IF Holds("Ready", g, h) THEN "Ok"
  ELSE IF g = None THEN "CannotDelete" ELSE "NotFound"

TakeError(g, h) ==
  IF EnsureSlotOperationAvailable # "Ok" THEN EnsureSlotOperationAvailable
  ELSE IF Holds("InFlight", g, h) THEN "AlreadySubmitting"
  ELSE IF Holds("Ready", g, h) THEN "Ok"
  ELSE "NotFound"

\* Mutant: Drop forgets to restore.
Restored_Forgotten(g, h) == state

\* restore_after_submission and finish_submission act only on the exact
\* submission; otherwise they report SubmissionStateInconsistent.
Restored(g, h) == IF state = InFlight(g, h) THEN Ready(g, h) ELSE state
Finished(g, h) == IF state = InFlight(g, h) THEN Empty ELSE state

\* abandon_preparation, run when the preparation guard is dropped.
Abandoned(g) ==
  IF active_preparation = g THEN None ELSE active_preparation

-----------------------------------------------------------------------------
(* Preparing: begin, awaits, then commit or drop of the guard              *)

\* The inputs and the fee policy are validated before the guard is taken.
BeginPreparation(c) ==
  /\ At(c, "idle")
  /\ \/ /\ Return(c, "PreparationFailed")
        /\ UNCHANGED <<next_generation, active_preparation, atBegin>>
     \/ /\ AllocationError # "Ok"
        /\ Return(c, AllocationError)
        /\ UNCHANGED <<next_generation, active_preparation, atBegin>>
     \/ /\ AllocationError = "Ok"
        /\ next_generation' = AllocateGeneration
        /\ active_preparation' = AllocateGeneration
        /\ Goto(c, "preparing", AllocateGeneration, NoHash, "None")
        /\ atBegin' = state
  /\ UNCHANGED <<state, online, unconfirmed, issued, accepted, ambiguous>>

\* A parse, balance, estimate or creation error, a fee mismatch, or the drop
\* of the whole future: the guard abandons the preparation.
AbandonPreparation(c) ==
  /\ At(c, "preparing")
  /\ active_preparation' = Abandoned(call[c].generation)
  /\ Return(c, "PreparationFailed")
  /\ UNCHANGED <<state, next_generation, online, unconfirmed, issued,
                 atBegin, accepted, ambiguous>>

CommitPreparation(c, h) ==
  LET g == call[c].generation IN
  /\ At(c, "preparing")
  /\ \/ /\ CommitError(g) # "Ok"
        /\ Return(c, CommitError(g))
        /\ active_preparation' = Abandoned(g)
        /\ UNCHANGED <<state, issued>>
     \/ /\ CommitError(g) = "Ok"
        /\ state' = Ready(g, h)
        /\ active_preparation' = None
        /\ issued' = issued \cup {<<g, h>>}
        /\ Return(c, "Prepared")
  /\ UNCHANGED <<next_generation, online, unconfirmed, atBegin, accepted,
                 ambiguous>>

\* The older create_* calls build first, without touching the slot ...
BeginLegacyCreate(c) ==
  /\ At(c, "idle")
  /\ Goto(c, "building", None, NoHash, "None")
  /\ UNCHANGED <<store, online, unconfirmed, issued, atBegin, accepted,
                 ambiguous>>

LegacyCreateFails(c) ==
  /\ At(c, "building")
  /\ Return(c, "PreparationFailed")
  /\ UNCHANGED <<store, online, unconfirmed, issued, atBegin, accepted,
                 ambiguous>>

\* ... and only then replace its content.
LegacyReplace(c, h) ==
  /\ At(c, "building")
  /\ \/ /\ AllocationError # "Ok"
        /\ Return(c, AllocationError)
        /\ UNCHANGED <<state, next_generation, issued>>
     \/ /\ AllocationError = "Ok"
        /\ next_generation' = AllocateGeneration
        /\ state' = Ready(AllocateGeneration, h)
        /\ issued' = issued \cup {<<None, h>>}
        /\ Return(c, "Prepared")
  /\ UNCHANGED <<active_preparation, online, unconfirmed, atBegin, accepted,
                 ambiguous>>

-----------------------------------------------------------------------------
(* Cancelling, by exact capability (g # None) or by hash alone             *)

CancelPrepared(c, g, h) ==
  /\ At(c, "idle")
  /\ \/ /\ CancelError(g, h) # "Ok"
        /\ Return(c, CancelError(g, h))
        /\ UNCHANGED state
     \/ /\ CancelError(g, h) = "Ok"
        /\ state' = Empty
        /\ Return(c, "Cancelled")
  /\ UNCHANGED <<next_generation, active_preparation, online, unconfirmed,
                 issued, atBegin, accepted, ambiguous>>

-----------------------------------------------------------------------------
(* Broadcasting                                                            *)

BeginBroadcast(c, g, h) ==
  /\ At(c, "idle")
  /\ Goto(c, IF g = None THEN "legacyChecking" ELSE "checking", g, h, "None")
  /\ UNCHANGED <<store, online, unconfirmed, issued, atBegin, accepted,
                 ambiguous>>

\* `is_online().await`: its value may be stale by the next step.
CheckOnline(c) ==
  /\ \/ /\ At(c, "checking")
        /\ Goto(c, IF online THEN "taking" ELSE "offline",
                call[c].generation, call[c].hash, "None")
     \/ /\ At(c, "legacyChecking")
        /\ IF online
             THEN Goto(c, "legacyReading", None, call[c].hash, "None")
             ELSE Return(c, "Offline")
  /\ UNCHANGED <<store, online, unconfirmed, issued, atBegin, accepted,
                 ambiguous>>

\* Offline: the slot is only inspected, never moved to InFlight.
OfflineOutcome(c) ==
  /\ At(c, "offline")
  /\ LET error == TakeError(call[c].generation, call[c].hash)
     IN  Return(c, IF error = "Ok" THEN "Retryable" ELSE error)
  /\ UNCHANGED <<store, online, unconfirmed, issued, atBegin, accepted,
                 ambiguous>>

\* The older call reads its storage context before it takes the slot.
LegacyReadStorage(c) ==
  /\ At(c, "legacyReading")
  /\ \/ Goto(c, "legacyTaking", None, call[c].hash, "None")
     \/ Return(c, "StorageReadFailed")
  /\ UNCHANGED <<store, online, unconfirmed, issued, atBegin, accepted,
                 ambiguous>>

\* PreparedTransactionGuard::take_exact and ::take.
TakeForSubmission(c) ==
  LET g == call[c].generation
      h == call[c].hash
  IN
  /\ At(c, "taking") \/ At(c, "legacyTaking")
  /\ \/ /\ TakeError(g, h) # "Ok"
        /\ Return(c, TakeError(g, h))
        /\ UNCHANGED state
     \/ /\ TakeError(g, h) = "Ok"
        /\ state' = InFlight(state.generation, h)
        /\ Goto(c, IF g = None THEN "submitting" ELSE "reading",
                state.generation, h, "None")
  /\ UNCHANGED <<next_generation, active_preparation, online, unconfirmed,
                 issued, atBegin, accepted, ambiguous>>

\* The stable call reads its storage context while holding the guard; an
\* error drops the guard, whose Drop restores the slot.
ReadStorage(c) ==
  LET g == call[c].generation
      h == call[c].hash
  IN
  /\ At(c, "reading")
  /\ \/ /\ Goto(c, "submitting", g, h, "None")
        /\ UNCHANGED state
     \/ /\ state' = Restored(g, h)
        /\ Return(c, "StorageReadFailed")
  /\ UNCHANGED <<next_generation, active_preparation, online, unconfirmed,
                 issued, atBegin, accepted, ambiguous>>

\* What submit_transaction yields: success, a JSON-RPC transport error, a
\* JSON-RPC error answered by the daemon, a missing network handler, or any
\* other WalletError.
SubmitResult == {"Ok", "Transport", "Daemon", "NoNetwork", "Other"}

ClassifySubmitError(r) ==
  IF r \in {"Transport", "NoNetwork"} THEN "Retryable"
  ELSE IF r = "Daemon" THEN "Rejected"
  ELSE "LocalFailure"

ResolveSubmission(r) ==
  IF r = "Ok" THEN "Submitted" ELSE ClassifySubmitError(r)

\* The generations the daemon may have accepted after this attempt.
DaemonEffect(r, g) ==
  CASE r = "Ok" -> {accepted \cup {g}}
    [] r \in {"Transport", "Other"} -> {accepted, accepted \cup {g}}
    [] OTHER -> {accepted}

\* The daemon's answer arrives.  A submission that is over finishes the slot,
\* a retryable one restores it; the storage work that follows is awaited
\* after the slot has been released.
Submit(c, r) ==
  LET g == call[c].generation
      h == call[c].hash
      resolution == ResolveSubmission(r)
  IN
  /\ At(c, "submitting")
  /\ accepted' \in DaemonEffect(r, g)
  /\ ambiguous' = IF r \in {"Transport", "Other"}
                    THEN ambiguous \cup {g} ELSE ambiguous
  /\ state' = IF resolution = "Retryable" THEN Restored(g, h)
                                          ELSE Finished(g, h)
  /\ IF state # InFlight(g, h)
       THEN Return(c, "SubmissionStateInconsistent")
       ELSE Goto(c, IF resolution = "Submitted" THEN "applying" ELSE "clearing",
                 g, h, resolution)
  /\ UNCHANGED <<next_generation, active_preparation, online, unconfirmed,
                 issued, atBegin>>

\* apply_changes under the storage write lock; a failure wipes the
\* unconfirmed balances and asks for a resynchronisation.
ApplyChanges(c) ==
  /\ At(c, "applying")
  /\ \/ /\ unconfirmed' = unconfirmed \cup {call[c].generation}
        /\ Return(c, "Submitted")
     \/ /\ unconfirmed' = {}
        /\ Return(c, "SubmittedNeedsResync")
  /\ UNCHANGED <<store, online, issued, atBegin, accepted, ambiguous>>

ClearUnconfirmed(c) ==
  /\ At(c, "clearing")
  /\ unconfirmed' = {}
  /\ Return(c, call[c].outcome)
  /\ UNCHANGED <<store, online, issued, atBegin, accepted, ambiguous>>

\* The future of a broadcast is dropped at one of its awaits.  Only a held
\* guard has something to undo; a request already sent may still be accepted,
\* and storage work already started may or may not be done.
Interrupt(c) ==
  LET g == call[c].generation
      h == call[c].hash
  IN
  /\ call[c].pc \notin {"idle", "preparing", "building"}
  /\ \/ /\ call[c].pc \in {"reading", "submitting"}
        /\ state' = Restored(g, h)
     \/ /\ call[c].pc \notin {"reading", "submitting"}
        /\ UNCHANGED state
  /\ \/ /\ At(c, "submitting")
        /\ accepted' \in DaemonEffect("Transport", g)
        /\ ambiguous' = ambiguous \cup {g}
     \/ /\ ~At(c, "submitting")
        /\ UNCHANGED <<accepted, ambiguous>>
  /\ unconfirmed' \in CASE At(c, "applying") ->
                              {unconfirmed, unconfirmed \cup {g}, {}}
                       [] At(c, "clearing") -> {unconfirmed, {}}
                       [] OTHER -> {unconfirmed}
  /\ Return(c, "Interrupted")
  /\ UNCHANGED <<next_generation, active_preparation, online, issued, atBegin>>

-----------------------------------------------------------------------------

\* The wallet goes online or offline on its own schedule.
ToggleOnline ==
  /\ online' = ~online
  /\ UNCHANGED <<store, call, unconfirmed, issued, atBegin, accepted,
                 ambiguous>>

\* A caller starts an operation.  It addresses transactions it was given.
Start(c) ==
  \/ BeginPreparation(c)
  \/ BeginLegacyCreate(c)
  \/ \E p \in issued : \E g \in {None, p[1]} :
       CancelPrepared(c, g, p[2]) \/ BeginBroadcast(c, g, p[2])

\* A started call takes its next step.
Continue(c) ==
  \/ AbandonPreparation(c)
  \/ LegacyCreateFails(c)
  \/ \E h \in Hash : CommitPreparation(c, h) \/ LegacyReplace(c, h)
  \/ CheckOnline(c)
  \/ OfflineOutcome(c)
  \/ LegacyReadStorage(c)
  \/ TakeForSubmission(c)
  \/ ReadStorage(c)
  \/ \E r \in SubmitResult : Submit(c, r)
  \/ ApplyChanges(c)
  \/ ClearUnconfirmed(c)

\* History: a generation is retired when the slot stops holding it.
Retire ==
  retired' = IF state.generation \notin {None, state'.generation}
               THEN retired \cup {state.generation} ELSE retired

Next ==
  /\ \/ \E c \in Call : Start(c) \/ Continue(c) \/ Interrupt(c)
     \/ ToggleOnline
  /\ Retire

Spec == Init /\ [][Next]_vars

\* Every started call is eventually polled to its end: the runtime polls
\* ready futures and the JSON-RPC client answers or times out.  Nothing has to
\* drop a future.
FairSpec == Spec /\ \A c \in Call : WF_vars(Continue(c) /\ Retire)

-----------------------------------------------------------------------------
(* Properties                                                              *)

Slot == {Empty} \cup {Ready(g, h) : g \in 1 .. MaxGeneration, h \in Hash}
                \cup {InFlight(g, h) : g \in 1 .. MaxGeneration, h \in Hash}

\* The fields of the store and the locals of every call have the types the
\* Rust declarations give them.
TypeOK ==
  /\ state \in Slot
  /\ next_generation \in Generation
  /\ active_preparation \in Generation
  /\ call \in [Call -> [pc : Location, generation : Generation,
                        hash : Hash \cup {NoHash}, outcome : Outcome]]
  /\ online \in BOOLEAN
  /\ unconfirmed \subseteq Generation
  /\ issued \subseteq Generation \X Hash
  /\ retired \subseteq Generation
  /\ atBegin \in Slot
  /\ accepted \subseteq Generation
  /\ ambiguous \subseteq Generation

Submitting(c) == call[c].pc \in {"reading", "submitting"}

\* The guards own the slot: the slot is InFlight exactly while one call holds
\* a submission guard for that very transaction, a preparation is active
\* exactly while one call holds the matching preparation guard, and never
\* both.  (Guard construction, Drop, take, commit, finish and restore.)
SlotOwnership ==
  /\ \A c \in Call :
       Submitting(c) => state = InFlight(call[c].generation, call[c].hash)
  /\ state.tag = "InFlight" => \E c \in Call : Submitting(c)
  /\ \A c, d \in Call : Submitting(c) /\ Submitting(d) => c = d
  /\ \A c \in Call :
       At(c, "preparing") => active_preparation = call[c].generation
  /\ active_preparation # None => \E c \in Call : At(c, "preparing")
  /\ \A c, d \in Call : At(c, "preparing") /\ At(d, "preparing") => c = d
  /\ active_preparation # None => state.tag # "InFlight"

\* No sequence of overlapping calls, failures and dropped futures makes the
\* store answer one of the errors reserved for an inconsistent store, so a
\* paid-for preparation is never lost at commit and a submission never lost
\* at finish or restore.
NoInternalError == \A c \in Call : call[c].outcome \notin InternalError

\* While a preparation is active nothing may touch the slot, so when it fails
\* the previously prepared transaction is still there.
PreparationKeepsSlot == active_preparation # None => state = atBegin

\* The wallet never keeps the unconfirmed balances of a transaction that no
\* daemon accepted, whichever broadcasts overlap or are dropped.
UnconfirmedWereAccepted == unconfirmed \subseteq accepted

\* A transaction the daemon accepted does not stay in the slot for another
\* submission unless some attempt to submit it ended without an answer.
AcceptedLeavesSlot ==
  \A g \in accepted \ ambiguous :
    /\ state.generation # g
    /\ \A c \in Call : ~(Submitting(c) /\ call[c].generation = g)

\* Every submission ends: an InFlight slot is always released, whether the
\* broadcast gets an answer, fails to read its storage or is dropped.  Every
\* preparation ends too and frees the slot for other operations.
SlotReleased ==
  /\ state.tag = "InFlight" ~> state.tag # "InFlight"
  /\ active_preparation # None ~> active_preparation = None

\* The slot implements the contract of the prepared-transaction API: the
\* generation is the id, InFlight is being submitted.
Contract == INSTANCE PreparedContract WITH
  Id <- 1 .. MaxGeneration,
  Hash <- Hash,
  NoTransaction <- <<None, NoHash>>,
  held <- <<state.generation, state.hash>>,
  submitting <- state.tag = "InFlight",
  spent <- retired

\* Every step of every call is a step of the contract or leaves it alone.
ImplementsContract == Contract!CSpec
=============================================================================
