--------------------- MODULE PreparedTransactionsProofs ---------------------
(***************************************************************************)
(* Proofs about PreparedTransactions, for every set of calls and hashes    *)
(* and every largest generation, and about TransactionBuilding, for all    *)
(* assets, requests, amounts, fee policies and estimates.                  *)
(***************************************************************************)
EXTENDS WalletTransactions, Sequences, WellFoundedInduction, TLAPS

\* A leaf that takes the provers longer than their five seconds may take thirty.
USE SMTT(30), ZenonT(30)

\* Generations are fresh: everything in use was allocated, and what is about
\* to enter the slot has never left it.
Freshness ==
  /\ state.generation <= next_generation
  /\ active_preparation <= next_generation
  /\ retired \subseteq 1 .. next_generation
  /\ state.generation \notin retired
  /\ active_preparation # None =>
       active_preparation \notin retired \cup {state.generation}

\* A started call carries the hash it was given; a preparation guard carries
\* an allocated generation.
Carried ==
  \A c \in Call :
    /\ call[c].pc \in {"checking", "offline", "taking", "legacyChecking",
                       "legacyReading", "legacyTaking"} => call[c].hash \in Hash
    /\ At(c, "preparing") => call[c].generation # None

\* What is known of the transactions the daemon accepted.
Settled ==
  /\ accepted \ ambiguous \subseteq retired
  /\ unconfirmed \subseteq accepted
  /\ \A c \in Call : At(c, "applying") => call[c].generation \in accepted

\* The inductive invariant.
IInv ==
  /\ TypeOK
  /\ SlotOwnership
  /\ NoInternalError
  /\ PreparationKeepsSlot
  /\ Freshness
  /\ Carried
  /\ Settled

-----------------------------------------------------------------------------
(* Facts about the slot and about the history of retired generations       *)

\* A value of the slot determines, and is determined by, its three fields.
LEMMA SlotShape ==
  ASSUME NEW s \in Slot
  PROVE  /\ s.generation \in Generation
         /\ s.hash \in Hash \cup {NoHash}
         /\ s.tag = "Empty" <=> s.generation = None
         /\ s.tag = "Empty" => s = Empty
         /\ s.tag = "Ready" => s = Ready(s.generation, s.hash)
         /\ s.tag = "InFlight" => s = InFlight(s.generation, s.hash)
         /\ s.tag \in {"Empty", "Ready", "InFlight"}
         /\ s.hash \in Hash <=> s.tag # "Empty"
BY ConstantsAssumption DEF Slot, Empty, Ready, InFlight, Generation, None

\* Building a slot value from an allocated generation and a hash.
LEMMA SlotValues ==
  /\ Empty \in Slot /\ Empty.tag = "Empty" /\ Empty.generation = None
  /\ \A g \in Generation \ {None}, h \in Hash :
       /\ Ready(g, h) \in Slot /\ InFlight(g, h) \in Slot
       /\ Ready(g, h).tag = "Ready" /\ InFlight(g, h).tag = "InFlight"
       /\ Ready(g, h).generation = g /\ InFlight(g, h).generation = g
       /\ Ready(g, h).hash = h /\ InFlight(g, h).hash = h
<1>. USE ConstantsAssumption DEF Empty, Ready, InFlight, Generation, None
<1>1. Empty \in Slot
  BY DEF Slot
<1>2. ASSUME NEW g \in Generation \ {None}, NEW h \in Hash
      PROVE  Ready(g, h) \in Slot /\ InFlight(g, h) \in Slot
  <2>1. g \in 1 .. MaxGeneration
    OBVIOUS
  <2>. QED BY <2>1 DEF Slot
<1>. QED BY <1>1, <1>2, Zenon

\* Only an allocated generation is ever retired, and never the one the slot
\* holds afterwards unless it had been retired before.
LEMMA RetireFacts ==
  ASSUME state \in Slot, state' \in Slot, retired \subseteq Generation, Retire
  PROVE  /\ retired' \subseteq Generation
         /\ retired' \subseteq retired \cup {state.generation}
         /\ retired \subseteq retired'
         /\ state.generation # None /\ state.generation # state'.generation
              => state.generation \in retired'
         /\ state'.generation = state.generation => retired' = retired
         /\ state.generation = None => retired' = retired
         /\ None \notin retired => None \notin retired'
BY SlotShape, Zenon DEF Retire, None, Generation

-----------------------------------------------------------------------------
(* Every step preserves the inductive invariant                            *)

Guarded == {"preparing", "reading", "submitting"}
NeedsHash == {"checking", "offline", "taking", "legacyChecking",
              "legacyReading", "legacyTaking"}
CallRecord == [pc : Location, generation : Generation,
               hash : Hash \cup {NoHash}, outcome : Outcome]

\* A call that holds no guard before or after the step, and leaves the store
\* alone, cannot disturb the invariant.
LEMMA QuietStep ==
  ASSUME IInv, NEW c \in Call, NEW r \in CallRecord,
         call' = [call EXCEPT ![c] = r],
         call[c].pc \notin Guarded,
         r.pc \notin Guarded \cup {"applying"},
         r.pc \in NeedsHash => r.hash \in Hash,
         r.outcome \notin InternalError,
         UNCHANGED <<state, next_generation, active_preparation, online,
                     issued, atBegin, accepted, ambiguous>>,
         unconfirmed' \subseteq accepted,
         Retire
  PROVE  IInv'
<1>. USE ConstantsAssumption DEF At
<1>1. retired' = retired
  BY Zenon DEF Retire
<1>2. TypeOK'
  BY <1>1, Zenon DEF IInv, TypeOK, CallRecord
<1>3. \A d \in Call : d # c => call'[d] = call[d]
  BY Zenon DEF IInv, TypeOK
<1>4. call'[c] = r
  BY Zenon DEF IInv, TypeOK
<1>5. SlotOwnership'
  BY <1>3, <1>4 DEF IInv, SlotOwnership, Submitting, Guarded
<1>6. NoInternalError'
  BY <1>3, <1>4, Zenon DEF IInv, NoInternalError
<1>7. PreparationKeepsSlot' /\ Freshness'
  BY <1>1, Zenon DEF IInv, PreparationKeepsSlot, Freshness
<1>8. Carried'
  BY <1>3, <1>4, Zenon DEF IInv, Carried, Guarded, NeedsHash
<1>9. Settled'
  BY <1>1, <1>3, <1>4 DEF IInv, Settled
<1>. QED BY <1>2, <1>5, <1>6, <1>7, <1>8, <1>9, Zenon DEF IInv

\* The holder of the submission guard finds its own transaction in flight, so
\* restoring and finishing take effect.
LEMMA OwnedSlot ==
  ASSUME TypeOK, SlotOwnership, NEW c \in Call, Submitting(c)
  PROVE  LET g == call[c].generation
             h == call[c].hash
         IN  /\ state = InFlight(g, h) /\ state.tag = "InFlight"
             /\ state.generation = g
             /\ g \in Generation \ {None} /\ h \in Hash
             /\ active_preparation = None
             /\ Restored(g, h) = Ready(g, h)
             /\ Finished(g, h) = Empty
<1>. DEFINE g == call[c].generation
            h == call[c].hash
<1>1. state = InFlight(g, h) /\ state \in Slot
  BY Zenon DEF SlotOwnership, TypeOK
<1>2. state.tag = "InFlight" /\ state.generation = g /\ state.hash = h
  BY <1>1, Zenon DEF InFlight
<1>3. g \in Generation \ {None} /\ h \in Hash
  BY <1>1, <1>2, SlotShape, Zenon
<1>4. active_preparation = None
  BY <1>2, Zenon DEF SlotOwnership
<1>. QED BY <1>1, <1>2, <1>3, <1>4, Zenon DEF Restored, Finished

\* The steps that hold no guard: starting a call, the online check, the
\* offline answer, and the storage work after the slot was released.
LEMMA QuietSteps ==
  ASSUME IInv, NEW c \in Call, Retire,
         \/ BeginLegacyCreate(c)
         \/ LegacyCreateFails(c)
         \/ \E g \in Generation, h \in Hash : BeginBroadcast(c, g, h)
         \/ CheckOnline(c)
         \/ OfflineOutcome(c)
         \/ LegacyReadStorage(c)
         \/ ApplyChanges(c)
         \/ ClearUnconfirmed(c)
  PROVE  IInv'
<1>. DEFINE r == call'[c]
<1>. USE DEF At, Goto, Return, store
<1>1. /\ call[c] \in CallRecord
      /\ call[c].outcome \notin InternalError
      /\ call[c].pc \in NeedsHash => call[c].hash \in Hash
  BY Zenon DEF IInv, TypeOK, CallRecord, NoInternalError, Carried, NeedsHash
<1>2. /\ None \in Generation /\ NoHash \in Hash \cup {NoHash}
  BY ConstantsAssumption DEF None, Generation
<1>3. call' = [call EXCEPT ![c] = r]
  BY Zenon DEF IInv, TypeOK, BeginLegacyCreate, LegacyCreateFails, BeginBroadcast,
         CheckOnline, OfflineOutcome, LegacyReadStorage, ApplyChanges,
         ClearUnconfirmed
<1>4. call[c].pc \notin Guarded
  BY Zenon DEF BeginLegacyCreate, LegacyCreateFails, BeginBroadcast, CheckOnline,
         OfflineOutcome, LegacyReadStorage, ApplyChanges, ClearUnconfirmed,
         Guarded
<1>5. r \in CallRecord /\ r.outcome \notin InternalError
      /\ r.pc \notin Guarded \cup {"applying"}
      /\ (r.pc \in NeedsHash => r.hash \in Hash)
  <2>1. CASE BeginLegacyCreate(c)
    BY <1>1, <1>2, <2>1, Zenon
    DEF IInv, TypeOK, BeginLegacyCreate, CallRecord, Location, Outcome,
        InternalError, Guarded, NeedsHash
  <2>2. CASE LegacyCreateFails(c)
    BY <1>1, <1>2, <2>2, Zenon
    DEF IInv, TypeOK, LegacyCreateFails, CallRecord, Location, Outcome,
        InternalError, Guarded, NeedsHash
  <2>3. CASE \E g \in Generation, h \in Hash : BeginBroadcast(c, g, h)
    BY <1>1, <1>2, <2>3
    DEF IInv, TypeOK, BeginBroadcast, CallRecord, Location, Outcome,
        InternalError, Guarded, NeedsHash
  <2>4. CASE CheckOnline(c)
    BY <1>1, <1>2, <2>4
    DEF IInv, TypeOK, CheckOnline, CallRecord, Location, Outcome,
        InternalError, Guarded, NeedsHash
  <2>5. CASE OfflineOutcome(c)
    BY <1>1, <1>2, <2>5, Zenon
    DEF IInv, TypeOK, OfflineOutcome, CallRecord, Location, Outcome,
        InternalError, Guarded, NeedsHash, TakeError,
           EnsureSlotOperationAvailable
  <2>6. CASE LegacyReadStorage(c)
    BY <1>1, <1>2, <2>6
    DEF IInv, TypeOK, LegacyReadStorage, CallRecord, Location, Outcome,
        InternalError, Guarded, NeedsHash
  <2>7. CASE ApplyChanges(c)
    BY <1>1, <1>2, <2>7
    DEF IInv, TypeOK, ApplyChanges, CallRecord, Location, Outcome,
        InternalError, Guarded, NeedsHash
  <2>8. CASE ClearUnconfirmed(c)
    BY <1>1, <1>2, <2>8
    DEF IInv, TypeOK, ClearUnconfirmed, CallRecord, Location, Outcome,
        InternalError, Guarded, NeedsHash
  <2>. QED BY <2>1, <2>2, <2>3, <2>4, <2>5, <2>6, <2>7, <2>8, Zenon
<1>6. unconfirmed' \subseteq accepted
  BY Zenon DEF IInv, Settled, BeginLegacyCreate, LegacyCreateFails, BeginBroadcast,
         CheckOnline, OfflineOutcome, LegacyReadStorage, ApplyChanges,
         ClearUnconfirmed
<1>7. UNCHANGED <<state, next_generation, active_preparation, online,
                  issued, atBegin, accepted, ambiguous>>
  BY Zenon DEF BeginLegacyCreate, LegacyCreateFails, BeginBroadcast, CheckOnline,
         OfflineOutcome, LegacyReadStorage, ApplyChanges, ClearUnconfirmed
<1>. HIDE DEF r
<1>. QED BY <1>3, <1>4, <1>5, <1>6, <1>7, QuietStep, Zenon

\* begin_preparation takes the guard or refuses.
LEMMA BeginPreparationPreserves ==
  ASSUME IInv, NEW c \in Call, BeginPreparation(c), Retire
  PROVE  IInv'
<1>. USE ConstantsAssumption DEF BeginPreparation, AllocationError,
    EnsureReplaceable, AllocateGeneration, Goto, Return, At, None,
    Generation
<1>1. TypeOK /\ SlotOwnership /\ Carried
  BY Zenon DEF IInv
<1>2. state' \in Slot
  BY <1>1, SlotShape, SlotValues, Zenon DEF TypeOK, SlotOwnership, Submitting, Carried
<1>3. TypeOK'
  BY <1>1, <1>2, SlotShape, RetireFacts
  DEF TypeOK, Location, Outcome, InternalError
<1>4. SlotOwnership'
  BY <1>1 DEF TypeOK, SlotOwnership, Submitting, Carried, Slot, Empty, Ready, InFlight
<1>5. NoInternalError'
  BY <1>1, SlotShape
  DEF IInv, TypeOK, NoInternalError, InternalError, SlotOwnership, Submitting, Carried
<1>6. PreparationKeepsSlot'
  BY <1>1, SlotShape, Zenon
     DEF IInv, TypeOK, PreparationKeepsSlot, SlotOwnership, Submitting, Carried
<1>7. Freshness'
  BY <1>1, <1>2, SlotShape, SlotValues, RetireFacts
  DEF IInv, TypeOK, Freshness, SlotOwnership, Submitting, Carried
<1>8. Carried'
  BY <1>1 DEF TypeOK, Carried
<1>9. Settled'
  BY <1>1, <1>2, SlotShape, SlotValues, RetireFacts
  DEF IInv, TypeOK, Settled, Freshness, SlotOwnership, Submitting
<1>. QED BY <1>3, <1>4, <1>5, <1>6, <1>7, <1>8, <1>9, Zenon DEF IInv

\* Dropping the preparation guard gives the slot back as it was.
LEMMA AbandonPreparationPreserves ==
  ASSUME IInv, NEW c \in Call, AbandonPreparation(c), Retire
  PROVE  IInv'
<1>. USE ConstantsAssumption DEF AbandonPreparation, Abandoned, Goto,
    Return, At, None, Generation
<1>1. TypeOK /\ SlotOwnership /\ Carried
  BY Zenon DEF IInv
<1>2. state' \in Slot
  BY <1>1, SlotShape, SlotValues, Zenon DEF TypeOK, SlotOwnership, Submitting, Carried
<1>3. TypeOK'
  BY <1>1, <1>2, SlotShape, RetireFacts
  DEF TypeOK, Location, Outcome, InternalError
<1>4. SlotOwnership'
  BY <1>1 DEF TypeOK, SlotOwnership, Submitting, Carried, Slot, Empty, Ready, InFlight
<1>5. NoInternalError'
  BY <1>1, SlotShape
  DEF IInv, TypeOK, NoInternalError, InternalError, SlotOwnership, Submitting, Carried
<1>6. PreparationKeepsSlot'
  BY <1>1, SlotShape, Zenon
     DEF IInv, TypeOK, PreparationKeepsSlot, SlotOwnership, Submitting, Carried
<1>7. Freshness'
  BY <1>1, <1>2, SlotShape, SlotValues, RetireFacts
  DEF IInv, TypeOK, Freshness, SlotOwnership, Submitting, Carried
<1>8. Carried'
  BY <1>1, Zenon DEF TypeOK, Carried
<1>9. Settled'
  BY <1>1, <1>2, SlotShape, SlotValues, RetireFacts
  DEF IInv, TypeOK, Settled, Freshness, SlotOwnership, Submitting
<1>. QED BY <1>3, <1>4, <1>5, <1>6, <1>7, <1>8, <1>9, Zenon DEF IInv

\* A commit installs the prepared transaction; its error branch is dead.
LEMMA CommitPreparationPreserves ==
  ASSUME IInv, NEW c \in Call, NEW h \in Hash, CommitPreparation(c, h), Retire
  PROVE  IInv'
<1>. USE ConstantsAssumption DEF CommitPreparation, CommitError, Abandoned,
    Goto, Return, At, None, Generation
<1>1. TypeOK /\ SlotOwnership /\ Carried
  BY Zenon DEF IInv
<1>2. state' \in Slot
  BY <1>1, SlotShape, SlotValues DEF TypeOK, SlotOwnership, Submitting, Carried
<1>3. TypeOK'
  BY <1>1, <1>2, SlotShape, RetireFacts
  DEF TypeOK, Location, Outcome, InternalError
<1>4. SlotOwnership'
  BY <1>1 DEF TypeOK, SlotOwnership, Submitting, Carried, Slot, Empty, Ready, InFlight
<1>5. NoInternalError'
  BY <1>1, SlotShape
  DEF IInv, TypeOK, NoInternalError, InternalError, SlotOwnership, Submitting, Carried
<1>6. PreparationKeepsSlot'
  BY <1>1, SlotShape, Zenon
     DEF IInv, TypeOK, PreparationKeepsSlot, SlotOwnership, Submitting, Carried
<1>7. Freshness'
  BY <1>1, <1>2, SlotShape, SlotValues, RetireFacts
  DEF IInv, TypeOK, Freshness, SlotOwnership, Submitting, Carried
<1>8. Carried'
  BY <1>1 DEF TypeOK, Carried
<1>9. Settled'
  BY <1>1, <1>2, SlotShape, SlotValues, RetireFacts
  DEF IInv, TypeOK, Settled, Freshness, SlotOwnership, Submitting
<1>. QED BY <1>3, <1>4, <1>5, <1>6, <1>7, <1>8, <1>9, Zenon DEF IInv

\* The older create calls replace the slot after building.
LEMMA LegacyReplacePreserves ==
  ASSUME IInv, NEW c \in Call, NEW h \in Hash, LegacyReplace(c, h), Retire
  PROVE  IInv'
<1>. USE ConstantsAssumption DEF LegacyReplace, AllocationError,
    EnsureReplaceable, AllocateGeneration, Goto, Return, At, None,
    Generation
<1>1. TypeOK /\ SlotOwnership /\ Carried
  BY Zenon DEF IInv
<1>2. state' \in Slot
  BY <1>1, SlotShape, SlotValues DEF TypeOK, SlotOwnership, Submitting, Carried
<1>3. TypeOK'
  BY <1>1, <1>2, SlotShape, RetireFacts
  DEF TypeOK, Location, Outcome, InternalError
<1>4. SlotOwnership'
  BY <1>1 DEF TypeOK, SlotOwnership, Submitting, Carried, Slot, Empty, Ready, InFlight
<1>5. NoInternalError'
  BY <1>1, SlotShape
  DEF IInv, TypeOK, NoInternalError, InternalError, SlotOwnership, Submitting, Carried
<1>6. PreparationKeepsSlot'
  BY <1>1, SlotShape, Zenon
     DEF IInv, TypeOK, PreparationKeepsSlot, SlotOwnership, Submitting, Carried
<1>7. Freshness'
  BY <1>1, <1>2, SlotShape, SlotValues, RetireFacts
  DEF IInv, TypeOK, Freshness, SlotOwnership, Submitting, Carried
<1>8. Carried'
  BY <1>1 DEF TypeOK, Carried
<1>9. Settled'
  BY <1>1, <1>2, SlotShape, SlotValues, RetireFacts
  DEF IInv, TypeOK, Settled, Freshness, SlotOwnership, Submitting
<1>. QED BY <1>3, <1>4, <1>5, <1>6, <1>7, <1>8, <1>9, Zenon DEF IInv

\* A cancellation empties a Ready slot or refuses.
LEMMA CancelPreparedPreserves ==
  ASSUME IInv, NEW c \in Call, NEW g \in Generation, NEW h \in Hash, CancelPrepared(c, g,
         h), Retire
  PROVE  IInv'
<1>. USE ConstantsAssumption DEF CancelPrepared, CancelError,
    EnsureSlotOperationAvailable, Holds, Goto, Return, At, None, Generation
<1>1. TypeOK /\ SlotOwnership /\ Carried
  BY Zenon DEF IInv
<1>2. state' \in Slot
  BY <1>1, SlotShape, SlotValues DEF TypeOK, SlotOwnership, Submitting, Carried
<1>3. TypeOK'
  BY <1>1, <1>2, SlotShape, RetireFacts
  DEF TypeOK, Location, Outcome, InternalError
<1>4. SlotOwnership'
  BY <1>1 DEF TypeOK, SlotOwnership, Submitting, Carried, Slot, Empty, Ready, InFlight
<1>5. NoInternalError'
  BY <1>1, SlotShape
  DEF IInv, TypeOK, NoInternalError, InternalError, SlotOwnership, Submitting, Carried
<1>6. PreparationKeepsSlot'
  BY <1>1, SlotShape, Zenon
     DEF IInv, TypeOK, PreparationKeepsSlot, SlotOwnership, Submitting, Carried
<1>7. Freshness'
  BY <1>1, <1>2, SlotShape, SlotValues, RetireFacts
  DEF IInv, TypeOK, Freshness, SlotOwnership, Submitting, Carried
<1>8. Carried'
  BY <1>1 DEF TypeOK, Carried
<1>9. Settled'
  BY <1>1, <1>2, SlotShape, SlotValues, RetireFacts
  DEF IInv, TypeOK, Settled, Freshness, SlotOwnership, Submitting
<1>. QED BY <1>3, <1>4, <1>5, <1>6, <1>7, <1>8, <1>9, Zenon DEF IInv

\* Taking the slot creates its one submission guard.
LEMMA TakeForSubmissionPreserves ==
  ASSUME IInv, NEW c \in Call, TakeForSubmission(c), Retire
  PROVE  IInv'
<1>. USE ConstantsAssumption DEF TakeForSubmission, TakeError,
    EnsureSlotOperationAvailable, Holds, Goto, Return, At, None, Generation
<1>1. TypeOK /\ SlotOwnership /\ Carried
  BY Zenon DEF IInv
<1>2. state' \in Slot
  BY <1>1, SlotShape, SlotValues DEF TypeOK, SlotOwnership, Submitting, Carried
<1>3. TypeOK'
  BY <1>1, <1>2, SlotShape, RetireFacts
  DEF TypeOK, Location, Outcome, InternalError
<1>4. SlotOwnership'
  BY <1>1 DEF TypeOK, SlotOwnership, Submitting, Carried, Slot, Empty, Ready, InFlight
<1>5. NoInternalError'
  BY <1>1, SlotShape
  DEF IInv, TypeOK, NoInternalError, InternalError, SlotOwnership, Submitting, Carried
<1>6. PreparationKeepsSlot'
  BY <1>1, SlotShape, Zenon
     DEF IInv, TypeOK, PreparationKeepsSlot, SlotOwnership, Submitting, Carried
<1>7. Freshness'
  BY <1>1, <1>2, SlotShape, SlotValues, RetireFacts
  DEF IInv, TypeOK, Freshness, SlotOwnership, Submitting, Carried
<1>8. Carried'
  BY <1>1 DEF TypeOK, Carried
<1>9. Settled'
  BY <1>1, <1>2, SlotShape, SlotValues, RetireFacts
  DEF IInv, TypeOK, Settled, Freshness, SlotOwnership, Submitting
<1>. QED BY <1>3, <1>4, <1>5, <1>6, <1>7, <1>8, <1>9, Zenon DEF IInv

\* Reading the storage context keeps the guard or restores the slot.
LEMMA ReadStoragePreserves ==
  ASSUME IInv, NEW c \in Call, ReadStorage(c), Retire
  PROVE  IInv'
<1>. USE ConstantsAssumption DEF ReadStorage, Restored, Goto, Return, At,
    None, Generation
<1>1. TypeOK /\ SlotOwnership /\ Carried
  BY Zenon DEF IInv
<1>2. state' \in Slot
  BY <1>1, SlotShape, SlotValues, OwnedSlot DEF TypeOK, SlotOwnership, Submitting, Carried
<1>3. TypeOK'
  BY <1>1, <1>2, SlotShape, RetireFacts
  DEF TypeOK, Location, Outcome, InternalError
<1>4. SlotOwnership'
  BY <1>1 DEF TypeOK, SlotOwnership, Submitting, Carried, Slot, Empty, Ready, InFlight
<1>5. NoInternalError'
  BY <1>1, SlotShape, OwnedSlot
  DEF IInv, TypeOK, NoInternalError, InternalError, SlotOwnership, Submitting, Carried
<1>6. PreparationKeepsSlot'
  BY <1>1, SlotShape, OwnedSlot, Zenon
     DEF IInv, TypeOK, PreparationKeepsSlot, SlotOwnership, Submitting, Carried
<1>7. Freshness'
  BY <1>1, <1>2, SlotShape, SlotValues, OwnedSlot, RetireFacts
  DEF IInv, TypeOK, Freshness, SlotOwnership, Submitting, Carried
<1>8. Carried'
  BY <1>1 DEF TypeOK, Carried
<1>9. Settled'
  BY <1>1, <1>2, SlotShape, SlotValues, OwnedSlot, RetireFacts
  DEF IInv, TypeOK, Settled, Freshness, SlotOwnership, Submitting
<1>. QED BY <1>3, <1>4, <1>5, <1>6, <1>7, <1>8, <1>9, Zenon DEF IInv

\* The answer finishes or restores the submission.
LEMMA SubmitPreserves ==
  ASSUME IInv, NEW c \in Call, NEW r \in SubmitResult, Submit(c, r), Retire
  PROVE  IInv'
<1>. USE ConstantsAssumption DEF Submit, Restored, Finished,
    ResolveSubmission, ClassifySubmitError, SubmitResult, DaemonEffect,
    Goto, Return, At, None, Generation
<1>1. TypeOK /\ SlotOwnership /\ Carried
  BY Zenon DEF IInv
<1>2. state' \in Slot
  BY <1>1, SlotShape, SlotValues, OwnedSlot, Zenon
     DEF TypeOK, SlotOwnership, Submitting, Carried
<1>3. TypeOK'
  BY <1>1, <1>2, SlotShape, RetireFacts
  DEF TypeOK, Location, Outcome, InternalError
<1>4. SlotOwnership'
  BY <1>1 DEF TypeOK, SlotOwnership, Submitting, Carried, Slot, Empty, Ready, InFlight
<1>5. NoInternalError'
  BY <1>1, SlotShape, OwnedSlot
  DEF IInv, TypeOK, NoInternalError, InternalError, SlotOwnership, Submitting, Carried
<1>6. PreparationKeepsSlot'
  BY <1>1, SlotShape, OwnedSlot, Zenon
     DEF IInv, TypeOK, PreparationKeepsSlot, SlotOwnership, Submitting, Carried
<1>7. Freshness'
  BY <1>1, <1>2, SlotShape, SlotValues, OwnedSlot, RetireFacts
  DEF IInv, TypeOK, Freshness, SlotOwnership, Submitting, Carried
<1>8. Carried'
  BY <1>1 DEF TypeOK, Carried
<1>9. Settled'
  <2>. DEFINE g == call[c].generation
  <2>1. Submitting(c)
    BY Zenon DEF Submitting
  <2>2. /\ state.generation = g /\ g # None
        /\ retired \subseteq retired'
        /\ state'.generation # g => g \in retired'
    BY <1>1, <1>2, <2>1, OwnedSlot, RetireFacts, Zenon DEF TypeOK
  <2>3. accepted' \ ambiguous' \subseteq (accepted \ ambiguous) \cup {g}
    BY Zenon DEF SubmitResult
  <2>4. CASE r = "Ok"
    <3>1. state' = Empty /\ accepted' = accepted \cup {g}
      BY <1>1, <2>1, <2>4, OwnedSlot, Zenon
    <3>2. g \in retired'
      BY <3>1, <2>2, SlotValues, Zenon
    <3>. QED BY <3>1, <3>2, <2>2, <2>3 DEF IInv, TypeOK, Settled
  <2>5. CASE r # "Ok"
    <3>1. accepted' \ ambiguous' \subseteq accepted \ ambiguous
      BY <2>5, Zenon DEF SubmitResult
    <3>2. call'[c].pc # "applying"
      BY <2>5 DEF IInv, TypeOK, SubmitResult
    <3>3. accepted \subseteq accepted'
      BY Zenon DEF SubmitResult
    <3>. QED BY <3>1, <3>2, <3>3, <2>2 DEF IInv, TypeOK, Settled
  <2>. QED BY <2>4, <2>5, Zenon
<1>. QED BY <1>3, <1>4, <1>5, <1>6, <1>7, <1>8, <1>9, Zenon DEF IInv

\* A dropped broadcast restores the slot if it held the guard.
LEMMA InterruptPreserves ==
  ASSUME IInv, NEW c \in Call, Interrupt(c), Retire
  PROVE  IInv'
<1>. USE ConstantsAssumption DEF Interrupt, Restored, DaemonEffect, Goto,
    Return, At, None, Generation
<1>1. TypeOK /\ SlotOwnership /\ Carried
  BY Zenon DEF IInv
<1>2. state' \in Slot
  BY <1>1, SlotShape, SlotValues, OwnedSlot DEF TypeOK, SlotOwnership, Submitting, Carried
<1>3. TypeOK'
  BY <1>1, <1>2, SlotShape, RetireFacts
  DEF TypeOK, Location, Outcome, InternalError
<1>4. SlotOwnership'
  BY <1>1 DEF TypeOK, SlotOwnership, Submitting, Carried, Slot, Empty, Ready, InFlight
<1>5. NoInternalError'
  BY <1>1, SlotShape, OwnedSlot
  DEF IInv, TypeOK, NoInternalError, InternalError, SlotOwnership, Submitting, Carried
<1>6. PreparationKeepsSlot'
  BY <1>1, SlotShape, OwnedSlot, Zenon
     DEF IInv, TypeOK, PreparationKeepsSlot, SlotOwnership, Submitting, Carried
<1>7. Freshness'
  BY <1>1, <1>2, SlotShape, SlotValues, OwnedSlot, RetireFacts
  DEF IInv, TypeOK, Freshness, SlotOwnership, Submitting, Carried
<1>8. Carried'
  BY <1>1, Zenon DEF TypeOK, Carried
<1>9. Settled'
  BY <1>1, <1>2, SlotShape, SlotValues, OwnedSlot, RetireFacts
  DEF IInv, TypeOK, Settled, Freshness, SlotOwnership, Submitting
<1>. QED BY <1>3, <1>4, <1>5, <1>6, <1>7, <1>8, <1>9, Zenon DEF IInv

-----------------------------------------------------------------------------
(* The theorems                                                            *)

LEMMA InitIInv == Init => IInv
<1>. SUFFICES ASSUME Init PROVE IInv
  OBVIOUS
<1>. USE ConstantsAssumption DEF Init, None, At, Submitting
<1>1. TypeOK
  <2>1. state \in Slot /\ atBegin \in Slot
    BY SlotValues, Zenon
  <2>2. 0 \in Generation /\ "idle" \in Location /\ "None" \in Outcome
    BY DEF Generation, Location, Outcome
  <2>. QED BY <2>1, <2>2, Zenon DEF TypeOK
<1>2. SlotOwnership /\ NoInternalError
  BY Zenon DEF SlotOwnership, NoInternalError, InternalError, Empty
<1>3. PreparationKeepsSlot /\ Freshness /\ Carried /\ Settled
  BY DEF PreparationKeepsSlot, Freshness, Carried, Settled, Empty
<1>. QED BY <1>1, <1>2, <1>3, Zenon DEF IInv

LEMMA NextIInv == IInv /\ [Next]_vars => IInv'
<1>. SUFFICES ASSUME IInv, [Next]_vars PROVE IInv'
  OBVIOUS
<1>1. CASE UNCHANGED vars
  BY <1>1, Zenon DEF IInv, TypeOK, SlotOwnership, NoInternalError,
     PreparationKeepsSlot, Freshness, Carried, Settled, vars, At, Submitting
<1>2. CASE ToggleOnline /\ Retire
  BY <1>2, Zenon DEF ToggleOnline, Retire, IInv, TypeOK, SlotOwnership,
     NoInternalError, PreparationKeepsSlot, Freshness, Carried, Settled, At,
     Submitting, store
<1>3. ASSUME NEW c \in Call, Start(c), Retire PROVE IInv'
  <2>1. CASE BeginPreparation(c)
    BY <1>3, <2>1, BeginPreparationPreserves, Zenon
  <2>2. CASE BeginLegacyCreate(c)
    BY <1>3, <2>2, QuietSteps, Zenon
  <2>3. ASSUME NEW p \in issued, NEW g \in {None, p[1]},
               CancelPrepared(c, g, p[2]) \/ BeginBroadcast(c, g, p[2])
        PROVE  IInv'
    <3>1. g \in Generation /\ p[2] \in Hash
      BY ConstantsAssumption DEF IInv, TypeOK, None, Generation
    <3>2. CASE CancelPrepared(c, g, p[2])
      BY <1>3, <3>1, <3>2, CancelPreparedPreserves, Zenon
    <3>3. CASE BeginBroadcast(c, g, p[2])
      BY <1>3, <3>1, <3>3, QuietSteps, Zenon
    <3>. QED BY <2>3, <3>2, <3>3, Zenon
  <2>. QED BY <1>3, <2>1, <2>2, <2>3, Zenon DEF Start
<1>4. ASSUME NEW c \in Call, Continue(c) \/ Interrupt(c), Retire PROVE IInv'
  <2>1. CASE AbandonPreparation(c)
    BY <1>4, <2>1, AbandonPreparationPreserves, Zenon
  <2>2. CASE \E h \in Hash : CommitPreparation(c, h)
    BY <1>4, <2>2, CommitPreparationPreserves, Zenon
  <2>3. CASE \E h \in Hash : LegacyReplace(c, h)
    BY <1>4, <2>3, LegacyReplacePreserves, Zenon
  <2>4. CASE TakeForSubmission(c)
    BY <1>4, <2>4, TakeForSubmissionPreserves, Zenon
  <2>5. CASE ReadStorage(c)
    BY <1>4, <2>5, ReadStoragePreserves, Zenon
  <2>6. CASE \E r \in SubmitResult : Submit(c, r)
    BY <1>4, <2>6, SubmitPreserves, Zenon
  <2>7. CASE Interrupt(c)
    BY <1>4, <2>7, InterruptPreserves, Zenon
  <2>8. CASE \/ LegacyCreateFails(c) \/ CheckOnline(c) \/ OfflineOutcome(c)
             \/ LegacyReadStorage(c) \/ ApplyChanges(c) \/ ClearUnconfirmed(c)
    BY <1>4, <2>8, QuietSteps, Zenon
  <2>. QED BY <1>4, <2>1, <2>2, <2>3, <2>4, <2>5, <2>6, <2>7, <2>8, Zenon
           DEF Continue
<1>. QED BY <1>1, <1>2, <1>3, <1>4, Zenon DEF Next

\* The inductive invariant holds in every reachable state.
THEOREM Invariance == Spec => []IInv
BY InitIInv, NextIInv, PTL DEF Spec

\* Every field of the store and every local of a call keeps its type; in
\* particular no allocated generation exceeds u64::MAX.
THEOREM TypeCorrect == Spec => []TypeOK
<1>1. IInv => TypeOK
  BY Zenon DEF IInv
<1>. QED BY <1>1, Invariance, PTL

\* The guards own the slot: at most one call submits, at most one prepares,
\* never both, and the slot is InFlight exactly while its guard is alive.
THEOREM GuardsOwnSlot == Spec => []SlotOwnership
<1>1. IInv => SlotOwnership
  BY Zenon DEF IInv
<1>. QED BY <1>1, Invariance, PTL

\* The errors reserved for an inconsistent store are unreachable.
THEOREM StoreConsistent == Spec => []NoInternalError
<1>1. IInv => NoInternalError
  BY Zenon DEF IInv
<1>. QED BY <1>1, Invariance, PTL

\* The slot does not change while a preparation is active, so a failed
\* preparation leaves the previous transaction intact.
THEOREM FailedPreparationHarmless == Spec => []PreparationKeepsSlot
<1>1. IInv => PreparationKeepsSlot
  BY Zenon DEF IInv
<1>. QED BY <1>1, Invariance, PTL

\* Unconfirmed balances are kept only for transactions a daemon accepted, and
\* an accepted transaction is not submitted again unless an answer was lost.
THEOREM AcceptedOnce == Spec => [](UnconfirmedWereAccepted /\ AcceptedLeavesSlot)
<1>1. IInv => UnconfirmedWereAccepted
  BY Zenon DEF IInv, Settled, UnconfirmedWereAccepted
<1>2. ASSUME IInv PROVE AcceptedLeavesSlot
  <2>. SUFFICES ASSUME NEW g \in accepted \ ambiguous
                PROVE  /\ state.generation # g
                       /\ \A c \in Call :
                            ~(Submitting(c) /\ call[c].generation = g)
    BY Zenon DEF AcceptedLeavesSlot
  <2>1. state.generation # g
    BY <1>2, Zenon DEF IInv, Settled, Freshness
  <2>2. \A c \in Call : Submitting(c) => call[c].generation = state.generation
    BY <1>2, OwnedSlot, Zenon DEF IInv
  <2>. QED BY <2>1, <2>2, Zenon
<1>. QED BY <1>1, <1>2, Invariance, PTL

-----------------------------------------------------------------------------
(* The slot implements the contract of the API                             *)

\* Seen from the contract, a step leaves the slot alone or changes it in one
\* of five ways.
SlotStep ==
  \/ state' = state
  \/ \E g \in Generation \ {None}, h \in Hash :
       /\ state.tag # "InFlight" /\ state' = Ready(g, h)
       /\ g \notin retired \cup {state.generation}
  \/ state.tag = "Ready" /\ state' = Empty
  \/ state.tag = "Ready" /\ state' = InFlight(state.generation, state.hash)
  \/ state.tag = "InFlight" /\ state' = Ready(state.generation, state.hash)
  \/ state.tag = "InFlight" /\ state' = Empty

LEMMA NextSlotStep ==
  ASSUME IInv, Next
  PROVE  SlotStep
<1>. USE ConstantsAssumption DEF At, None
<1>1. TypeOK /\ SlotOwnership /\ Freshness /\ Carried
  BY Zenon DEF IInv
<1>2. CASE ToggleOnline
  BY <1>2, Zenon DEF ToggleOnline, SlotStep, store
<1>3. ASSUME NEW c \in Call, Start(c) PROVE SlotStep
  <2>1. CASE BeginPreparation(c) \/ BeginLegacyCreate(c)
    BY <2>1, Zenon DEF BeginPreparation, BeginLegacyCreate, SlotStep, store
  <2>2. ASSUME NEW p \in issued, NEW g \in {None, p[1]},
               CancelPrepared(c, g, p[2]) \/ BeginBroadcast(c, g, p[2])
        PROVE  SlotStep
    BY <2>2, Zenon DEF CancelPrepared, CancelError, EnsureSlotOperationAvailable,
       Holds, BeginBroadcast, SlotStep, store
  <2>. QED BY <1>3, <2>1, <2>2, Zenon DEF Start
<1>4. ASSUME NEW c \in Call, Continue(c) \/ Interrupt(c) PROVE SlotStep
  <2>. DEFINE g == call[c].generation
              h == call[c].hash
  <2>1. CASE \/ AbandonPreparation(c) \/ LegacyCreateFails(c) \/ CheckOnline(c)
             \/ OfflineOutcome(c) \/ LegacyReadStorage(c) \/ ApplyChanges(c)
             \/ ClearUnconfirmed(c)
    BY <2>1, Zenon DEF AbandonPreparation, LegacyCreateFails, CheckOnline,
       OfflineOutcome, LegacyReadStorage, ApplyChanges, ClearUnconfirmed,
       SlotStep, store
  <2>2. ASSUME NEW i \in Hash, CommitPreparation(c, i) PROVE SlotStep
    <3>1. /\ g \in Generation \ {None} /\ active_preparation = g
          /\ state.tag # "InFlight"
      BY <1>1, <2>2, Zenon DEF TypeOK, SlotOwnership, Carried, CommitPreparation
    <3>2. state' = state \/ state' = Ready(g, i)
      BY <2>2, Zenon DEF CommitPreparation
    <3>. QED BY <1>1, <3>1, <3>2, Zenon DEF Freshness, SlotStep
  <2>3. ASSUME NEW i \in Hash, LegacyReplace(c, i) PROVE SlotStep
    <3>1. CASE AllocationError # "Ok"
      BY <2>3, <3>1, Zenon DEF LegacyReplace, SlotStep
    <3>2. CASE AllocationError = "Ok"
      <4>1. /\ AllocateGeneration \in Generation \ {None}
            /\ AllocateGeneration = next_generation + 1
            /\ state.tag # "InFlight"
        BY <1>1, <3>2 DEF AllocationError, EnsureReplaceable,
           AllocateGeneration, TypeOK, Generation
      <4>2. AllocateGeneration \notin retired \cup {state.generation}
        BY <1>1, <4>1, SlotShape DEF Freshness, TypeOK, Generation
      <4>3. state' = Ready(AllocateGeneration, i)
        BY <2>3, <3>2, Zenon DEF LegacyReplace
      <4>. QED BY <4>1, <4>2, <4>3, Zenon DEF SlotStep
    <3>. QED BY <3>1, <3>2, Zenon
  <2>4. CASE TakeForSubmission(c)
    BY <2>4, Zenon DEF TakeForSubmission, TakeError, EnsureSlotOperationAvailable,
       Holds, SlotStep
  <2>5. CASE ReadStorage(c) \/ (\E r \in SubmitResult : Submit(c, r))
                            \/ Interrupt(c)
    <3>1. CASE Submitting(c)
      <4>1. state' \in {state, Ready(g, h), Empty}
        BY <1>1, <2>5, <3>1, OwnedSlot, Zenon DEF ReadStorage, Submit, Interrupt
      <4>2. state.tag = "InFlight" /\ state = InFlight(g, h)
        BY <1>1, <3>1, OwnedSlot, Zenon
      <4>3. g = state.generation /\ h = state.hash
        BY <4>2, Zenon DEF InFlight
      <4>. QED BY <4>1, <4>2, <4>3, Zenon DEF SlotStep
    <3>2. CASE ~Submitting(c)
      BY <2>5, <3>2, Zenon DEF ReadStorage, Submit, Interrupt, Submitting, SlotStep
    <3>. QED BY <3>1, <3>2, Zenon
  <2>. QED BY <1>4, <2>1, <2>2, <2>3, <2>4, <2>5, Zenon DEF Continue
<1>. QED BY <1>2, <1>3, <1>4, Zenon DEF Next

LEMMA ContractStep ==
  ASSUME IInv, IInv', [Next]_vars
  PROVE  [Contract!CNext]_(Contract!cvars)
<1>. USE ConstantsAssumption DEF None, Contract!cvars
<1>1. CASE UNCHANGED vars
  BY <1>1, Zenon DEF vars
<1>2. CASE Next
  <2>1. state \in Slot /\ state' \in Slot /\ retired \subseteq Generation
        /\ Retire
    BY <1>2, Zenon DEF IInv, TypeOK, Next
  <2>2. Contract!Leaves = IF state.generation = None THEN {}
                                                     ELSE {state.generation}
    BY <2>1, SlotShape, Zenon DEF Contract!Leaves
  <2>3. SlotStep
    BY <1>2, NextSlotStep, Zenon
  <2>4. CASE state' = state
    BY <2>1, <2>4, RetireFacts, Zenon
  <2>5. ASSUME NEW g \in Generation \ {None}, NEW h \in Hash,
               state.tag # "InFlight", state' = Ready(g, h),
               g \notin retired \cup {state.generation}
        PROVE  Contract!CNext
    <3>1. g \in 1 .. MaxGeneration
      BY DEF Generation
    <3>2. state'.generation = g /\ state'.hash = h /\ state'.tag = "Ready"
      BY <2>5, SlotValues
    <3>3. retired' = retired \cup Contract!Leaves
      BY <2>1, <2>2, <2>5, <3>2, Zenon DEF Retire
    <3>4. Contract!Prepare(g, h)
      BY <2>2, <2>5, <3>2, <3>3, Zenon DEF Contract!Prepare
    <3>. QED BY <3>1, <3>4, Zenon DEF Contract!CNext
  <2>6. CASE state' = Empty /\ state.tag # "Empty"
    <3>1. /\ state'.generation = None /\ state'.hash = NoHash
          /\ state'.tag = "Empty" /\ state.generation # None
      BY <2>1, <2>6, SlotShape, Zenon DEF Empty
    <3>2. retired' = retired \cup Contract!Leaves
      BY <2>1, <2>2, <3>1, Zenon DEF Retire
    <3>. QED BY <2>2, <3>1, <3>2, Zenon
             DEF Contract!CNext, Contract!Discard, Contract!Consume
  <2>7. CASE state.tag = "Ready" /\ state' = InFlight(state.generation, state.hash)
    <3>1. /\ state'.generation = state.generation /\ state'.hash = state.hash
          /\ state'.tag = "InFlight" /\ state.generation # None
      BY <2>1, <2>7, SlotShape, Zenon DEF InFlight
    <3>2. retired' = retired
      BY <2>1, <3>1, RetireFacts, Zenon
    <3>. QED BY <2>7, <3>1, <3>2, Zenon DEF Contract!CNext, Contract!StartSubmission
  <2>8. CASE state.tag = "InFlight" /\ state' = Ready(state.generation, state.hash)
    <3>1. /\ state'.generation = state.generation /\ state'.hash = state.hash
          /\ state'.tag = "Ready"
      BY <2>8, Zenon DEF Ready
    <3>2. retired' = retired
      BY <2>1, <3>1, RetireFacts, Zenon
    <3>. QED BY <2>8, <3>1, <3>2, Zenon DEF Contract!CNext, Contract!Restore
  <2>. QED BY <2>3, <2>4, <2>5, <2>6, <2>7, <2>8, Zenon DEF SlotStep
<1>. QED BY <1>1, <1>2, Zenon

\* The slot, driven by any number of overlapping calls, implements the API's
\* contract: nothing replaces a transaction during its submission, a retry
\* finds the same transaction, and a transaction that left never returns.
THEOREM SlotImplementsContract == Spec => ImplementsContract
<1>1. Init => Contract!CInit
  BY DEF Init, Contract!CInit, Empty, None
<1>2. IInv /\ IInv' /\ [Next]_vars => [Contract!CNext]_(Contract!cvars)
  BY ContractStep, Zenon
<1>. QED BY <1>1, <1>2, Invariance, PTL
         DEF Spec, ImplementsContract, Contract!CSpec

\* Induction on natural numbers, as the existence of a least counterexample.
LEMMA LeastNatural ==
  ASSUME NEW T, T \subseteq Nat, T # {}
  PROVE  \E n \in T : \A m \in T : n <= m
<1> DEFINE R == OpToRel(<, Nat)
<1>1. R = {p \in Nat \X Nat : p[1] < p[2]}
  BY Zenon DEF OpToRel
<1>2. IsWellFoundedOn(R, Nat)
  BY NatLessThanWellFounded, Zenon
<1> HIDE DEF R
<1>3. PICK n \in T : \A m \in T : ~(<<m, n>> \in R)
  BY <1>2, WFMin, Zenon
<1>4. \A m \in T : m < n => <<m, n>> \in R
  <2> SUFFICES ASSUME NEW m \in T, m < n PROVE <<m, n>> \in R
    OBVIOUS
  <2>1. <<m, n>> \in Nat \X Nat /\ <<m, n>>[1] = m /\ <<m, n>>[2] = n
    BY Zenon
  <2> QED
    BY <1>1, <2>1, Zenon
<1>5. \A m \in T : ~(m < n)
  BY <1>3, <1>4, Zenon
<1> QED
  BY <1>5, SMT

LEMMA Induction ==
  ASSUME NEW T, 0 \in T, \A n \in Nat : n \in T => n + 1 \in T
  PROVE  Nat \subseteq T
<1> SUFFICES ASSUME Nat \ T # {} PROVE FALSE
  BY Zenon
<1>1. PICK n \in Nat \ T : \A m \in Nat \ T : n <= m
  <2>1. Nat \ T \subseteq Nat
    BY Zenon
  <2> QED
    BY <2>1, LeastNatural, Zenon
<1>2. n # 0 /\ n - 1 \in Nat /\ n = (n - 1) + 1 /\ ~(n <= n - 1)
  BY <1>1, SMT
<1> QED
  BY <1>1, <1>2, Zenon

\* The defining equation of Power, whose solution exists: every initial part
\* of it does, and two of them agree.
LEMMA PowerEquation ==
  /\ Building!Power[0] = 1
  /\ \A n \in Nat : Building!Power[n + 1] = Radix * Building!Power[n]
  /\ \A n \in Nat : Building!Power[n] \in Nat /\ Building!Power[n] > 0
<1> USE BuildingAssumption DEF Building!ConstantsAssumption
<1> DEFINE Part(n) == {f \in [0 .. n -> Nat \ {0}] :
                         f[0] = 1 /\ \A i \in 1 .. n : f[i] = Radix * f[i - 1]}
           Exists == {n \in Nat : Part(n) # {}}
           Unique == {n \in Nat : \A f, g : \A a, b \in Nat :
                        (f \in Part(a) /\ g \in Part(b) /\ n <= a /\ n <= b)
                          => f[n] = g[n]}
<1>1. Nat \subseteq Exists
  <2>1. 0 \in Exists
    <3>1. [i \in 0 .. 0 |-> 1] \in Part(0)
      BY SMT
    <3> QED
      BY <3>1, SMT
  <2>2. ASSUME NEW n \in Nat, n \in Exists PROVE n + 1 \in Exists
    <3>1. PICK f : f \in Part(n)
      BY <2>2, Zenon
    <3> DEFINE g == [i \in 0 .. (n + 1) |-> IF i = n + 1 THEN Radix * f[n] ELSE f[i]]
    <3>2. g \in [0 .. (n + 1) -> Nat \ {0}]
      BY <3>1, SMT
    <3>3. g[0] = 1
      BY <3>1, SMT
    <3>4. \A i \in 1 .. (n + 1) : g[i] = Radix * g[i - 1]
      BY <3>1, SMT
    <3> HIDE DEF g
    <3>5. g \in Part(n + 1)
      BY <3>2, <3>3, <3>4, Zenon
    <3>6. n + 1 \in Nat
      BY SMT
    <3> QED
      BY <3>5, <3>6, Zenon
  <2> HIDE DEF Exists
  <2> QED
    BY <2>1, <2>2, Induction, Zenon
<1>2. Nat \subseteq Unique
  <2>1. 0 \in Unique
    BY SMT
  <2>2. ASSUME NEW n \in Nat, n \in Unique PROVE n + 1 \in Unique
    <3> SUFFICES ASSUME NEW f, NEW g, NEW a \in Nat, NEW b \in Nat,
                        f \in Part(a), g \in Part(b), n + 1 <= a, n + 1 <= b
                 PROVE  f[n + 1] = g[n + 1]
      <4>1. n + 1 \in Nat
        BY SMT
      <4> QED
        BY <4>1, Zenon
    <3>1. f[n] = g[n]
      <4>1. n <= a /\ n <= b
        BY SMT
      <4> QED
        BY <2>2, <4>1, Zenon
    <3>2. n + 1 \in 1 .. a /\ n + 1 \in 1 .. b /\ (n + 1) - 1 = n
      BY SMT
    <3>3. f[n + 1] = Radix * f[(n + 1) - 1] /\ g[n + 1] = Radix * g[(n + 1) - 1]
      BY <3>2, Zenon
    <3> QED
      BY <3>1, <3>2, <3>3, Zenon
  <2> HIDE DEF Unique
  <2> QED
    BY <2>1, <2>2, Induction, Zenon
<1> DEFINE part == [n \in Nat |-> CHOOSE f : f \in Part(n)]
<1>3. \A n \in Nat : part[n] \in Part(n)
  BY <1>1, Zenon
<1> DEFINE g == [n \in Nat |-> part[n][n]]
<1> HIDE DEF part
<1>4. g[0] = 1
  BY <1>3, SMT
<1>5. \A n \in Nat : g[n] \in Nat /\ g[n] > 0
  BY <1>3, SMT
<1>6. \A n \in Nat : g[n + 1] = Radix * g[n]
  <2> TAKE n \in Nat
  <2>1. n + 1 \in Nat /\ n \in 0 .. (n + 1) /\ n + 1 \in 1 .. (n + 1) /\ (n + 1) - 1 = n
        /\ n <= n + 1 /\ n <= n
    BY SMT
  <2>2. part[n + 1] \in Part(n + 1) /\ part[n] \in Part(n)
    BY <1>3, <2>1, Zenon
  <2>3. part[n + 1][n + 1] = Radix * part[n + 1][(n + 1) - 1]
    BY <2>1, <2>2, Zenon
  <2>4. part[n + 1][n] = part[n][n]
    <3>1. n \in Unique
      BY <1>2, Zenon
    <3> QED
      BY <2>1, <2>2, <3>1, Zenon
  <2> QED
    BY <2>1, <2>3, <2>4, Zenon
<1>7. g = [n \in Nat |-> IF n = 0 THEN 1 ELSE Radix * g[n - 1]]
  <2>1. ASSUME NEW n \in Nat PROVE g[n] = IF n = 0 THEN 1 ELSE Radix * g[n - 1]
    <3>1. CASE n = 0
      BY <1>4, <3>1, Zenon
    <3>2. CASE n # 0
      <4>1. n - 1 \in Nat /\ (n - 1) + 1 = n
        BY <3>2, SMT
      <4> QED
        BY <1>6, <3>2, <4>1, Zenon
    <3> QED
      BY <3>1, <3>2, Zenon
  <2>2. g = [n \in Nat |-> g[n]]
    BY Zenon
  <2> HIDE DEF g
  <2> QED
    BY <2>1, <2>2, Zenon
<1> HIDE DEF g
<1>8. Building!Power = [n \in Nat |-> IF n = 0 THEN 1 ELSE Radix * Building!Power[n - 1]]
  BY <1>7, Zenon DEF Building!Power
<1> DEFINE Agree == {n \in Nat : Building!Power[n] = g[n]}
<1>9. Nat \subseteq Agree
  <2>1. 0 \in Agree
    BY <1>4, <1>8, Zenon
  <2>2. ASSUME NEW n \in Nat, n \in Agree PROVE n + 1 \in Agree
    <3>1. n + 1 \in Nat /\ n + 1 # 0 /\ (n + 1) - 1 = n
      BY SMT
    <3>2. Building!Power[n + 1] = Radix * Building!Power[(n + 1) - 1]
      BY <1>8, <3>1, Zenon
    <3>3. g[n + 1] = Radix * g[n] /\ Building!Power[n] = g[n]
      BY <1>6, <2>2, Zenon
    <3>4. Building!Power[n + 1] = g[n + 1]
      BY <3>1, <3>2, <3>3, Zenon
    <3> QED
      BY <3>1, <3>4, Zenon
  <2> HIDE DEF Agree
  <2> QED
    BY <2>1, <2>2, Induction, Zenon
<1>10. \A n \in Nat : Building!Power[n] = g[n] /\ n + 1 \in Nat
  BY <1>9, SMT
<1>11. 0 \in Nat
  BY SMT
<1> QED
  BY <1>4, <1>5, <1>6, <1>10, <1>11, Zenon

LEMMA Quotient ==
  ASSUME NEW a \in Nat, NEW b \in Nat, b > 0
  PROVE  /\ a \div b \in Nat
         /\ (a \div b) * b <= a
         /\ a < (a \div b) * b + b
  BY SMT

LEMMA PowerSum ==
  ASSUME NEW a \in Nat, NEW b \in Nat
  PROVE  Building!Power[a + b] = Building!Power[a] * Building!Power[b]
<1> DEFINE T == {n \in Nat : Building!Power[a + n] = Building!Power[a] * Building!Power[n]}
<1>0. Radix \in Nat
  BY BuildingAssumption DEF Building!ConstantsAssumption
<1>1. 0 \in T
  <2>1. a + 0 = a /\ Building!Power[a] \in Nat
    BY PowerEquation, SMT
  <2>2. Building!Power[a] * 1 = Building!Power[a]
    BY <2>1, SMT
  <2>3. 0 \in Nat
    BY SMT
  <2> QED
    BY <2>1, <2>2, <2>3, PowerEquation, Zenon
<1>2. ASSUME NEW n \in Nat, n \in T PROVE n + 1 \in T
  <2>1. n + 1 \in Nat /\ a + n \in Nat /\ a + (n + 1) = (a + n) + 1
    BY SMT
  <2>2. /\ Building!Power[(a + n) + 1] = Radix * Building!Power[a + n]
        /\ Building!Power[n + 1] = Radix * Building!Power[n]
        /\ Building!Power[a] \in Nat /\ Building!Power[n] \in Nat
    BY <2>1, PowerEquation, Zenon
  <2>3. \A x, y \in Nat : Radix * (x * y) = x * (Radix * y)
    BY <1>0, SMT
  <2>4. Building!Power[a + n] = Building!Power[a] * Building!Power[n]
    BY <1>2, Zenon
  <2>5. Building!Power[a + (n + 1)] = Radix * (Building!Power[a] * Building!Power[n])
    BY <2>1, <2>2, <2>4, Zenon
  <2>6. Radix * (Building!Power[a] * Building!Power[n]) = Building!Power[a] * Building!Power[n + 1]
    BY <2>2, <2>3, Zenon
  <2> QED
    BY <2>1, <2>5, <2>6, Zenon
<1> HIDE DEF T
<1>3. Nat \subseteq T
  BY <1>1, <1>2, Induction, Zenon
<1> QED
  BY <1>3, Zenon DEF T

\* Rounded gives the multiple of the unit that is less than half of one away.
LEMMA RoundedNearest ==
  ASSUME NEW n \in Nat, NEW unit \in Nat, unit > 0
  PROVE  /\ Building!Rounded(n, unit) \in Nat
         /\ \A m \in Nat : 2 * Building!Distance(n, m * unit) < unit
                             => Building!Rounded(n, unit) = m
         /\ \A max \in Nat : n < max * unit => Building!Rounded(n, unit) <= max
<1> DEFINE r == Building!Rounded(n, unit)
<1>1. /\ r \in Nat
      /\ r * (2 * unit) <= 2 * n + unit
      /\ 2 * n + unit < r * (2 * unit) + 2 * unit
  <2>1. 2 * n + unit \in Nat /\ 2 * unit \in Nat /\ 2 * unit > 0
    BY SMT
  <2> QED
    BY <2>1, Quotient, Zenon DEF Building!Rounded
<1> HIDE DEF r
<1> DEFINE x == r * unit
<1>2. x \in Nat /\ r * (2 * unit) = 2 * x
  BY <1>1, SMT
<1>3. \A m \in Nat : m * unit \in Nat /\ (m > r => m * unit >= x + unit)
                       /\ (m < r => m * unit + unit <= x)
  BY <1>1, SMT
<1> HIDE DEF x
<1>4. 2 * x <= 2 * n + unit /\ 2 * n + unit < 2 * x + 2 * unit
  BY <1>1, <1>2, SMT
<1>5. ASSUME NEW m \in Nat, 2 * Building!Distance(n, m * unit) < unit PROVE r = m
  <2> DEFINE y == m * unit
  <2>1. y \in Nat /\ (m > r => y >= x + unit) /\ (m < r => y + unit <= x)
    BY <1>3, Zenon
  <2>2. 2 * Building!Distance(n, y) < unit
    BY <1>5, Zenon
  <2> HIDE DEF y
  <2>3. m > r \/ m < r \/ m = r
    BY <1>1, SMT
  <2> QED
    BY <1>1, <1>2, <1>4, <2>1, <2>2, <2>3, SMT DEF Building!Distance
<1>6. ASSUME NEW max \in Nat, n < max * unit PROVE r <= max
  <2> DEFINE y == max * unit
  <2>1. y \in Nat /\ (max < r => y + unit <= x) /\ n < y
    BY <1>3, <1>6, Zenon
  <2> HIDE DEF y
  <2> QED
    BY <1>1, <1>2, <1>4, <2>1, SMT
<1> QED
  BY <1>1, <1>5, <1>6, Zenon DEF x, r

\* What an amount of the older calls is, if it is accepted.
AtomicExact(input, decimals, amount) ==
  LET n == input.mantissa * Building!Power[decimals]
      sent == amount * Building!Power[input.places]
  IN /\ amount \in 1..MaxU64
     /\ input.places <= decimals /\ 2 * n * MaxError < Building!Power[input.places] * Grain
          => sent = n
     /\ Building!Distance(n, sent) * Grain * Precision
          <= Building!Power[input.places] * Grain + n * MaxError * Precision

\* How far a product is off, in parts of the grain.
LEMMA ProductError ==
  ASSUME NEW n \in Nat, NEW e \in -MaxError .. MaxError
  PROVE  /\ n * (Grain + e) \in Nat
         /\ Building!Distance(n * (Grain + e), n * Grain) <= n * MaxError
<1>1. Grain \in Nat /\ MaxError \in Nat /\ MaxError < Grain
  BY BuildingAssumption DEF Building!ConstantsAssumption
<1>2. /\ e \in Int /\ Grain + e \in Nat
      /\ e <= MaxError /\ -e <= MaxError
  BY <1>1, SMT
<1> DEFINE a == n * Grain
           b == n * e
           c == n * MaxError
<1>3. a \in Nat /\ b \in Int /\ c \in Nat /\ n * (Grain + e) = a + b
  BY <1>1, <1>2, SMT
<1>4. n * (Grain + e) \in Nat
  BY <1>2, SMT
<1>5. b <= c
  <2>1. MaxError - e \in Nat
    BY <1>1, <1>2, SMT
  <2>2. n * (MaxError - e) \in Nat /\ n * (MaxError - e) = c - b
    BY <1>1, <1>2, <2>1, SMT
  <2> HIDE DEF b, c
  <2> QED
    BY <1>3, <2>2, SMT
<1>6. -b <= c
  <2>1. MaxError + e \in Nat
    BY <1>1, <1>2, SMT
  <2>2. n * (MaxError + e) \in Nat /\ n * (MaxError + e) = c + b
    BY <1>1, <1>2, <2>1, SMT
  <2> HIDE DEF b, c
  <2> QED
    BY <1>3, <2>2, SMT
<1> DEFINE s == n * (Grain + e)
<1> HIDE DEF a, b, c, s
<1>7. s = a + b /\ s \in Nat
  BY <1>3, <1>4, Zenon DEF s
<1>8. Building!Distance(s, a) <= c
  BY <1>3, <1>5, <1>6, <1>7, SMT DEF Building!Distance
<1> QED
  BY <1>7, <1>8, Zenon DEF a, c, s

\* Distances are at most the sum of the distances to a third number, and scale.
LEMMA Distances ==
  /\ \A x, y, z \in Nat : /\ Building!Distance(x, y) \in Nat
                          /\ Building!Distance(x, y) = Building!Distance(y, x)
                          /\ Building!Distance(x, z)
                               <= Building!Distance(x, y) + Building!Distance(y, z)
  /\ \A x, y, g \in Nat :
       Building!Distance(x * g, y * g) = Building!Distance(x, y) * g
<1>1. ASSUME NEW x \in Nat, NEW y \in Nat, NEW z \in Nat
      PROVE  /\ Building!Distance(x, y) \in Nat
             /\ Building!Distance(x, y) = Building!Distance(y, x)
             /\ Building!Distance(x, z) <= Building!Distance(x, y) + Building!Distance(y, z)
  BY SMT DEF Building!Distance
<1>2. ASSUME NEW x \in Nat, NEW y \in Nat, NEW g \in Nat
      PROVE  Building!Distance(x * g, y * g) = Building!Distance(x, y) * g
  <2> DEFINE a == x * g
             b == y * g
  <2>1. a \in Nat /\ b \in Nat
    BY SMT
  <2>2. CASE x > y
    <3>1. (x - y) * g = a - b /\ (x - y) * g \in Nat
      <4>1. x - y \in Nat
        BY <2>2, SMT
      <4> QED
        BY <4>1, SMT
    <3>2. Building!Distance(x, y) = x - y
      BY <2>2, Zenon DEF Building!Distance
    <3> HIDE DEF a, b
    <3>3. Building!Distance(a, b) = a - b
      BY <2>1, <3>1, SMT DEF Building!Distance
    <3> QED
      BY <3>1, <3>2, <3>3, Zenon DEF a, b
  <2>3. CASE ~(x > y)
    <3>1. (y - x) * g = b - a /\ (y - x) * g \in Nat
      <4>1. y - x \in Nat
        BY <2>3, SMT
      <4> QED
        BY <4>1, SMT
    <3>2. Building!Distance(x, y) = y - x
      BY <2>3, Zenon DEF Building!Distance
    <3> HIDE DEF a, b
    <3>3. Building!Distance(a, b) = b - a
      BY <2>1, <3>1, SMT DEF Building!Distance
    <3> QED
      BY <3>1, <3>2, <3>3, Zenon DEF a, b
  <2> QED
    BY <2>2, <2>3, Zenon
<1> QED
  BY <1>1, <1>2, Zenon

LEMMA AtomicAmount ==
  ASSUME NEW input \in Input, NEW decimals \in Nat,
         Building!CheckedAtomicAmount(input, decimals) # Invalid
  PROVE  AtomicExact(input, decimals, Building!CheckedAtomicAmount(input, decimals))
<1> DEFINE p == input.places
           mantissa == input.mantissa
           factor == Building!Power[decimals]
           unit == Building!Power[p]
           n == mantissa * factor
           s == n * (Grain + input.error)
           u == unit * Grain
           r == Building!Rounded(s, u)
<1>1. /\ mantissa \in Int /\ p \in Nat /\ input.error \in -MaxError .. MaxError
      /\ MaxU64 \in Nat /\ Precision \in Nat /\ Grain \in Nat /\ Grain > 0 /\ MaxError \in Nat
  <2>1. /\ mantissa \in Int /\ p \in Nat /\ input.error \in -MaxError .. MaxError
        /\ MaxU64 \in Nat /\ Precision \in Nat /\ Grain \in Nat /\ MaxError \in Nat
        /\ MaxError < Grain
    BY BuildingAssumption, Zenon DEF Building!ConstantsAssumption
  <2>2. Grain > 0
    BY <2>1, SMT
  <2> QED
    BY <2>1, <2>2, Zenon
<1>2. /\ Building!CheckedAtomicAmount(input, decimals) = r
      /\ ~(mantissa <= 0) /\ ~(s >= MaxU64 * u)
      /\ ~(Building!Distance(s, r * u) * Precision > u) /\ r # 0
  BY Zenon DEF Building!CheckedAtomicAmount
<1>3. factor \in Nat /\ unit \in Nat /\ unit > 0
  BY <1>1, PowerEquation, Zenon
<1>4. ASSUME p <= decimals PROVE \E m \in Nat : n = m * unit
  <2>1. decimals - p \in Nat /\ (decimals - p) + p = decimals
    BY <1>1, <1>4, SMT
  <2> DEFINE shift == Building!Power[decimals - p]
  <2>2. factor = shift * unit /\ shift \in Nat
    <3>1. Building!Power[(decimals - p) + p] = Building!Power[decimals - p] * Building!Power[p]
      BY <1>1, <2>1, PowerSum, Zenon
    <3> QED
      BY <2>1, <3>1, PowerEquation, Zenon
  <2> HIDE DEF shift, factor, unit, p
  <2>3. mantissa * shift \in Nat /\ mantissa * factor = (mantissa * shift) * unit
    BY <1>1, <1>2, <1>3, <2>2, SMT
  <2> QED
    BY <2>3, Zenon
<1> HIDE DEF factor, unit
<1>5. n \in Nat /\ u \in Nat /\ u > 0
  BY <1>1, <1>2, <1>3, SMT
<1> HIDE DEF n
<1>6. s \in Nat /\ Building!Distance(s, n * Grain) <= n * MaxError
  BY <1>1, <1>5, ProductError, Zenon
<1> HIDE DEF s
<1>7. s < MaxU64 * u
  <2>1. MaxU64 * u \in Int
    BY <1>1, <1>5, SMT
  <2> HIDE DEF u
  <2> QED
    BY <1>2, <1>6, <2>1, SMT
<1>8. /\ r \in Nat /\ r <= MaxU64
      /\ \A m \in Nat : 2 * Building!Distance(s, m * u) < u => r = m
  BY <1>1, <1>5, <1>6, <1>7, RoundedNearest, Zenon
<1> HIDE DEF r
<1>9. r \in 1..MaxU64
  BY <1>1, <1>2, <1>8, SMT
<1> DEFINE g == n * Grain
           d == Building!Distance(s, g)
           loss == n * MaxError
<1>10. g \in Nat /\ loss \in Nat /\ d \in Nat /\ d <= loss
  <2>1. g \in Nat /\ loss \in Nat
    BY <1>1, <1>5, SMT
  <2> QED
    BY <1>6, <2>1, Distances, Zenon
<1>11. ASSUME p <= decimals, 2 * n * MaxError < unit * Grain PROVE r * unit = n
  <2>1. PICK m \in Nat : n = m * unit
    BY <1>4, <1>11, Zenon
  <2>2. m * u = g
    BY <1>1, <1>3, <2>1, SMT
  <2>3. 2 * n * MaxError = 2 * loss
    BY <1>1, <1>5, SMT
  <2>4. 2 * loss < u
    BY <1>11, <2>3, Zenon
  <2> HIDE DEF u, loss, d, g
  <2>5. 2 * d < u
    BY <1>5, <1>10, <2>4, SMT
  <2>6. 2 * Building!Distance(s, m * u) < u
    BY <2>2, <2>5, Zenon DEF d
  <2>7. r = m
    BY <1>8, <2>6, Zenon
  <2> QED
    BY <2>1, <2>7, Zenon
<1>12. Building!Distance(n, r * unit) * Grain * Precision
         <= unit * Grain + n * MaxError * Precision
  <2> DEFINE x == r * unit
             y == r * u
             f == Building!Distance(s, y)
             D == Building!Distance(n, x)
  <2>1. x \in Nat /\ y \in Nat /\ y = x * Grain
    BY <1>1, <1>3, <1>8, SMT
  <2>2. /\ f \in Nat /\ D \in Nat
        /\ Building!Distance(g, y) = D * Grain
        /\ Building!Distance(g, s) = d
        /\ Building!Distance(g, y) <= d + f
    <3>1. f \in Nat /\ D \in Nat
      BY <1>5, <1>6, <2>1, Distances, Zenon
    <3>2. Building!Distance(g, x * Grain) = D * Grain
      <4> HIDE DEF x
      <4>1. \A a, b, c \in Nat :
              Building!Distance(a * c, b * c) = Building!Distance(a, b) * c
        BY Distances, Zenon
      <4>2. n \in Nat /\ x \in Nat /\ Grain \in Nat
        BY <1>1, <1>5, <2>1, Zenon
      <4>3. Building!Distance(n * Grain, x * Grain) = Building!Distance(n, x) * Grain
        BY <4>1, <4>2
      <4> QED
        BY <4>3, Zenon
    <3>3. Building!Distance(g, s) = d
      BY <1>6, <1>10, Distances, Zenon
    <3>4. Building!Distance(g, y) <= Building!Distance(g, s) + Building!Distance(s, y)
      BY <1>6, <1>10, <2>1, Distances, Zenon
    <3> HIDE DEF g, d, f, D
    <3> QED
      BY <2>1, <3>1, <3>2, <3>3, <3>4, Zenon DEF f
  <2>3. f * Precision <= u
    <3> HIDE DEF f, u
    <3>1. f * Precision \in Nat
      BY <1>1, <2>2, SMT
    <3>2. ~(f * Precision > u)
      BY <1>2, Zenon DEF f
    <3> QED
      BY <1>5, <3>1, <3>2, SMT
  <2> DEFINE DG == D * Grain
  <2> HIDE DEF d, f, D, u, loss, g, x, y
  <2>4. DG \in Nat /\ DG <= loss + f
    <3>1. DG \in Nat
      BY <1>1, <2>2, SMT
    <3>2. DG <= d + f
      BY <2>2, Zenon
    <3> HIDE DEF DG
    <3> QED
      BY <1>10, <2>2, <3>1, <3>2, SMT
  <2> HIDE DEF DG
  <2>5. DG * Precision <= (loss + f) * Precision
    <3> DEFINE all == loss + f
               rest == all - DG
    <3>1. all \in Nat /\ rest \in Nat /\ all = DG + rest
      BY <1>10, <2>2, <2>4, SMT
    <3> HIDE DEF all, rest
    <3>2. /\ rest * Precision \in Nat /\ DG * Precision \in Nat
          /\ (DG + rest) * Precision = DG * Precision + rest * Precision
      BY <1>1, <2>4, <3>1, SMT
    <3>3. DG * Precision <= DG * Precision + rest * Precision
      BY <3>2, SMT
    <3> QED
      BY <3>1, <3>2, <3>3, Zenon DEF all
  <2>6. (loss + f) * Precision = loss * Precision + f * Precision
    BY <1>1, <1>10, <2>2, SMT
  <2>7. DG * Precision \in Nat /\ loss * Precision \in Nat /\ f * Precision \in Nat
    BY <1>1, <1>10, <2>2, <2>4, SMT
  <2>8. DG * Precision <= u + loss * Precision
    BY <1>5, <2>3, <2>5, <2>6, <2>7, SMT
  <2> QED
    BY <2>8, Zenon DEF DG, D, x, u, loss
<1> QED
  BY <1>2, <1>9, <1>11, <1>12, Zenon DEF AtomicExact, n, unit, factor

\* What a fee is, if the policy accepts it.
FeeExact(base, p, fee) ==
  /\ fee \in 0..MaxU64
  /\ p.kind = "Tip" => fee - p.value = base
  /\ p.kind = "Multiplier" =>
       /\ fee * Scale >= base * p.value
       /\ (fee - 1) * Scale < base * p.value

LEMMA AppliedFee ==
  ASSUME NEW base \in BaseFee, NEW p \in Policy, Building!ApplyFeePolicy(base, p) # Invalid
  PROVE  FeeExact(base, p, Building!ApplyFeePolicy(base, p))
<1> DEFINE fee == Building!ApplyFeePolicy(base, p)
<1>1. base \in 0..MaxU64 /\ p.value \in 0..MaxU64 /\ MaxU64 \in Nat /\ Scale \in Nat /\ Scale > 0
  BY BuildingAssumption, SMT DEF Building!ConstantsAssumption
<1>2. /\ fee = CASE p.kind = "Automatic" -> base
                 [] p.kind = "Fixed" -> p.value
                 [] p.kind = "Tip" -> base + p.value
                 [] OTHER -> Building!Adjusted(base, p.value)
      /\ ~(fee > MaxU64)
  BY Zenon DEF Building!ApplyFeePolicy
<1> SUFFICES FeeExact(base, p, fee)
  BY Zenon
<1> HIDE DEF fee
<1>3. CASE p.kind = "Automatic"
  BY <1>1, <1>2, <1>3, SMT DEF FeeExact
<1>4. CASE p.kind = "Fixed"
  BY <1>1, <1>2, <1>4, SMT DEF FeeExact
<1>5. CASE p.kind = "Tip"
  BY <1>1, <1>2, <1>5, SMT DEF FeeExact
<1>6. CASE p.kind \notin {"Automatic", "Fixed", "Tip"}
  <2>1. fee = Building!Adjusted(base, p.value)
    BY <1>2, <1>6, Zenon
  <2> DEFINE product == base * p.value
  <2>2. product \in Nat
    BY <1>1, SMT
  <2>3. fee = (product + Scale - 1) \div Scale
    BY <2>1, Zenon DEF Building!Adjusted
  <2> HIDE DEF product
  <2>4. product + Scale - 1 \in Nat
    BY <1>1, <2>2, SMT
  <2>5. /\ fee \in Nat /\ fee * Scale <= product + Scale - 1
        /\ product + Scale - 1 < fee * Scale + Scale
    BY <1>1, <2>3, <2>4, Quotient, Zenon
  <2> DEFINE scaled == fee * Scale
  <2>6. scaled \in Nat /\ (fee - 1) * Scale = scaled - Scale
    BY <1>1, <2>5, SMT
  <2> HIDE DEF scaled
  <2>7. scaled >= product /\ scaled - Scale < product
    BY <1>1, <2>2, <2>5, <2>6, SMT DEF scaled
  <2>8. fee \in 0..MaxU64
    BY <1>1, <1>2, <2>5, SMT
  <2> QED
    BY <1>6, <2>6, <2>7, <2>8, Zenon DEF FeeExact, product, scaled
<1> QED
  BY <1>3, <1>4, <1>5, <1>6, Zenon

-----------------------------------------------------------------------------
(* The calls                                                               *)

IsSequence(s) == \E n \in Nat : DOMAIN s = 1 .. n

\* A whole-balance call has one transfer, whose amount and the fee it has to
\* pay are what was read.
WholeBalance(t, fee, read) ==
  t.amount + (IF t.asset = Xelis THEN fee ELSE 0) = read

\* A call that waits for its balance or its fee.
Waiting(c) ==
  /\ {"pc", "read"} \subseteq DOMAIN c
  /\ c.pc \in {"readBalance", "estimate"}
  /\ c.kind \in {"Transfers", "Burn"}
  /\ IsSequence(c.transfers)
  /\ c.all => "amount" \in DOMAIN c.transfers[1]
  /\ c.pc = "readBalance" => c.transfers[1].asset \in Building!Asset
  /\ c.policy \in Policy
  /\ c.read \in 0..MaxU64

\* A call that has its fee.
Creating(c) ==
  /\ c.pc = "create"
  /\ c.kind \in {"Transfers", "Burn"}
  /\ IsSequence(c.transfers)
  /\ FeeExact(c.base, c.policy, c.fee)
  /\ c.all => WholeBalance(c.transfers[1], c.fee, c.read) /\ 1 \in DOMAIN c.transfers

\* The inductive invariant.
BuildingIInv ==
  /\ balance \in [Building!Asset -> 0..MaxU64]
  /\ building = Building!Idle \/ Waiting(building) \/ Creating(building)
  /\ Building!ReviewIsTransaction
  /\ Building!AmountsExact

CallOK(c) == c = Building!Idle \/ Waiting(c) \/ Creating(c)

LEMMA GotoStep ==
  ASSUME BuildingIInv, NEW c, Building!Goto(c), CallOK(c)
  PROVE  BuildingIInv'
<1>1. building' = c /\ balance' = balance /\ prepared' = prepared
  BY Zenon DEF Building!Goto
<1>2. CallOK(building)'
  BY <1>1, Zenon DEF CallOK, Waiting, Creating, Building!Idle, IsSequence, WholeBalance,
     FeeExact
<1>3. Building!ReviewIsTransaction' /\ Building!AmountsExact'
  BY <1>1, Zenon DEF BuildingIInv, Building!ReviewIsTransaction, Building!AmountsExact,
     Building!Shown
<1> QED
  BY <1>1, <1>2, <1>3, Zenon DEF BuildingIInv, CallOK

LEMMA FailStep ==
  ASSUME BuildingIInv, Building!Fail
  PROVE  BuildingIInv'
  BY GotoStep, Zenon DEF Building!Fail, CallOK

LEMMA Burned ==
  ASSUME NEW t \in Request
  PROVE  /\ "amount" \in DOMAIN t /\ "amount" \in DOMAIN Building!BurnOf(t)
         /\ Building!BurnOf(t).asset = t.asset
         /\ t.asset \in Building!Asset \cup {BadAsset}
<1>1. t = [amount |-> t.amount, asset |-> t.asset, destination |-> t.destination,
           extra_data |-> t.extra_data, encrypt |-> t.encrypt]
  BY BuildingAssumption, Zenon DEF Building!ConstantsAssumption, Building!IsTransfer
<1>2. t.asset \in Building!Asset \cup {BadAsset}
  BY BuildingAssumption, Zenon DEF Building!ConstantsAssumption, Building!IsTransfer
<1> QED
  BY <1>1, <1>2, SMT DEF Building!BurnOf

LEMMA OneTransfer ==
  ASSUME NEW t
  PROVE  IsSequence(<<t>>) /\ <<t>>[1] = t /\ 1 \in DOMAIN <<t>>
<1>1. 1 \in Nat /\ DOMAIN <<t>> = 1 .. 1 /\ <<t>>[1] = t /\ 1 \in 1 .. 1
  BY SMT
<1> QED
  BY <1>1, Zenon DEF IsSequence

LEMMA BeginStep ==
  ASSUME BuildingIInv, NEW t \in Request, NEW p \in Policy,
         \/ Building!PrepareBurn(t, p) \/ Building!PrepareTransferAll(t, p)
         \/ Building!PrepareBurnAll(t, p)
  PROVE  BuildingIInv'
<1>0. 0 \in 0..MaxU64
  BY BuildingAssumption, SMT DEF Building!ConstantsAssumption
<1>1. ASSUME NEW pc \in {"readBalance", "estimate"}, NEW kind \in {"Transfers", "Burn"},
             NEW all \in BOOLEAN, NEW u \in {t, Building!BurnOf(t)},
             pc = "readBalance" => t.asset # BadAsset,
             Building!Goto([pc |-> pc, kind |-> kind, all |-> all, transfers |-> <<u>>,
                   policy |-> p, read |-> 0])
      PROVE  BuildingIInv'
  <2> DEFINE c == [pc |-> pc, kind |-> kind, all |-> all, transfers |-> <<u>>,
                   policy |-> p, read |-> 0]
  <2>1. /\ c.pc = pc /\ c.kind = kind /\ c.all = all /\ c.transfers = <<u>>
        /\ c.policy = p /\ c.read = 0
    BY Zenon
  <2>2. {"pc", "read"} \subseteq DOMAIN c
    BY Zenon
  <2>3. "amount" \in DOMAIN u /\ u.asset = t.asset
    BY Burned, Zenon
  <2>4. t.asset # BadAsset => t.asset \in Building!Asset
    BY Burned, Zenon
  <2>5. Building!Goto(c)
    BY <1>1, Zenon
  <2> HIDE DEF c
  <2>6. Waiting(c)
    BY <1>0, <1>1, <2>1, <2>2, <2>3, <2>4, OneTransfer, Zenon DEF Waiting
  <2> QED
    BY <2>5, <2>6, GotoStep, Zenon DEF CallOK
<1>2. CASE Building!Fail
  BY <1>2, FailStep, Zenon
<1>3. CASE Building!PrepareBurn(t, p) /\ ~Building!Fail
  BY <1>1, <1>3, Zenon DEF Building!PrepareBurn
<1>4. CASE Building!PrepareTransferAll(t, p) /\ ~Building!Fail
  BY <1>1, <1>4, Zenon DEF Building!PrepareTransferAll
<1>5. CASE Building!PrepareBurnAll(t, p) /\ ~Building!Fail
  BY <1>1, <1>5, Zenon DEF Building!PrepareBurnAll
<1> QED
  BY <1>2, <1>3, <1>4, <1>5, Zenon

LEMMA PrepareTransfersStep ==
  ASSUME BuildingIInv, NEW ts \in Building!Transfers, NEW p \in Policy,
         Building!PrepareTransfers(ts, p)
  PROVE  BuildingIInv'
<1>0. 0 \in 0..MaxU64 /\ 0 .. MaxTransfers \subseteq Nat
  BY BuildingAssumption, SMT DEF Building!ConstantsAssumption
<1>1. CASE Building!Fail
  BY <1>1, FailStep, Zenon
<1>2. CASE ~Building!Fail
  <2> DEFINE c == [pc |-> "estimate", kind |-> "Transfers", all |-> FALSE,
                   transfers |-> ts, policy |-> p, read |-> 0]
  <2>1. /\ c.pc = "estimate" /\ c.kind = "Transfers" /\ c.all = FALSE /\ c.transfers = ts
        /\ c.policy = p /\ c.read = 0
    BY Zenon
  <2>2. {"pc", "read"} \subseteq DOMAIN c
    BY Zenon
  <2>3. Building!Goto(c)
    BY <1>2, Zenon DEF Building!PrepareTransfers
  <2>4. IsSequence(ts)
    BY <1>0, Zenon DEF Building!Transfers, IsSequence
  <2> HIDE DEF c
  <2>5. Waiting(c)
    BY <1>0, <2>1, <2>2, <2>4, Zenon DEF Waiting
  <2> QED
    BY <2>3, <2>5, GotoStep, Zenon DEF CallOK
<1> QED
  BY <1>1, <1>2, Zenon

LEMMA StillWaiting ==
  ASSUME BuildingIInv, building.pc \in {"readBalance", "estimate"}
  PROVE  Waiting(building)
<1>1. Building!Idle.pc = "idle"
  BY Zenon DEF Building!Idle
<1>2. building # Building!Idle
  BY <1>1, SMT
<1>3. ~Creating(building)
  BY SMT DEF Creating
<1> QED
  BY <1>2, <1>3, Zenon DEF BuildingIInv

LEMMA ReadBalanceStep ==
  ASSUME BuildingIInv, Building!ReadBalance
  PROVE  BuildingIInv'
<1> DEFINE read == balance[building.transfers[1].asset]
           c == [building EXCEPT !.pc = "estimate", !.read = read]
<1>1. building.pc = "readBalance"
  BY Zenon DEF Building!ReadBalance
<1>2. Waiting(building)
  BY <1>1, StillWaiting, Zenon
<1>3. read \in 0..MaxU64
  BY <1>1, <1>2, Zenon DEF BuildingIInv, Waiting
<1>4. CASE Building!Fail
  BY <1>4, FailStep, Zenon
<1>5. CASE ~Building!Fail
  <2>1. Building!Goto(c)
    BY <1>5, Zenon DEF Building!ReadBalance
  <2> HIDE DEF read
  <2>2. {"pc", "read"} \subseteq DOMAIN building
    BY <1>2, Zenon DEF Waiting
  <2>3. /\ c.pc = "estimate" /\ c.kind = building.kind /\ c.all = building.all
        /\ c.transfers = building.transfers /\ c.policy = building.policy /\ c.read = read
        /\ DOMAIN c = DOMAIN building
    BY <2>2, SMT
  <2> HIDE DEF c
  <2>4. Waiting(c)
    BY <1>2, <1>3, <2>2, <2>3, Zenon DEF Waiting
  <2> QED
    BY <2>1, <2>4, GotoStep, Zenon DEF CallOK
<1> QED
  BY <1>4, <1>5, Zenon

LEMMA LeftAfterFee ==
  ASSUME NEW read \in 0..MaxU64, NEW fee \in 0..MaxU64, NEW asset,
         Building!AmountAfterFee(read, fee, asset) # Invalid
  PROVE  Building!AmountAfterFee(read, fee, asset) + (IF asset = Xelis THEN fee ELSE 0) = read
<1>1. MaxU64 \in Nat
  BY BuildingAssumption DEF Building!ConstantsAssumption
<1>2. Building!AmountAfterFee(read, fee, asset) = IF asset = Xelis THEN read - fee ELSE read
  BY Zenon DEF Building!AmountAfterFee
<1>3. CASE asset = Xelis
  BY <1>1, <1>2, <1>3, SMT
<1>4. CASE asset # Xelis
  BY <1>1, <1>2, <1>4, SMT
<1> QED
  BY <1>3, <1>4, Zenon

LEMMA EstimateFeeStep ==
  ASSUME BuildingIInv, Building!EstimateFee
  PROVE  BuildingIInv'
<1>1. building.pc = "estimate"
  BY Zenon DEF Building!EstimateFee
<1>2. Waiting(building)
  BY <1>1, StillWaiting, Zenon
<1>3. CASE Building!Fail
  BY <1>3, FailStep, Zenon
<1>4. CASE ~Building!Fail
  <2> DEFINE Fee(base) == Building!ApplyFeePolicy(base, building.policy)
             first == building.transfers[1]
             Left(base) == Building!AmountAfterFee(building.read, Fee(base), first.asset)
             Ts(base) == IF building.all THEN <<[first EXCEPT !.amount = Left(base)]>>
                         ELSE building.transfers
             Made(base) == [pc |-> "create", kind |-> building.kind, all |-> building.all,
                            transfers |-> Ts(base), policy |-> building.policy,
                            read |-> building.read, base |-> base, fee |-> Fee(base)]
  <2>1. PICK base \in BaseFee :
          /\ Fee(base) # Invalid
          /\ building.all => Left(base) # Invalid
          /\ Building!Goto(Made(base))
    BY <1>4, Zenon DEF Building!EstimateFee
  <2> DEFINE fee == Fee(base)
             left == Left(base)
             c == Made(base)
  <2>2. /\ c.pc = "create" /\ c.kind = building.kind /\ c.all = building.all
        /\ c.transfers = Ts(base) /\ c.policy = building.policy /\ c.read = building.read
        /\ c.base = base /\ c.fee = fee
    BY Zenon
  <2>3. FeeExact(base, building.policy, fee)
    BY <1>2, <2>1, AppliedFee, Zenon DEF Waiting
  <2>4. CASE building.all
    <3> DEFINE u == [first EXCEPT !.amount = left]
    <3>1. Ts(base) = <<u>>
      BY <2>4, Zenon
    <3>2. u.amount = left /\ u.asset = first.asset
      <4>1. "amount" \in DOMAIN first
        BY <1>2, <2>4, Zenon DEF Waiting
      <4>2. "asset" # "amount"
        BY Zenon
      <4> HIDE DEF first, left
      <4> QED
        BY <4>1, <4>2, SMT
    <3>3. fee \in 0..MaxU64 /\ building.read \in 0..MaxU64
      BY <1>2, <2>3, Zenon DEF FeeExact, Waiting
    <3>4. left + (IF first.asset = Xelis THEN fee ELSE 0) = building.read
      BY <2>1, <2>4, <3>3, LeftAfterFee, Zenon
    <3> HIDE DEF u, left, first
    <3>5. WholeBalance(u, fee, building.read)
      BY <3>2, <3>4, Zenon DEF WholeBalance
    <3> QED
      BY <1>2, <2>2, <2>3, <3>1, <3>5, OneTransfer, GotoStep, <2>1, Zenon
         DEF Waiting, Creating, CallOK
  <2>5. CASE ~building.all
    <3>1. Ts(base) = building.transfers
      BY <2>5, Zenon
    <3>2. Building!Goto(c)
      BY <2>1, Zenon
    <3> HIDE DEF c, fee
    <3>3. Creating(c)
      BY <1>2, <2>2, <2>3, <2>5, <3>1, Zenon DEF Waiting, Creating
    <3> QED
      BY <3>2, <3>3, GotoStep, Zenon DEF CallOK
  <2> QED
    BY <2>4, <2>5, Zenon
<1> QED
  BY <1>3, <1>4, Zenon
-----------------------------------------------------------------------------
(* The results                                                             *)

\* What ReviewIsTransaction and AmountsExact say of a result q.
ReviewOf(q) ==
  q.kind \in {"Transfers", "Burn"} =>
    /\ Len(q.tx) = Len(q.transfers)
    /\ \A i \in DOMAIN q.tx :
         LET tx == q.tx[i]
             shown == q.transfers[i]
         IN
         /\ <<shown.amount, shown.destination, shown.asset, shown.encrypt>> =
              <<tx.amount, tx.key, tx.asset, tx.encrypt>>
         /\ shown.has_extra_data <=> tx.data # NoData
         /\ q.kind = "Transfers" =>
              /\ q.review[i].data = tx.data
              /\ q.review[i].encrypted = tx.encrypt

AmountsOf(q) ==
  /\ q.kind \in {"Transfers", "Burn"} =>
       /\ FeeExact(q.base, q.policy, q.fee)
       /\ q.all => WholeBalance(q.tx[1], q.fee, q.read)
  /\ q.kind = "older" =>
       \A i \in DOMAIN q.tx :
         AtomicExact(q.inputs[i], Decimals[q.tx[i].asset], q.tx[i].amount)

LEMMA ResultStep ==
  ASSUME NEW q, prepared' = q, ReviewOf(q), AmountsOf(q)
  PROVE  Building!ReviewIsTransaction' /\ Building!AmountsExact'
<1>1. Building!ReviewIsTransaction'
  BY Zenon DEF ReviewOf, Building!ReviewIsTransaction, Building!Shown
<1>2. Building!AmountsExact'
  BY Zenon DEF AmountsOf, Building!AmountsExact, Building!Shown, FeeExact, WholeBalance,
     AtomicExact
<1> QED
  BY <1>1, <1>2, Zenon

LEMMA NoResult ==
  ReviewOf(Building!NoPrepared) /\ AmountsOf(Building!NoPrepared)
<1>1. Building!NoPrepared.kind = "none"
  BY Zenon DEF Building!NoPrepared
<1>2. "none" \notin {"Transfers", "Burn"} /\ "none" # "older"
  BY Zenon
<1> QED
  BY <1>1, <1>2, Zenon DEF ReviewOf, AmountsOf

\* The review of one transfer is what is sent of it.
LEMMA OneReviewed ==
  ASSUME NEW t
  PROVE  LET tx == Building!Sent(Building!BuildTransfer(t))
             shown == Building!Projection(t)
         IN /\ tx.amount = t.amount /\ tx.asset = t.asset
            /\ <<shown.amount, shown.destination, shown.asset, shown.encrypt>> =
                 <<tx.amount, tx.key, tx.asset, tx.encrypt>>
            /\ shown.has_extra_data <=> tx.data # NoData
            /\ Building!EffectiveData(t).data = tx.data
            /\ Building!EffectiveData(t).encrypted = tx.encrypt
<1> DEFINE b == Building!BuildTransfer(t)
           tx == Building!Sent(b)
           shown == Building!Projection(t)
<1>1. /\ b.destination = t.destination /\ b.amount = t.amount /\ b.asset = t.asset
      /\ b.extra_data = t.extra_data /\ b.encrypt = t.encrypt
  BY Zenon DEF Building!BuildTransfer
<1> HIDE DEF b
<1>2. /\ tx.key = t.destination.key /\ tx.amount = t.amount /\ tx.asset = t.asset
      /\ tx.encrypt = t.encrypt
      /\ tx.data = IF t.extra_data # NoData THEN t.extra_data ELSE t.destination.data
  BY <1>1, Zenon DEF Building!Sent
<1>3. Building!EffectiveData(t).data = tx.data /\ Building!EffectiveData(t).encrypted = t.encrypt
  <2>1. CASE t.extra_data # NoData
    BY <1>2, <2>1, Zenon DEF Building!EffectiveData
  <2>2. CASE t.extra_data = NoData /\ t.destination.data # NoData
    BY <1>2, <2>2, Zenon DEF Building!EffectiveData
  <2>3. CASE t.extra_data = NoData /\ t.destination.data = NoData
    BY <1>2, <2>3, Zenon DEF Building!EffectiveData
  <2> QED
    BY <2>1, <2>2, <2>3, Zenon
<1>4. /\ shown.amount = t.amount /\ shown.destination = t.destination.key
      /\ shown.asset = t.asset /\ shown.encrypt = t.encrypt
      /\ shown.has_extra_data = (Building!EffectiveData(t).data # NoData)
  BY Zenon DEF Building!Projection
<1> SUFFICES /\ tx.amount = t.amount /\ tx.asset = t.asset
             /\ <<shown.amount, shown.destination, shown.asset, shown.encrypt>> =
                 <<tx.amount, tx.key, tx.asset, tx.encrypt>>
             /\ shown.has_extra_data <=> tx.data # NoData
             /\ Building!EffectiveData(t).data = tx.data
             /\ Building!EffectiveData(t).encrypted = tx.encrypt
  BY Zenon DEF b
<1> HIDE DEF tx, shown
<1> QED
  BY <1>2, <1>3, <1>4, Zenon

LEMMA SameLength ==
  ASSUME NEW s, NEW u, IsSequence(s), DOMAIN u = DOMAIN s
  PROVE  Len(u) = Len(s)
<1>1. PICK n \in Nat : DOMAIN s = 1 .. n
  BY Zenon DEF IsSequence
<1>2. Len(s) = n
  BY <1>1, SMT
<1>3. Len(u) = n
  BY <1>1, SMT
<1> QED
  BY <1>2, <1>3, Zenon

LEMMA CreateStep ==
  ASSUME BuildingIInv, Building!Create
  PROVE  BuildingIInv'
<1>1. building.pc = "create" /\ building' = Building!Idle /\ balance' = balance
  BY Zenon DEF Building!Create
<1>2. Creating(building)
  <2>1. Building!Idle.pc = "idle"
    BY Zenon DEF Building!Idle
  <2>2. building # Building!Idle
    BY <1>1, <2>1, SMT
  <2>3. ~Waiting(building)
    BY <1>1, SMT DEF Waiting
  <2> QED
    BY <2>2, <2>3, Zenon DEF BuildingIInv
<1>3. CASE UNCHANGED prepared
  BY <1>1, <1>3, Zenon DEF BuildingIInv, Building!ReviewIsTransaction,
     Building!AmountsExact, Building!Shown, Building!Idle
<1>4. CASE ~UNCHANGED prepared
  <2> DEFINE ts == building.transfers
             Kept == [i \in DOMAIN ts |-> Building!Projection(ts[i])]
             Tx == [i \in DOMAIN ts |-> Building!Sent(Building!Built(ts)[i])]
             Data == [i \in DOMAIN ts |-> Building!EffectiveData(ts[i])]
             q == [kind |-> building.kind, all |-> building.all, read |-> building.read,
                   base |-> building.base, policy |-> building.policy, fee |-> building.fee,
                   transfers |-> Kept,
                   review |-> IF building.kind = "Burn" THEN <<>> ELSE Data,
                   tx |-> Tx]
  <2>1. prepared' = q
    BY <1>4, Zenon DEF Building!Create, Building!FeeMatches
  <2>2. /\ q.kind = building.kind /\ q.all = building.all /\ q.read = building.read
        /\ q.base = building.base /\ q.policy = building.policy /\ q.fee = building.fee
        /\ q.transfers = Kept /\ q.tx = Tx
        /\ building.kind # "Burn" => q.review = Data
    BY Zenon
  <2>3. ASSUME NEW i \in DOMAIN ts
        PROVE  /\ Tx[i] = Building!Sent(Building!BuildTransfer(ts[i]))
               /\ Kept[i] = Building!Projection(ts[i])
               /\ Data[i] = Building!EffectiveData(ts[i])
    BY Zenon DEF Building!Built
  <2>4. DOMAIN Tx = DOMAIN ts /\ DOMAIN Kept = DOMAIN ts
    BY Zenon
  <2>5. IsSequence(ts)
    BY <1>2, Zenon DEF Creating
  <2> HIDE DEF ts, Kept, Tx, Data, q
  <2>6. Len(Tx) = Len(Kept)
    BY <2>4, <2>5, SameLength, Zenon DEF IsSequence
  <2>7. "Transfers" # "Burn" /\ "older" \notin {"Transfers", "Burn"}
    BY Zenon
  <2>8. ReviewOf(q)
    <3>1. ASSUME NEW i \in DOMAIN Tx
          PROVE  /\ <<Kept[i].amount, Kept[i].destination, Kept[i].asset, Kept[i].encrypt>>
                       = <<Tx[i].amount, Tx[i].key, Tx[i].asset, Tx[i].encrypt>>
                 /\ Kept[i].has_extra_data <=> Tx[i].data # NoData
                 /\ Data[i].data = Tx[i].data /\ Data[i].encrypted = Tx[i].encrypt
      <4>1. /\ Tx[i] = Building!Sent(Building!BuildTransfer(ts[i]))
            /\ Kept[i] = Building!Projection(ts[i])
            /\ Data[i] = Building!EffectiveData(ts[i])
        BY <2>3, <2>4, <3>1, Zenon
      <4> DEFINE tx == Building!Sent(Building!BuildTransfer(ts[i]))
                 shown == Building!Projection(ts[i])
                 data == Building!EffectiveData(ts[i])
      <4>2. /\ <<shown.amount, shown.destination, shown.asset, shown.encrypt>>
                 = <<tx.amount, tx.key, tx.asset, tx.encrypt>>
            /\ shown.has_extra_data <=> tx.data # NoData
            /\ data.data = tx.data /\ data.encrypted = tx.encrypt
        BY OneReviewed, Zenon
      <4>3. Tx[i] = tx /\ Kept[i] = shown /\ Data[i] = data
        BY <4>1, Zenon
      <4> HIDE DEF tx, shown, data
      <4> QED
        BY <4>2, <4>3, Zenon
    <3>2. building.kind = "Transfers" => q.review = Data
      BY <2>2, <2>7, Zenon
    <3> QED
      BY <2>2, <2>6, <3>1, <3>2, Zenon DEF ReviewOf
  <2>9. building.all => WholeBalance(Tx[1], building.fee, building.read)
    <3>1. SUFFICES ASSUME building.all PROVE WholeBalance(Tx[1], building.fee, building.read)
      BY Zenon
    <3>2. WholeBalance(ts[1], building.fee, building.read) /\ 1 \in DOMAIN ts
      BY <1>2, <3>1, Zenon DEF Creating, ts
    <3>3. Tx[1].amount = ts[1].amount /\ Tx[1].asset = ts[1].asset
      BY <2>3, <3>2, OneReviewed, Zenon
    <3> QED
      BY <3>2, <3>3, Zenon DEF WholeBalance
  <2>10. AmountsOf(q)
    BY <1>2, <2>2, <2>7, <2>9, Zenon DEF AmountsOf, Creating
  <2> QED
    BY <1>1, <2>1, <2>8, <2>10, ResultStep, Zenon DEF BuildingIInv, Building!Idle
<1> QED
  BY <1>3, <1>4, Zenon

LEMMA CreateTransfersStep ==
  ASSUME BuildingIInv, NEW ts \in Building!Transfers, NEW inputs \in [DOMAIN ts -> Input],
         Building!CreateTransfers(ts, inputs)
  PROVE  BuildingIInv'
<1> DEFINE Amount(i) == IF ts[i].asset = BadAsset THEN Invalid
                        ELSE Building!CheckedAtomicAmount(inputs[i], Decimals[ts[i].asset])
           Tx == [i \in DOMAIN ts |-> [asset |-> ts[i].asset, amount |-> Amount(i)]]
           q == [kind |-> "older", inputs |-> inputs, tx |-> Tx]
<1>1. CASE Building!Fail
  BY <1>1, FailStep, Zenon
<1>2. CASE ~Building!Fail
  <2>1. /\ \A i \in DOMAIN ts : Amount(i) # Invalid
        /\ prepared' = [kind |-> "older", inputs |-> inputs,
                        tx |-> [i \in DOMAIN ts |->
                          [asset |-> ts[i].asset,
                           amount |-> [j \in DOMAIN ts |-> Amount(j)][i]]]]
        /\ UNCHANGED <<balance, building>>
    BY <1>2, Zenon DEF Building!CreateTransfers
  <2>2. [i \in DOMAIN ts |-> [asset |-> ts[i].asset,
                              amount |-> [j \in DOMAIN ts |-> Amount(j)][i]]] = Tx
    <3> HIDE DEF Amount
    <3> QED
      BY Zenon
  <2>3. prepared' = q
    BY <2>1, <2>2, Zenon
  <2>4. q.kind = "older" /\ q.inputs = inputs /\ q.tx = Tx /\ DOMAIN Tx = DOMAIN ts
    BY Zenon
  <2>5. ASSUME NEW i \in DOMAIN ts
        PROVE  AtomicExact(inputs[i], Decimals[Tx[i].asset], Tx[i].amount)
    <3>1. Tx[i].asset = ts[i].asset /\ Tx[i].amount = Amount(i)
      <4> HIDE DEF Amount
      <4> QED
        BY Zenon
    <3>2. Amount(i) # Invalid
      BY <2>1, <2>5, Zenon
    <3>3. /\ ts[i].asset # BadAsset
          /\ Amount(i) = Building!CheckedAtomicAmount(inputs[i], Decimals[ts[i].asset])
      BY <3>2, Zenon
    <3>4. ts[i] \in Request
      BY <2>5, Zenon DEF Building!Transfers
    <3>5. Decimals[ts[i].asset] \in Nat
      BY <3>3, <3>4, BuildingAssumption, Zenon
         DEF Building!ConstantsAssumption, Building!IsTransfer
    <3>6. inputs[i] \in Input
      BY <2>5, Zenon
    <3> QED
      BY <3>1, <3>2, <3>3, <3>5, <3>6, AtomicAmount, Zenon
  <2> HIDE DEF Tx, q, Amount
  <2>6. "older" \notin {"Transfers", "Burn"}
    BY Zenon
  <2>7. ReviewOf(q) /\ AmountsOf(q)
    BY <2>4, <2>5, <2>6, Zenon DEF ReviewOf, AmountsOf
  <2>8. Building!ReviewIsTransaction' /\ Building!AmountsExact'
    BY <2>3, <2>7, ResultStep, Zenon
  <2> QED
    BY <2>1, <2>8, Zenon DEF BuildingIInv, Waiting, Creating, Building!Idle, IsSequence,
       WholeBalance,
       FeeExact
<1> QED
  BY <1>1, <1>2, Zenon

LEMMA OtherSteps ==
  ASSUME BuildingIInv, Building!Reviewed \/ (\E a \in Building!Asset, n \in {0,
         MaxU64} : Building!Sync(a, n))
  PROVE  BuildingIInv'
<1>1. CASE Building!Reviewed
  <2>1. prepared' = Building!NoPrepared /\ balance' = balance /\ building' = building
    BY <1>1, Zenon DEF Building!Reviewed
  <2>2. Building!ReviewIsTransaction' /\ Building!AmountsExact'
    BY <2>1, NoResult, ResultStep, Zenon
  <2> QED
    BY <2>1, <2>2, Zenon DEF BuildingIInv, Waiting, Creating, Building!Idle, IsSequence,
       WholeBalance,
       FeeExact
<1>2. CASE \E a \in Building!Asset, n \in {0, MaxU64} : Building!Sync(a, n)
  <2>1. PICK a \in Building!Asset, n \in {0, MaxU64} : Building!Sync(a, n)
    BY <1>2, Zenon
  <2>2. balance' = [balance EXCEPT ![a] = n] /\ building' = building /\ prepared' = prepared
    BY <2>1, Zenon DEF Building!Sync
  <2>3. n \in 0..MaxU64
    BY BuildingAssumption, SMT DEF Building!ConstantsAssumption
  <2>4. balance' \in [Building!Asset -> 0..MaxU64]
    BY <2>2, <2>3, Zenon DEF BuildingIInv
  <2>5. Building!ReviewIsTransaction' /\ Building!AmountsExact'
    BY <2>2, Zenon DEF BuildingIInv, Building!ReviewIsTransaction, Building!AmountsExact,
       Building!Shown
  <2> QED
    BY <2>2, <2>4, <2>5, Zenon DEF BuildingIInv, Waiting, Creating, Building!Idle,
       IsSequence,
       WholeBalance, FeeExact
<1> QED
  BY <1>1, <1>2, Zenon

\* Every step of a preparing call, of its caller and of the synchronisation
\* keeps the inductive invariant.
LEMMA BuildingInductive ==
  ASSUME BuildingIInv, [Building!Next]_(Building!vars)
  PROVE  BuildingIInv'
<1>1. CASE Building!Begin
  BY <1>1, PrepareTransfersStep, BeginStep, CreateTransfersStep, Zenon DEF Building!Begin
<1>2. CASE Building!ReadBalance
  BY <1>2, ReadBalanceStep, Zenon
<1>3. CASE Building!EstimateFee
  BY <1>3, EstimateFeeStep, Zenon
<1>4. CASE Building!Create
  BY <1>4, CreateStep, Zenon
<1>5. CASE Building!Reviewed \/ (\E a \in Building!Asset, n \in {0, MaxU64} : Building!Sync(a, n))
  BY <1>5, OtherSteps, Zenon
<1>6. CASE UNCHANGED Building!vars
  <2>1. balance' = balance /\ building' = building /\ prepared' = prepared
    BY <1>6, Zenon DEF Building!vars
  <2>2. Building!ReviewIsTransaction' /\ Building!AmountsExact'
    BY <2>1, Zenon DEF BuildingIInv, Building!ReviewIsTransaction, Building!AmountsExact,
       Building!Shown
  <2> QED
    BY <2>1, <2>2, Zenon DEF BuildingIInv, Waiting, Creating, Building!Idle, IsSequence,
       WholeBalance,
       FeeExact
<1> QED
  BY <1>1, <1>2, <1>3, <1>4, <1>5, <1>6, Zenon DEF Building!Next

LEMMA BuildingInitial == Building!Init => BuildingIInv
<1> SUFFICES ASSUME Building!Init PROVE BuildingIInv
  BY Zenon
<1>1. /\ prepared = Building!NoPrepared /\ building = Building!Idle
      /\ balance \in [Building!Asset -> 0..MaxU64]
  BY Zenon DEF Building!Init
<1>2. Building!ReviewIsTransaction
  BY <1>1, NoResult, Zenon DEF ReviewOf, Building!ReviewIsTransaction, Building!Shown
<1>3. Building!AmountsExact
  BY <1>1, NoResult, Zenon DEF AmountsOf, Building!AmountsExact, Building!Shown, FeeExact,
     WholeBalance, AtomicExact
<1> QED
  BY <1>1, <1>2, <1>3, Zenon DEF BuildingIInv

\* For all assets, transfers, policies, estimates and bounds: what the caller
\* reviews is the transaction that was built.
THEOREM ReviewShowsTransaction == Building!Spec => []ReviewIsTransaction
<1>1. Building!Init => BuildingIInv
  BY BuildingInitial
<1>2. BuildingIInv /\ [Building!Next]_(Building!vars) => BuildingIInv'
  BY BuildingInductive
<1>3. BuildingIInv => ReviewIsTransaction
  BY Zenon DEF BuildingIInv, ReviewIsTransaction
<1> QED
  BY <1>1, <1>2, <1>3, PTL DEF Building!Spec

\* For all assets, transfers, policies, estimates, inputs and bounds: fees and
\* whole-balance amounts are exact, and decimal amounts up to the tolerance and
\* the error of the f64 product.
THEOREM AmountsAreExact == Building!Spec => []AmountsExact
<1>1. Building!Init => BuildingIInv
  BY BuildingInitial
<1>2. BuildingIInv /\ [Building!Next]_(Building!vars) => BuildingIInv'
  BY BuildingInductive
<1>3. BuildingIInv => AmountsExact
  BY Zenon DEF BuildingIInv, AmountsExact
<1> QED
  BY <1>1, <1>2, <1>3, PTL DEF Building!Spec

=============================================================================
