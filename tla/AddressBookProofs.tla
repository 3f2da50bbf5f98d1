-------------------------- MODULE AddressBookProofs --------------------------
(***************************************************************************)
(* The migration of the address book is correct for any number of calls,   *)
(* contacts, edits, failures and crashes.                                  *)
(***************************************************************************)
EXTENDS AddressBook, FiniteSetTheorems, TLAPS

\* A leaf that takes the provers longer than their five seconds may take thirty.
USE SMTT(30), ZenonT(30)

\* The write lock belongs to the call that migrates.
LockOwner == \A c \in Call : At(c, "migrating") <=> lock = c

\* What the migrating call has established so far.
Progress ==
  lock # NoCall =>
    /\ marker = NoMarker
    /\ LegacyErrors = {}
    /\ todo \subseteq Destinations
    /\ \A a \in Destinations \ todo : v2[a] = EntryFor(a)

\* Until the marker exists the v2 tree holds copies of legacy contacts only,
\* unless the legacy tree was edited.
Copies ==
  marker = NoMarker /\ ~edited =>
    \A a \in Address : v2[a] # NoEntry =>
      a \in Destinations /\ v2[a] = EntryFor(a)

\* Nothing is removed from the v2 book before the cutover.
Cutover == marker = NoMarker => removed = {}

IInv ==
  /\ TypeOK
  /\ LockOwner
  /\ Progress
  /\ Copies
  /\ Cutover
  /\ NoPartialVisible
  /\ RemovedStaysRemoved
  /\ ConflictNeedsEdit

\* A migration that passed its checks has, for every contact's destination,
\* the normalised entry of that contact.
LEMMA EntryOfContact ==
  ASSUME TypeOK, LegacyErrors = {}, NEW t \in Contacts
  PROVE  Migrated(t) \in Name /\ EntryFor(Canonical[t]) = Migrated(t)
<1>1. /\ t \in Text
      /\ legacy[t] \in Name
  BY DEF Contacts, TypeOK
<1>2. Migrated(t) \in Name
  <2>1. Migrated(t) # Invalid
    BY DEF LegacyErrors
  <2>2. Normal[legacy[t]] \in Name \cup {Invalid}
    BY <1>1, ConstantsAssumption
  <2>. QED BY <2>1, <2>2 DEF Migrated
<1>3. \A u \in Contacts : Canonical[u] = Canonical[t] => Migrated(u) = Migrated(t)
  <2>. SUFFICES ASSUME NEW u \in Contacts, Canonical[u] = Canonical[t],
                       Migrated(u) # Migrated(t)
                PROVE  FALSE
    OBVIOUS
  <2>1. "invalid" \notin LegacyErrors /\ "duplicate" \notin LegacyErrors
    OBVIOUS
  <2>. QED BY <2>1 DEF LegacyErrors
<1>. DEFINE P(n) == \E u \in Contacts :
                      Canonical[u] = Canonical[t] /\ Migrated(u) = n
<1>4. P(Migrated(t))
  OBVIOUS
<1>5. EntryFor(Canonical[t]) = CHOOSE n \in Name : P(n)
  BY DEF EntryFor
<1>6. P(EntryFor(Canonical[t]))
  <2>. HIDE DEF P
  <2>. QED BY <1>2, <1>4, <1>5
<1>. QED BY <1>2, <1>3, <1>6

LEMMA EntryInName ==
  ASSUME TypeOK, LegacyErrors = {}, NEW a \in Destinations
  PROVE  a \in Address /\ EntryFor(a) \in Name
<1>1. PICK t \in Contacts : a = Canonical[t]
  BY DEF Destinations
<1>2. a \in Address
  BY <1>1, ConstantsAssumption DEF Contacts
<1>. QED BY <1>1, <1>2, EntryOfContact

LEMMA DestinationsFinite == Cardinality(Destinations) \in Nat
<1>1. IsFiniteSet(Contacts)
  BY ConstantsAssumption, FS_Subset DEF Contacts
<1>. DEFINE f == [t \in Contacts |-> Canonical[t]]
<1>2. f \in Surjection(Contacts, Destinations)
  BY DEF Surjection, Destinations
<1>3. IsFiniteSet(Destinations)
  BY <1>1, <1>2, FS_Surjection
<1>. QED BY <1>3, FS_CardinalityType

LEMMA InitIInv == Init => IInv
<1>. SUFFICES ASSUME Init PROVE IInv
  OBVIOUS
<1>. USE ConstantsAssumption DEF Init
<1>1. TypeOK
  <2>1. v2 \in Book /\ marker \in Marker
    BY DEF Book, Marker
  <2>2. call \in [Call -> [pc : {"idle", "begun", "migrating", "operating"},
                          op : Operation, outcome : Outcome]]
    BY DEF Operation, Outcome
  <2>3. edits \in 0 .. MaxEdits /\ failures \in 0 .. MaxFailures
    OBVIOUS
  <2>4. /\ legacy \in [Text -> Name \cup {NoEntry}]
        /\ removed \subseteq Address
        /\ lock \in Call \cup {NoCall}
        /\ todo \subseteq Address
        /\ edited \in BOOLEAN
    BY Zenon
  <2>. QED BY <2>1, <2>2, <2>3, <2>4, Zenon DEF TypeOK
<1>2. LockOwner /\ NoPartialVisible /\ ConflictNeedsEdit
  BY DEF LockOwner, NoPartialVisible, ConflictNeedsEdit, At
<1>3. Progress /\ Copies /\ Cutover /\ RemovedStaysRemoved
  BY DEF Progress, Copies, Cutover, RemovedStaysRemoved
<1>. QED BY <1>1, <1>2, <1>3 DEF IInv

\* What the migration reads depends on the legacy tree only.
LEMMA SameLegacy ==
  ASSUME legacy' = legacy
  PROVE  /\ Contacts' = Contacts
         /\ Destinations' = Destinations
         /\ LegacyErrors' = LegacyErrors
         /\ \A a : EntryFor(a)' = EntryFor(a)
BY DEF Contacts, Destinations, LegacyErrors, EntryFor, Migrated

\* A step of a call that holds no lock, and that changes nothing but where the
\* call is, keeps the invariant unless it enters an operation too early or
\* reports a conflict.
LEMMA CallStep ==
  ASSUME IInv, NEW c \in Call,
         NEW pc \in {"idle", "begun", "operating"},
         NEW op \in Operation, NEW outcome \in Outcome \ {"conflict"},
         ~At(c, "migrating"),
         pc = "operating" => marker # NoMarker,
         Goto(c, pc, op, outcome),
         UNCHANGED <<legacy, v2, marker, lock, todo, edits, failures, removed,
                     edited>>
  PROVE  IInv'
<1>. USE DEF IInv
<1>1. /\ call' \in [Call -> [pc : {"idle", "begun", "migrating", "operating"},
                             op : Operation, outcome : Outcome]]
      /\ \A d \in Call : d # c => call'[d] = call[d]
      /\ call'[c] = [pc |-> pc, op |-> op, outcome |-> outcome]
  BY DEF TypeOK, Goto
<1>2. TypeOK'
  BY <1>1 DEF TypeOK, Book, Marker
<1>3. LockOwner'
  BY <1>1 DEF LockOwner, At
<1>4. Progress' /\ Copies'
  BY SameLegacy DEF Progress, Copies
<1>5. Cutover' /\ RemovedStaysRemoved'
  BY DEF Cutover, RemovedStaysRemoved
<1>6. NoPartialVisible'
  BY <1>1 DEF NoPartialVisible, At
<1>7. ConflictNeedsEdit'
  BY <1>1 DEF ConflictNeedsEdit
<1>. QED BY <1>2, <1>3, <1>4, <1>5, <1>6, <1>7

LEMMA MigrationStartsPreserves ==
  ASSUME IInv, NEW c \in Call, MigrationStarts(c)
  PROVE  IInv'
<1>. USE DEF IInv
<1>0. At(c, "begun") /\ ~At(c, "migrating") /\ call[c].op \in Operation
  BY DEF MigrationStarts, At, TypeOK
<1>1. CASE AlreadyComplete
  <2>1. UNCHANGED <<legacy, v2, marker, lock, todo, edits, failures, removed,
                    edited>>
        /\ Proceed(c)
    BY <1>1 DEF MigrationStarts
  <2>2. CASE call[c].op = "migrate"
    BY <2>1, <2>2, <1>0, CallStep DEF Proceed, Return, Outcome
  <2>3. CASE call[c].op # "migrate"
    BY <2>1, <2>3, <1>0, <1>1, CallStep DEF Proceed, AlreadyComplete, Outcome
  <2>. QED BY <2>2, <2>3
<1>2. CASE ~AlreadyComplete /\ LegacyErrors # {}
  <2>1. UNCHANGED <<legacy, v2, marker, lock, todo, edits, failures, removed,
                    edited>>
    BY <1>2 DEF MigrationStarts
  <2>2. PICK e \in LegacyErrors : Return(c, e)
    BY <1>2 DEF MigrationStarts
  <2>3. e \in Outcome \ {"conflict"}
    BY DEF LegacyErrors, Outcome
  <2>. QED BY <2>1, <2>2, <2>3, <1>0, CallStep DEF Return
<1>3. CASE ~AlreadyComplete /\ LegacyErrors = {}
  <2>1. /\ lock = NoCall /\ lock' = c
        /\ todo' = Destinations
        /\ Goto(c, "migrating", call[c].op, "none")
        /\ UNCHANGED <<legacy, v2, marker, edits, failures, removed, edited>>
    BY <1>3 DEF MigrationStarts
  <2>2. /\ call' \in [Call -> [pc : {"idle", "begun", "migrating", "operating"},
                               op : Operation, outcome : Outcome]]
        /\ \A d \in Call : d # c => call'[d] = call[d]
        /\ call'[c].pc = "migrating" /\ call'[c].outcome = "none"
    BY <2>1, <1>0 DEF TypeOK, Goto, Outcome
  <2>3. Destinations \subseteq Address
    BY <1>3, EntryInName
  <2>4. TypeOK'
    BY <2>1, <2>2, <2>3 DEF TypeOK, Book, Marker
  <2>5. LockOwner'
    BY <2>1, <2>2, ConstantsAssumption DEF LockOwner, At
  <2>6. Progress' /\ Copies'
    BY <2>1, <1>3, SameLegacy DEF Progress, Copies, AlreadyComplete
  <2>7. Cutover' /\ RemovedStaysRemoved'
    BY <2>1 DEF Cutover, RemovedStaysRemoved
  <2>8. NoPartialVisible' /\ ConflictNeedsEdit'
    BY <2>1, <2>2 DEF NoPartialVisible, ConflictNeedsEdit, At
  <2>. QED BY <2>4, <2>5, <2>6, <2>7, <2>8
<1>. QED BY <1>1, <1>2, <1>3

\* The migrating call gives the lock back: nothing stored changes.
LEMMA ReleasePreserves ==
  ASSUME IInv, NEW c \in Call, At(c, "migrating"),
         NEW outcome \in Outcome,
         outcome = "conflict" => edited,
         MigrationFails(c, outcome),
         failures' \in 0 .. MaxFailures,
         UNCHANGED <<legacy, v2, marker, edits, removed, edited>>
  PROVE  IInv'
<1>. USE DEF IInv
<1>1. /\ call' \in [Call -> [pc : {"idle", "begun", "migrating", "operating"},
                             op : Operation, outcome : Outcome]]
      /\ \A d \in Call : d # c => call'[d] = call[d]
      /\ call'[c].pc = "idle" /\ call'[c].outcome = outcome
      /\ lock = c /\ lock' = NoCall /\ todo' = {}
  BY DEF TypeOK, MigrationFails, Return, Goto, LockOwner
<1>2. TypeOK'
  BY <1>1 DEF TypeOK, Book, Marker
<1>3. LockOwner'
  BY <1>1, ConstantsAssumption DEF LockOwner, At
<1>4. Progress' /\ Copies'
  BY <1>1, SameLegacy DEF Progress, Copies
<1>5. Cutover' /\ RemovedStaysRemoved'
  BY DEF Cutover, RemovedStaysRemoved
<1>6. NoPartialVisible' /\ ConflictNeedsEdit'
  BY <1>1 DEF NoPartialVisible, ConflictNeedsEdit, At
<1>. QED BY <1>2, <1>3, <1>4, <1>5, <1>6

LEMMA MigrateEntryPreserves ==
  ASSUME IInv, NEW c \in Call, NEW a \in Address, MigrateEntry(c, a)
  PROVE  IInv'
<1>. USE DEF IInv
<1>1. /\ At(c, "migrating") /\ a \in todo /\ lock = c /\ lock # NoCall
      /\ marker = NoMarker /\ LegacyErrors = {} /\ a \in Destinations
      /\ EntryFor(a) \in Name /\ NoEntry \notin Name
  <2>1. /\ At(c, "migrating") /\ a \in todo /\ lock = c /\ lock # NoCall
        /\ marker = NoMarker /\ LegacyErrors = {} /\ a \in Destinations
    BY ConstantsAssumption DEF MigrateEntry, LockOwner, Progress
  <2>. QED BY <2>1, EntryInName, ConstantsAssumption
<1>2. CASE Conflicts(a)
  <2>1. /\ MigrationFails(c, "conflict")
        /\ UNCHANGED <<legacy, v2, marker, edits, failures, removed, edited>>
    BY <1>2 DEF MigrateEntry
  <2>2. edited
    BY <1>1, <1>2 DEF Copies, Conflicts
  <2>3. failures' \in 0 .. MaxFailures
    BY <2>1 DEF TypeOK
  <2>4. "conflict" \in Outcome
    BY DEF Outcome
  <2>. QED BY <1>1, <2>1, <2>2, <2>3, <2>4, ReleasePreserves
<1>3. CASE ~Conflicts(a)
  <2>1. /\ v2' = IF v2[a] = NoEntry THEN [v2 EXCEPT ![a] = EntryFor(a)] ELSE v2
        /\ todo' = todo \ {a}
        /\ UNCHANGED <<legacy, marker, lock, call, edits, failures, removed,
                       edited>>
    BY <1>3 DEF MigrateEntry
  <2>2. /\ v2' \in [Address -> Name \cup {NoEntry}]
        /\ v2'[a] = EntryFor(a)
        /\ \A b \in Address : b # a => v2'[b] = v2[b]
    BY <2>1, <1>1, <1>3 DEF TypeOK, Book, Conflicts
  <2>3. TypeOK'
    BY <2>1, <2>2 DEF TypeOK, Book, Marker
  <2>4. LockOwner' /\ NoPartialVisible' /\ ConflictNeedsEdit' /\ Cutover'
    BY <2>1 DEF LockOwner, NoPartialVisible, ConflictNeedsEdit, Cutover, At
  <2>5. RemovedStaysRemoved'
    BY <2>1, <1>1 DEF RemovedStaysRemoved, Cutover
  <2>6. Progress'
    <3>1. \A b \in Destinations : b \in Address
      BY <1>1, EntryInName
    <3>. QED BY <3>1, <2>1, <2>2, <1>1, SameLegacy DEF Progress
  <2>7. Copies'
    BY <2>1, <2>2, <1>1, SameLegacy DEF Copies
  <2>. QED BY <2>3, <2>4, <2>5, <2>6, <2>7
<1>. QED BY <1>2, <1>3

LEMMA MigrationEndsPreserves ==
  ASSUME IInv, NEW c \in Call, MigrationEnds(c)
  PROVE  IInv'
<1>. USE DEF IInv
<1>1. /\ lock = c /\ lock' = NoCall /\ marker' \in Nat /\ marker' # NoMarker
      /\ UNCHANGED <<legacy, v2, todo, edits, failures, removed, edited>>
  BY ConstantsAssumption, DestinationsFinite DEF MigrationEnds, LockOwner
<1>2. call[c].op \in Operation
  BY DEF TypeOK
<1>3. /\ call' \in [Call -> [pc : {"idle", "begun", "migrating", "operating"},
                             op : Operation, outcome : Outcome]]
      /\ \A d \in Call : d # c => call'[d] = call[d]
      /\ call'[c].pc \in {"idle", "operating"}
      /\ call'[c].outcome \in {"ok", "none"}
  BY <1>2 DEF TypeOK, MigrationEnds, Proceed, Return, Goto, Outcome
<1>4. TypeOK'
  BY <1>1, <1>3 DEF TypeOK, Book, Marker
<1>5. LockOwner'
  BY <1>1, <1>3, ConstantsAssumption DEF LockOwner, At
<1>6. Progress' /\ Copies' /\ Cutover' /\ NoPartialVisible'
  BY <1>1 DEF Progress, Copies, Cutover, NoPartialVisible
<1>7. RemovedStaysRemoved'
  BY <1>1 DEF RemovedStaysRemoved
<1>8. ConflictNeedsEdit'
  BY <1>1, <1>3 DEF ConflictNeedsEdit
<1>. QED BY <1>4, <1>5, <1>6, <1>7, <1>8

\* An upsert or a removal of an entry, by a call that has been let in.
LEMMA WritePreserves ==
  ASSUME IInv, NEW c \in Call, At(c, "operating"), lock = NoCall,
         NEW a \in Address, NEW n \in Name \cup {NoEntry},
         v2' = [v2 EXCEPT ![a] = n],
         removed' = IF n = NoEntry THEN removed \cup {a} ELSE removed \ {a},
         Return(c, "ok"),
         UNCHANGED <<legacy, marker, lock, todo, edits, failures, edited>>
  PROVE  IInv'
<1>. USE DEF IInv
<1>1. /\ call' \in [Call -> [pc : {"idle", "begun", "migrating", "operating"},
                             op : Operation, outcome : Outcome]]
      /\ \A d \in Call : d # c => call'[d] = call[d]
      /\ call'[c].pc = "idle" /\ call'[c].outcome = "ok"
  BY DEF TypeOK, Return, Goto, Outcome
<1>2. /\ v2' \in [Address -> Name \cup {NoEntry}]
      /\ v2'[a] = n
      /\ \A b \in Address : b # a => v2'[b] = v2[b]
  BY DEF TypeOK, Book
<1>3. marker # NoMarker
  BY DEF NoPartialVisible
<1>4. removed' \subseteq Address
  BY DEF TypeOK
<1>5. TypeOK'
  BY <1>1, <1>2, <1>4 DEF TypeOK, Book, Marker
<1>6. LockOwner'
  BY <1>1, ConstantsAssumption DEF LockOwner, At
<1>7. Progress' /\ Copies' /\ Cutover' /\ NoPartialVisible'
  BY <1>3 DEF Progress, Copies, Cutover, NoPartialVisible
<1>8. RemovedStaysRemoved'
  BY <1>2 DEF RemovedStaysRemoved, TypeOK
<1>9. ConflictNeedsEdit'
  BY <1>1 DEF ConflictNeedsEdit
<1>. QED BY <1>5, <1>6, <1>7, <1>8, <1>9

LEMMA UpsertPreserves ==
  ASSUME IInv, NEW c \in Call, NEW t \in Text, NEW n \in Name, Upsert(c, t, n)
  PROVE  IInv'
<1>. USE DEF IInv
<1>0. /\ At(c, "operating") /\ ~At(c, "migrating") /\ lock = NoCall
      /\ call[c].op \in Operation
  BY DEF Upsert, At, TypeOK
<1>1. CASE ~Accepts(n)
  BY <1>0, <1>1, CallStep DEF Upsert, Return, Outcome
<1>2. CASE Accepts(n)
  <2>1. /\ Canonical[t] \in Address /\ Normal[n] \in Name
        /\ Normal[n] # NoEntry
    BY <1>2, ConstantsAssumption DEF Accepts
  <2>2. /\ v2' = [v2 EXCEPT ![Canonical[t]] = Normal[n]]
        /\ removed' = removed \ {Canonical[t]}
        /\ Return(c, "ok")
        /\ UNCHANGED <<legacy, marker, lock, todo, edits, failures, edited>>
    BY <1>2 DEF Upsert
  <2>. QED BY <1>0, <2>1, <2>2, WritePreserves, Zenon
<1>. QED BY <1>1, <1>2

LEMMA RemovePreserves ==
  ASSUME IInv, NEW c \in Call, NEW a \in Address, Remove(c, a)
  PROVE  IInv'
<1>. USE DEF IInv
<1>0. /\ At(c, "operating") /\ ~At(c, "migrating") /\ lock = NoCall
      /\ call[c].op \in Operation
  BY DEF Remove, At, TypeOK
<1>1. CASE v2[a] = NoEntry
  BY <1>0, <1>1, CallStep DEF Remove, Return, Outcome
<1>2. CASE v2[a] # NoEntry
  BY <1>0, <1>2, WritePreserves DEF Remove
<1>. QED BY <1>1, <1>2

LEMMA LegacyEditPreserves ==
  ASSUME IInv, NEW t \in Text, NEW entry \in Name \cup {NoEntry},
         LegacyEdit(t, entry)
  PROVE  IInv'
<1>. USE DEF IInv, LegacyEdit
<1>1. /\ legacy' \in [Text -> Name \cup {NoEntry}]
      /\ edits' \in 0 .. MaxEdits
  BY ConstantsAssumption DEF TypeOK
<1>2. edited' \in BOOLEAN /\ (edited => edited')
  BY Zenon DEF TypeOK
<1>3. TypeOK'
  BY <1>1, <1>2 DEF TypeOK, Book, Marker
<1>4. LockOwner' /\ Progress' /\ Cutover' /\ NoPartialVisible'
  BY DEF LockOwner, Progress, Cutover, NoPartialVisible, At
<1>5. Copies'
  BY Zenon DEF Copies, PartialCopy
<1>6. RemovedStaysRemoved' /\ ConflictNeedsEdit'
  BY <1>2 DEF RemovedStaysRemoved, ConflictNeedsEdit
<1>. QED BY <1>3, <1>4, <1>5, <1>6

LEMMA CrashPreserves ==
  ASSUME IInv, Crash
  PROVE  IInv'
<1>. USE DEF IInv, Crash
<1>1. /\ call' \in [Call -> [pc : {"idle", "begun", "migrating", "operating"},
                             op : Operation, outcome : Outcome]]
      /\ \A c \in Call : call'[c].pc = "idle" /\ call'[c].outcome = "none"
  BY DEF Operation, Outcome
<1>2. failures' \in 0 .. MaxFailures
  BY ConstantsAssumption DEF TypeOK
<1>3. TypeOK'
  BY <1>1, <1>2 DEF TypeOK, Book, Marker
<1>4. LockOwner' /\ NoPartialVisible' /\ ConflictNeedsEdit'
  BY <1>1, ConstantsAssumption
  DEF LockOwner, NoPartialVisible, ConflictNeedsEdit, At
<1>5. Progress' /\ Copies' /\ Cutover' /\ RemovedStaysRemoved'
  BY SameLegacy DEF Progress, Copies, Cutover, RemovedStaysRemoved
<1>. QED BY <1>3, <1>4, <1>5

LEMMA StutterPreserves ==
  ASSUME IInv, UNCHANGED vars
  PROVE  IInv'
<1>. USE DEF IInv, vars
<1>1. TypeOK'
  BY DEF TypeOK, Book, Marker
<1>2. LockOwner' /\ NoPartialVisible' /\ ConflictNeedsEdit'
  BY DEF LockOwner, NoPartialVisible, ConflictNeedsEdit, At
<1>3. Progress' /\ Copies' /\ Cutover' /\ RemovedStaysRemoved'
  BY SameLegacy DEF Progress, Copies, Cutover, RemovedStaysRemoved
<1>. QED BY <1>1, <1>2, <1>3

LEMMA NextIInv == IInv /\ [Next]_vars => IInv'
<1>. SUFFICES ASSUME IInv, [Next]_vars PROVE IInv'
  OBVIOUS
<1>1. ASSUME NEW c \in Call, NEW op \in Operation, Begin(c, op)
      PROVE  IInv'
  <2>1. ~At(c, "migrating")
    BY <1>1 DEF Begin, At
  <2>. QED BY <1>1, <2>1, CallStep DEF Begin, Outcome
<1>2. ASSUME NEW c \in Call, Read(c) \/ Abandon(c) \/ \E a \in Address : Find(c, a)
      PROVE  IInv'
  <2>1. ~At(c, "migrating") /\ call[c].op \in Operation
    BY <1>2 DEF Read, Find, Abandon, At, IInv, TypeOK
  <2>2. CASE Read(c)
    BY <2>1, <2>2, CallStep DEF Read, Return, Outcome
  <2>3. CASE Abandon(c)
    BY <2>1, <2>3, CallStep DEF Abandon, Return, Outcome
  <2>4. ASSUME NEW a \in Address, Find(c, a) PROVE IInv'
    BY <2>1, <2>4, CallStep DEF Find, Return, Outcome
  <2>. QED BY <1>2, <2>2, <2>3, <2>4
<1>3. ASSUME NEW c \in Call, MigrationStorageFails(c)
      PROVE  IInv'
  <2>1. failures' \in 0 .. MaxFailures
    BY <1>3, ConstantsAssumption DEF MigrationStorageFails, IInv, TypeOK
  <2>2. "failed" \in Outcome
    BY DEF Outcome
  <2>. QED BY <1>3, <2>1, <2>2, ReleasePreserves DEF MigrationStorageFails
<1>4. ASSUME NEW t \in Text, NEW n \in Name, UpsertContact(t, n)
      PROVE  IInv'
  BY <1>4, LegacyEditPreserves DEF UpsertContact
<1>5. ASSUME NEW t \in Text, RemoveContact(t)
      PROVE  IInv'
  BY <1>5, LegacyEditPreserves DEF RemoveContact
<1>6. CASE UNCHANGED vars
  BY <1>6, StutterPreserves
<1>. QED
  BY <1>1, <1>2, <1>3, <1>4, <1>5, <1>6, MigrationStartsPreserves,
     MigrateEntryPreserves, MigrationEndsPreserves, UpsertPreserves,
     RemovePreserves, CrashPreserves
  DEF Next

\* The inductive invariant holds in every state.
LEMMA SpecIInv == Spec => []IInv
BY InitIInv, NextIInv, PTL DEF Spec

\* Only normalised entries enter the v2 tree, and the migration keeps the types
\* of both trees, whatever fails.
THEOREM TypeCorrect == Spec => []TypeOK
BY SpecIInv, PTL DEF IInv

\* A v2 operation never works on a partial copy: migrate_address_book_v2 lets a
\* call pass only with the marker in place.
THEOREM NoPartialVisibleHolds == Spec => []NoPartialVisible
BY SpecIInv, PTL DEF IInv

\* An entry removed with remove_address_book_entry_v2 is not brought back by a
\* migration, after any number of crashes.
THEOREM RemovedStaysRemovedHolds == Spec => []RemovedStaysRemoved
BY SpecIInv, PTL DEF IInv

\* What interrupted migrations leave is reused by the next one: it reports a
\* conflict only if the legacy tree was edited in between.
THEOREM ConflictNeedsEditHolds == Spec => []ConflictNeedsEdit
BY SpecIInv, PTL DEF IInv

\* migrate_address_book_v2 writes its marker only when every legacy contact has
\* its normalised entry in the v2 tree, and the marker counts them.
THEOREM MigrationCompleteHolds == Spec => MigrationComplete
<1>. DEFINE Complete ==
       marker = NoMarker /\ marker' # NoMarker =>
         /\ \A t \in Contacts : v2'[Canonical[t]] = Migrated(t)
         /\ marker' = Cardinality(Destinations)
<1>1. ASSUME IInv, NEW c \in Call, MigrationEnds(c)
      PROVE  Complete
  <2>1. /\ lock # NoCall /\ todo = {} /\ v2' = v2
        /\ marker' = Cardinality(Destinations)
    BY <1>1, ConstantsAssumption DEF MigrationEnds, IInv, LockOwner
  <2>2. /\ LegacyErrors = {}
        /\ \A a \in Destinations : v2[a] = EntryFor(a)
    BY <1>1, <2>1 DEF IInv, Progress
  <2>3. ASSUME NEW t \in Contacts
        PROVE  v2[Canonical[t]] = Migrated(t)
    <3>1. Canonical[t] \in Destinations
      BY DEF Destinations
    <3>. QED BY <3>1, <2>2, <1>1, EntryOfContact DEF IInv
  <2>. QED BY <2>1, <2>3
<1>2. ASSUME Next, \A c \in Call : ~MigrationEnds(c)
      PROVE  marker' = marker
  BY <1>2
  DEF Next, Begin, MigrationStarts, MigrateEntry, MigrationStorageFails, Upsert,
      Remove, Read, Find, Abandon, UpsertContact, RemoveContact,
      LegacyEdit, Crash
<1>3. ASSUME IInv, [Next]_vars
      PROVE  [Complete]_vars
  BY <1>1, <1>2, <1>3
<1>. QED BY <1>3, SpecIInv, PTL DEF Spec, MigrationComplete

=============================================================================
