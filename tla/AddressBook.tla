----------------------------- MODULE AddressBook -----------------------------
(***************************************************************************)
(* The address book of a wallet: the legacy tree, the v2 tree, and the     *)
(* migration that every v2 call runs first.  The migration keeps the       *)
(* storage's write lock, copies entry by entry and writes its marker last, *)
(* so a failed write or a crash leaves a part of the copy behind.          *)
(*                                                                         *)
(* An address text has a canonical destination, a name (with its note and  *)
(* label) a normal form.  Entry ids are hashes of canonical destinations   *)
(* and stand for them.  The storage is external: it may fail a write, and  *)
(* a crash keeps what was written.  (A storage that loses its last writes  *)
(* in a crash leaves what an earlier crash would have left.)               *)
(***************************************************************************)
EXTENDS Naturals, FiniteSets

CONSTANTS
  Call,         \* overlapping bridge calls
  Text,         \* address texts that parse, of the wallet's network
  Address,      \* canonical destinations
  Canonical,    \* Text -> Address
  Name,         \* names as entered
  Normal,       \* Name -> its normal form, or Invalid
  Invalid,      \* a name that is empty or too long
  NoEntry,      \* absence of an entry
  NoCall,       \* nobody holds the write lock
  NoMarker,     \* the migration is not complete
  MaxEdits,     \* bound on the legacy edits of a behaviour
  MaxFailures   \* bound on its failed writes and crashes

ASSUME ConstantsAssumption ==
  /\ IsFiniteSet(Text)
  /\ Canonical \in [Text -> Address]
  /\ Normal \in [Name -> Name \cup {Invalid}]
  /\ Invalid \notin Name
  /\ NoEntry \notin Name \cup {Invalid}
  /\ NoCall \notin Call
  /\ NoMarker \notin Nat
  /\ MaxEdits \in Nat
  /\ MaxFailures \in Nat

VARIABLES
  legacy,    \* the tree "address_book"
  v2,        \* the entries of the tree "address_book_v2"
  marker,    \* its migration marker: the number of entries
  lock,      \* the call that migrates, under the write lock
  todo,      \* the entries it has still to copy
  call,      \* control point and operation of every call
  edits,     \* legacy edits so far
  failures,  \* failed writes and crashes so far
  removed,   \* history: entries removed from the v2 book
  edited     \* history: a legacy edit met a partial copy

vars == <<legacy, v2, marker, lock, todo, call, edits, failures, removed,
          edited>>

Operation == {"migrate", "upsert", "remove", "read"}
Outcome == {"none", "ok", "invalid", "duplicate", "conflict", "failed",
            "notFound"}

\* A wallet that an earlier version has used.
Init ==
  /\ legacy \in [Text -> Name \cup {NoEntry}]
  /\ v2 = [a \in Address |-> NoEntry]
  /\ marker = NoMarker
  /\ removed = {}
  /\ lock = NoCall
  /\ todo = {}
  /\ call = [c \in Call |-> [pc |-> "idle", op |-> "read", outcome |-> "none"]]
  /\ edits = 0
  /\ failures = 0
  /\ edited = FALSE

-----------------------------------------------------------------------------
(* What the migration reads                                                *)

Contacts == {t \in Text : legacy[t] # NoEntry}

\* normalize_entry of a legacy contact.
Migrated(t) == Normal[legacy[t]]

Destinations == {Canonical[t] : t \in Contacts}

\* The entry the migration has for a destination.
EntryFor(a) == CHOOSE n \in Name : \E t \in Contacts :
                 Canonical[t] = a /\ Migrated(t) = n

\* Every legacy entry is validated, and entries that become one have to agree,
\* before anything is written; the first fault met is reported.
LegacyErrors ==
  {e \in {"invalid", "duplicate"} :
     \/ e = "invalid" /\ \E t \in Contacts : Migrated(t) = Invalid
     \/ e = "duplicate" /\ \E t, u \in Contacts :
                             /\ Canonical[t] = Canonical[u]
                             /\ Migrated(t) # Migrated(u)
                             /\ Invalid \notin {Migrated(t), Migrated(u)}}

-----------------------------------------------------------------------------
(* Calls                                                                   *)

At(c, l) == call[c].pc = l

Goto(c, pc, op, outcome) ==
  call' = [call EXCEPT ![c] = [pc |-> pc, op |-> op, outcome |-> outcome]]

Return(c, outcome) == Goto(c, "idle", call[c].op, outcome)

Begin(c, op) ==
  /\ At(c, "idle")
  /\ Goto(c, "begun", op, "none")
  /\ UNCHANGED <<legacy, v2, marker, lock, todo, edits, failures,
                 removed, edited>>

\* What follows a migration that succeeded.
Proceed(c) ==
  IF call[c].op = "migrate"
    THEN Return(c, "ok")
    ELSE Goto(c, "operating", call[c].op, "none")

\* Mutant: the marker is not consulted.
AlreadyComplete_Never == FALSE

AlreadyComplete == marker # NoMarker

\* migrate_address_book_v2 takes the write lock and decides.
MigrationStarts(c) ==
  /\ At(c, "begun") /\ lock = NoCall
  /\ \/ /\ AlreadyComplete
        /\ Proceed(c)
        /\ UNCHANGED <<lock, todo>>
     \/ /\ ~AlreadyComplete
        /\ \E e \in LegacyErrors : Return(c, e)
        /\ UNCHANGED <<lock, todo>>
     \/ /\ ~AlreadyComplete /\ LegacyErrors = {}
        /\ lock' = c
        /\ todo' = Destinations
        /\ Goto(c, "migrating", call[c].op, "none")
  /\ UNCHANGED <<legacy, v2, marker, edits, failures, removed, edited>>

\* The migration returns an error and drops the lock.
MigrationFails(c, outcome) ==
  /\ Return(c, outcome)
  /\ lock' = NoCall
  /\ todo' = {}

\* Mutant: an entry that exists is taken to be the same.
Conflicts_Never(a) == FALSE

Conflicts(a) == v2[a] # NoEntry /\ v2[a] # EntryFor(a)

\* One entry, in the order of the hash map: verified if it exists, else written.
MigrateEntry(c, a) ==
  /\ At(c, "migrating") /\ a \in todo
  /\ \/ /\ Conflicts(a)
        /\ MigrationFails(c, "conflict")
        /\ UNCHANGED v2
     \/ /\ ~Conflicts(a)
        /\ v2' = IF v2[a] = NoEntry THEN [v2 EXCEPT ![a] = EntryFor(a)] ELSE v2
        /\ todo' = todo \ {a}
        /\ UNCHANGED <<lock, call>>
  /\ UNCHANGED <<legacy, marker, edits, failures, removed, edited>>

\* The marker is written last, with the number of entries.
MigrationEnds(c) ==
  /\ At(c, "migrating") /\ todo = {}
  /\ marker' = Cardinality(Destinations)
  /\ lock' = NoCall
  /\ Proceed(c)
  /\ UNCHANGED <<legacy, v2, todo, edits, failures, removed, edited>>

\* A read or write of the storage fails during the migration.
MigrationStorageFails(c) ==
  /\ At(c, "migrating") /\ failures < MaxFailures
  /\ failures' = failures + 1
  /\ MigrationFails(c, "failed")
  /\ UNCHANGED <<legacy, v2, marker, edits, removed, edited>>

Accepts(n) == Normal[n] # Invalid

\* upsert_address_book_entry_v2, after its migration.
Upsert(c, t, n) ==
  /\ At(c, "operating") /\ call[c].op = "upsert" /\ lock = NoCall
  /\ \/ /\ ~Accepts(n)
        /\ Return(c, "invalid")
        /\ UNCHANGED <<v2, removed>>
     \/ /\ Accepts(n)
        /\ v2' = [v2 EXCEPT ![Canonical[t]] = Normal[n]]
        /\ removed' = removed \ {Canonical[t]}
        /\ Return(c, "ok")
  /\ UNCHANGED <<legacy, marker, lock, todo, edits, failures, edited>>

\* remove_address_book_entry_v2, after its migration.
Remove(c, a) ==
  /\ At(c, "operating") /\ call[c].op = "remove" /\ lock = NoCall
  /\ \/ /\ v2[a] = NoEntry
        /\ Return(c, "notFound")
        /\ UNCHANGED <<v2, removed>>
     \/ /\ v2[a] # NoEntry
        /\ v2' = [v2 EXCEPT ![a] = NoEntry]
        /\ removed' = removed \cup {a}
        /\ Return(c, "ok")
  /\ UNCHANGED <<legacy, marker, lock, todo, edits, failures, edited>>

\* list and match read the v2 entries, after their migration.
Read(c) ==
  /\ At(c, "operating") /\ call[c].op = "read" /\ lock = NoCall
  /\ Return(c, "ok")
  /\ UNCHANGED <<legacy, v2, marker, lock, todo, edits, failures,
                 removed, edited>>

\* find_address_book_entry_v2, after its migration.
Find(c, a) ==
  /\ At(c, "operating") /\ call[c].op = "read" /\ lock = NoCall
  /\ Return(c, IF v2[a] = NoEntry THEN "notFound" ELSE "ok")
  /\ UNCHANGED <<legacy, v2, marker, lock, todo, edits, failures,
                 removed, edited>>

\* A v2 call refuses its other arguments, its storage operation fails, or its
\* future is dropped while it waits for the lock.
Abandon(c) ==
  /\ call[c].pc \in {"begun", "operating"}
  /\ Return(c, "failed")
  /\ UNCHANGED <<legacy, v2, marker, lock, todo, edits, failures,
                 removed, edited>>

-----------------------------------------------------------------------------
(* The legacy calls, and the storage                                       *)

PartialCopy == marker = NoMarker /\ \E a \in Address : v2[a] # NoEntry

\* upsert_contact and remove_contact write the legacy tree only.
LegacyEdit(t, entry) ==
  /\ lock = NoCall /\ edits < MaxEdits
  /\ edits' = edits + 1
  /\ legacy' = [legacy EXCEPT ![t] = entry]
  /\ edited' = (edited \/ PartialCopy)
  /\ UNCHANGED <<v2, marker, lock, todo, call, failures, removed>>

UpsertContact(t, n) == LegacyEdit(t, n)
RemoveContact(t) == LegacyEdit(t, NoEntry)

\* The process ends, and the wallet is opened again.
Crash ==
  /\ failures < MaxFailures
  /\ failures' = failures + 1
  /\ lock' = NoCall
  /\ todo' = {}
  /\ call' = [c \in Call |-> [pc |-> "idle", op |-> "read",
                              outcome |-> "none"]]
  /\ UNCHANGED <<legacy, v2, marker, edits, removed, edited>>

Next ==
  \/ \E c \in Call :
       \/ \E op \in Operation : Begin(c, op)
       \/ MigrationStarts(c)
       \/ \E a \in Address : MigrateEntry(c, a)
       \/ MigrationEnds(c)
       \/ MigrationStorageFails(c)
       \/ \E t \in Text, n \in Name : Upsert(c, t, n)
       \/ \E a \in Address : Remove(c, a)
       \/ Read(c)
       \/ \E a \in Address : Find(c, a)
       \/ Abandon(c)
  \/ \E t \in Text, n \in Name : UpsertContact(t, n)
  \/ \E t \in Text : RemoveContact(t)
  \/ Crash

Spec == Init /\ [][Next]_vars

-----------------------------------------------------------------------------
(* Properties                                                              *)

Book == [Address -> Name \cup {NoEntry}]
Marker == Nat \cup {NoMarker}

\* The trees hold normalised entries of the declared types.
TypeOK ==
  /\ legacy \in [Text -> Name \cup {NoEntry}]
  /\ v2 \in Book
  /\ marker \in Marker
  /\ removed \subseteq Address
  /\ lock \in Call \cup {NoCall}
  /\ todo \subseteq Address
  /\ call \in [Call -> [pc : {"idle", "begun", "migrating", "operating"},
                        op : Operation, outcome : Outcome]]
  /\ edits \in 0 .. MaxEdits
  /\ failures \in 0 .. MaxFailures
  /\ edited \in BOOLEAN

\* No v2 call lists, changes or removes entries before the migration is
\* complete, so no caller ever sees or edits a partial copy, also after
\* failures and crashes in the middle of it.
NoPartialVisible == \A c \in Call : At(c, "operating") => marker # NoMarker

\* "writes a completion marker only after every entry succeeds": when the
\* marker appears every legacy contact has its entry, although earlier runs may
\* have stopped anywhere and the legacy tree may have changed since.
MigrationComplete ==
  [][marker = NoMarker /\ marker' # NoMarker =>
       /\ \A t \in Contacts : v2'[Canonical[t]] = Migrated(t)
       /\ marker' = Cardinality(Destinations)]_vars

\* "later v2 writes are authoritative": an entry the user removed is not
\* brought back from the legacy tree, neither by the migration that every call
\* repeats nor by the next start of the wallet.
RemovedStaysRemoved == \A a \in removed : v2[a] = NoEntry

\* "the next run verifies and reuses identical entries": what an interrupted
\* run left is in conflict with the legacy tree only if that was edited
\* meanwhile.
ConflictNeedsEdit ==
  \A c \in Call : call[c].outcome = "conflict" => edited

=============================================================================
