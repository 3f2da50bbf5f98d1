--------------------------- MODULE LegacyContacts ---------------------------
(***************************************************************************)
(* The contacts of the legacy address book: what its tree stores, how it   *)
(* is listed, searched and looked up.  Every call works under the lock of  *)
(* the storage and is one step.  The tree is keyed by the text of an       *)
(* address as it was entered; it may hold elements other software wrote.   *)
(* AddressBook models what the migration makes of them.                    *)
(*                                                                         *)
(* A name is a sequence of letters, and -n the upper case of letter n.     *)
(***************************************************************************)
EXTENDS Integers, Sequences, SequencesExt, FiniteSets

CONSTANTS
  Mainnet,     \* the wallet's network
  Text,        \* address texts: [valid, mainnet, id]
  TreeOrder,   \* external: the order in which the storage lists the keys
  Name, Note,  \* what callers enter
  Absent,      \* no note, a field that is not there
  NotText,     \* the value of a field that is not a string
  Foreign,     \* elements of other software
  Slices,      \* pairs of skip and take
  Error        \* a failed call

OrderAssumption == ToSet(TreeOrder) = Text /\ IsInjective(TreeOrder)

VARIABLES
  tree,      \* ADDRESS_BOOK_TREE: every text's element
  written,   \* history: the contact last upserted under a text
  answer     \* the last call and what it returned

vars == <<tree, written, answer>>

NoElement == [kind |-> "none"]
NoContact == [name |-> Absent, address |-> Absent, note |-> Absent]

Init ==
  /\ tree \in [Text -> Foreign \cup {NoElement}]
  /\ written = [t \in Text |-> NoContact]
  /\ answer = [call |-> "none"]

Stored == {t \in Text : tree[t] # NoElement}

\* Address::from_string and the comparison of the networks.
Refused(t) == ~t.valid \/ t.mainnet # Mainnet

-----------------------------------------------------------------------------
(* Elements                                                                *)

\* A string field that may be absent; a value of another type is an error.
IsText(v) == v # NotText

ToDataElement(c) ==
  [kind |-> "Fields", name |-> c.name, address |-> c.address, note |-> c.note]

\* ContactDetails::from
ContactFrom(f) ==
  IF f.name = Absent \/ f.address = Absent
       \/ ~IsText(f.name) \/ ~IsText(f.address) \/ ~IsText(f.note)
    THEN Error
    ELSE [name |-> f.name, address |-> f.address, note |-> f.note]

\* The contact of a listed entry has the key as its address.
ListedContact(t) == [name |-> tree[t].name, address |-> t, note |-> tree[t].note]

Malformed(t) ==
  /\ tree[t].kind = "Fields"
  /\ tree[t].name = Absent \/ ~IsText(tree[t].name) \/ ~IsText(tree[t].note)

\* AddressBookData::from: elements that are not fields are skipped, a malformed
\* contact fails the whole page.
AddressBookData(page) ==
  IF \E t \in ToSet(page) : Malformed(t) THEN Error
  ELSE {ListedContact(t) : t \in {t \in ToSet(page) : tree[t].kind = "Fields"}}

-----------------------------------------------------------------------------
(* Queries                                                                 *)

Fold(name) == [i \in DOMAIN name |-> IF name[i] < 0 THEN -name[i] ELSE name[i]]

\* The escaped, case-insensitive pattern, which may match anywhere.
Matches(q, name) ==
  \E i \in 1 .. Len(name) + 1, j \in 0 .. Len(name) :
    SubSeq(Fold(name), i, j) = Fold(q)

NameMatches(t, q) ==
  tree[t].kind = "Fields" /\ tree[t].name \in Name /\ Matches(q, tree[t].name)

\* External: query_db(tree, key, value, take, skip).
QueryDb(hits, take, skip) ==
  LET listed == SelectSeq(TreeOrder, LAMBDA t : t \in hits)
  IN SubSeq(listed, skip + 1, Min({skip + take, Len(listed)}))

\* Mutant: the arguments are given in the order of the caller's parameters.
Page_Swapped(hits, slice) == AddressBookData(QueryDb(hits, slice.skip, slice.take))

Page(hits, slice) == AddressBookData(QueryDb(hits, slice.take, slice.skip))

-----------------------------------------------------------------------------
(* Calls                                                                   *)

Answers(call, a) == answer' = [call |-> call, with |-> a]

UpsertContact(t, name, note) ==
  LET c == [name |-> name, address |-> t, note |-> note] IN
  /\ IF Refused(t)
       THEN UNCHANGED <<tree, written>> /\ Answers("upsert", Error)
       ELSE /\ tree' = [tree EXCEPT ![t] = ToDataElement(c)]
            /\ written' = [written EXCEPT ![t] = c]
            /\ Answers("upsert", t)

RemoveContact(t) ==
  IF Refused(t)
    THEN UNCHANGED <<tree, written>> /\ Answers("remove", Error)
    ELSE /\ tree' = [tree EXCEPT ![t] = NoElement]
         /\ written' = [written EXCEPT ![t] = NoContact]
         /\ Answers("remove", t)

FindContactByAddress(t) ==
  /\ answer' = [call |-> "find", text |-> t, with |->
       IF Refused(t) \/ tree[t].kind # "Fields" THEN Error ELSE ContactFrom(tree[t])]
  /\ UNCHANGED <<tree, written>>

IsContactPresent(t) ==
  /\ answer' = [call |-> "present", text |-> t, with |->
       IF Refused(t) THEN Error ELSE IF t \in Stored THEN "yes" ELSE "no"]
  /\ UNCHANGED <<tree, written>>

CountContacts == Answers("count", Cardinality(Stored)) /\ UNCHANGED <<tree, written>>

RetrieveContacts(slice) ==
  /\ answer' = [call |-> "list", hits |-> Stored, slice |-> slice,
                with |-> Page(Stored, slice)]
  /\ UNCHANGED <<tree, written>>

FindContactsByName(q, slice) ==
  LET hits == {t \in Stored : NameMatches(t, q)} IN
  /\ answer' = [call |-> "list", hits |-> hits, slice |-> slice,
                with |-> Page(hits, slice)]
  /\ UNCHANGED <<tree, written>>

\* The caller has its answer and goes on.
Returned == answer' = [call |-> "none"] /\ UNCHANGED <<tree, written>>

Next ==
  \/ answer.call # "none" /\ Returned
  \/ /\ answer.call = "none"
     /\ \/ \E t \in Text :
             \/ \E name \in Name, note \in Note \cup {Absent} :
                  UpsertContact(t, name, note)
             \/ RemoveContact(t) \/ FindContactByAddress(t) \/ IsContactPresent(t)
        \/ CountContacts
        \/ \E slice \in Slices : RetrieveContacts(slice)
        \/ \E q \in Name, slice \in Slices : FindContactsByName(q, slice)

Spec == Init /\ [][Next]_vars

-----------------------------------------------------------------------------
(* Properties                                                              *)

Upserted(t) == written[t] # NoContact

\* How many of the hits the storage lists before t.
Rank(t, hits) ==
  LET at(u) == CHOOSE i \in DOMAIN TreeOrder : TreeOrder[i] = u
  IN Cardinality({u \in hits : at(u) < at(t)})

InRange(answered) ==
  {t \in answered.hits : Rank(t, answered.hits) \in
     answered.slice.skip .. answered.slice.skip + answered.slice.take - 1}

\* However calls and elements of other software mix: a lookup and every listing
\* show an upserted contact as it was entered and agree about it; the pages of
\* a listing or search cut its hits into consecutive ranges, none lost or
\* repeated; and a page fails only for a malformed contact in its own range,
\* which an upsert of that contact repairs.
ContactsAgree ==
  /\ answer.call = "find" /\ Upserted(answer.text) =>
       answer.with = written[answer.text]
  /\ answer.call = "present" /\ Upserted(answer.text) => answer.with = "yes"
  /\ answer.call = "count" =>
       answer.with >= Cardinality({t \in Text : Upserted(t)})
  /\ answer.call = "list" =>
       IF answer.with = Error
         THEN \E t \in InRange(answer) : ~Upserted(t)
         ELSE LET shown == {c.address : c \in answer.with} IN
              /\ shown \subseteq InRange(answer)
              /\ \A t \in InRange(answer) :
                   Upserted(t) => written[t] \in answer.with
              /\ \A t \in InRange(answer) \ shown : tree[t].kind # "Fields"
              /\ \A c, d \in answer.with : c.address = d.address => c = d

=============================================================================
