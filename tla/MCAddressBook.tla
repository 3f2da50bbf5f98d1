---------------------------- MODULE MCAddressBook ----------------------------
(***************************************************************************)
(* The three models of the address book for TLC.  They describe different  *)
(* operations on abstractions of their own and share no state, so a        *)
(* behaviour runs one of them, its focus, and leaves the others where they *)
(* start: the instance has the states of each, not their product.          *)
(***************************************************************************)
EXTENDS AddressBook, Integers, TLC

CONSTANTS t1, t1x, t2, d1, d2, plain, padded, other, empty, Absent, NotText, Error

VARIABLES
  focus,          \* the model that runs
  book, entered, answer,          \* AddressBookLookup
  tree, written, contactAnswer    \* LegacyContacts

lookupVars == <<book, entered, answer>>
legacyVars == <<tree, written, contactAnswer>>

-----------------------------------------------------------------------------
(* AddressBook: two texts of one destination and one of another; a name,   *)
(* the same name with blanks around it, another name and an empty one.     *)

MCText == {t1, t1x, t2}
MCAddress == {d1, d2}
MCCanonical == t1 :> d1 @@ t1x :> d1 @@ t2 :> d2
MCName == {plain, padded, other, empty}
MCNormal == plain :> plain @@ padded :> plain @@ other :> other
            @@ empty :> Invalid
Symmetry == Permutations(Call)

-----------------------------------------------------------------------------
(* AddressBookLookup                                                       *)

A(blanks, bytes, valid, mainnet, key, data, upper) ==
  [padded |-> blanks, bytes |-> bytes, valid |-> valid, mainnet |-> mainnet,
   key |-> key, data |-> data, upper |-> upper]

\* One key spelled in three ways and with data, another key, and the refusals.
LookupTexts ==
  {A(FALSE, 2, TRUE, TRUE, 1, 0, FALSE), A(TRUE, 2, TRUE, TRUE, 1, 0, FALSE),
   A(FALSE, 2, TRUE, TRUE, 1, 0, TRUE), A(FALSE, 3, TRUE, TRUE, 1, 1, FALSE),
   A(FALSE, 3, TRUE, TRUE, 1, 2, TRUE), A(FALSE, 2, TRUE, TRUE, 2, 0, FALSE),
   A(FALSE, 4, TRUE, TRUE, 2, 0, FALSE), A(FALSE, 2, FALSE, TRUE, 1, 0, FALSE),
   A(FALSE, 2, TRUE, FALSE, 1, 0, FALSE), A(TRUE, 0, TRUE, TRUE, 1, 0, FALSE)}

W(blanks, chars, word) == [padded |-> blanks, chars |-> chars, word |-> word]

E(name, label, note) == [name |-> name, label |-> label, note |-> note]

\* Two names, blank and present options, and one refusal of each kind.
LookupEntries ==
  {E(W(TRUE, 2, 1), Absent, W(TRUE, 0, 1)), E(W(FALSE, 2, 1), W(TRUE, 1, 1), Absent),
   E(W(FALSE, 1, 2), W(TRUE, 0, 1), W(TRUE, 1, 2)),
   E(W(TRUE, 0, 3), Absent, Absent), E(W(FALSE, 3, 3), Absent, Absent),
   E(W(FALSE, 1, 1), W(FALSE, 2, 1), Absent), E(W(FALSE, 1, 1), Absent, W(FALSE, 3, 1))}
LookupQueries == {W(TRUE, 1, 1), W(FALSE, 1, 2), W(FALSE, 0, 1), W(FALSE, 2, 1)}

Lookup ==
  INSTANCE AddressBookLookup WITH
    written <- entered, Mainnet <- TRUE, AddressText <- LookupTexts,
    Data <- {1, 2}, NoData <- 0, DataBytes <- 1, Entered <- LookupEntries,
    Query <- LookupQueries, MaxAddressBytes <- 3, MaxNameChars <- 2,
    MaxLabelChars <- 1, MaxNoteChars <- 2, MaxQueryChars <- 1, MaxPageSize <- 2

-----------------------------------------------------------------------------
(* LegacyContacts                                                          *)

T(id, mainnet) == [valid |-> TRUE, mainnet |-> mainnet, id |-> id]

\* Three addresses of the network and one of another, which is refused like a
\* text that is no address.
ContactOrder == <<T(2, TRUE), T(1, TRUE), T(4, FALSE), T(3, TRUE)>>
ContactTexts == {ContactOrder[i] : i \in DOMAIN ContactOrder}
ContactNames == {<<1, 2>>, <<-2>>}
ContactNotes == {<<3>>}

\* A plain value, a contact without a name, one whose note is not a text, and
\* one that lacks its address.
Fields(name, address, note) ==
  [kind |-> "Fields", name |-> name, address |-> address, note |-> note]
ForeignElements ==
  {[kind |-> "Value"], Fields(Absent, Absent, Absent),
   Fields(<<1, 2>>, Absent, NotText), Fields(<<1, 2>>, Absent, <<3>>)}
ContactSlices == [skip : 0 .. 2, take : 1 .. 2]

Legacy ==
  INSTANCE LegacyContacts WITH
    answer <- contactAnswer, Mainnet <- TRUE, Text <- ContactTexts,
    TreeOrder <- ContactOrder, Name <- ContactNames, Note <- ContactNotes,
    Foreign <- ForeignElements, Slices <- ContactSlices

ASSUME ContactOrderAssumption == Legacy!OrderAssumption

\* AddressBookLookup's property of match_address_book_v2_address and the pages
\* of list_address_book_v2.
LookupsFaithful == focus = "lookup" => Lookup!LookupsFaithful

\* LegacyContacts' property of the contact calls on the tree that the wallet
\* shares with other software.
ContactsAgree == focus = "legacy" => Legacy!ContactsAgree

-----------------------------------------------------------------------------

RunInit ==
  /\ focus \in {"book", "lookup", "legacy"}
  /\ Init /\ Lookup!Init /\ Legacy!Init
  /\ focus # "book" => legacy = [t \in Text |-> NoEntry]
  /\ focus # "legacy" => tree = [t \in DOMAIN tree |-> Legacy!NoElement]

RunNext ==
  \/ focus = "book" /\ Next /\ UNCHANGED <<focus, lookupVars, legacyVars>>
  \/ focus = "lookup" /\ Lookup!Next /\ UNCHANGED <<focus, vars, legacyVars>>
  \/ focus = "legacy" /\ Legacy!Next /\ UNCHANGED <<focus, vars, lookupVars>>

RunSpec == RunInit /\ [][RunNext]_<<focus, vars, lookupVars, legacyVars>>

=============================================================================
