-------------------------- MODULE AddressBookLookup --------------------------
(***************************************************************************)
(* What the migrated address book stores and how it is looked up: entries  *)
(* are normalised, encoded as fields under the id of their destination,    *)
(* and decoded and normalised again by every read.  One entry that does    *)
(* not decode makes every list and match fail.  The migration itself is    *)
(* modelled in AddressBook.                                                *)
(*                                                                         *)
(* A text is [padded, chars, word]: its trimmed length and what it says,   *)
(* in lower case; words and keys are numbers.  An address text is [padded, *)
(* bytes, valid, mainnet, key, data, upper]; its canonical form, without   *)
(* padding, in lower case, stands for the entry id, which is its hash.     *)
(***************************************************************************)
EXTENDS Integers, Sequences, SequencesExt, FiniteSets

CONSTANTS
  Mainnet,          \* the wallet's network
  AddressText,      \* address texts callers enter
  Data,             \* integrated data
  NoData,
  DataBytes,        \* how much integrated data lengthens an address
  Entered,          \* names, labels and notes as entered together
  Absent,           \* an optional text that is not given
  Query,            \* texts to search for
  MaxAddressBytes, MaxNameChars, MaxLabelChars, MaxNoteChars, MaxQueryChars,
  MaxPageSize,
  Invalid

VARIABLES
  book,     \* the tree "address_book_v2": id -> fields
  written,  \* history: the entry the last upsert of an id returned
  answer    \* what the last read returned

vars == <<book, written, answer>>

NoAnswer == [kind |-> "none"]

Init ==
  /\ book = <<>>
  /\ written = <<>>
  /\ answer = NoAnswer

-----------------------------------------------------------------------------
(* Destinations                                                            *)

\* The text of the parsed address, which is what is hashed into the id.
Normalized(t) == [t EXCEPT !.padded = FALSE, !.upper = FALSE]

\* External: Address::extract_data and Address::new with data.
BaseOf(a) == [a EXCEPT !.data = NoData,
                       !.bytes = @ - (IF a.data = NoData THEN 0 ELSE DataBytes)]
WithData(a, d) == [a EXCEPT !.data = d, !.bytes = @ + DataBytes]

\* canonical_destination
CanonicalDestination(t) ==
  IF t.bytes = 0 \/ t.bytes > MaxAddressBytes \/ ~t.valid \/ t.mainnet # Mainnet
    THEN Invalid
    ELSE [address |-> Normalized(t), base_address |-> BaseOf(Normalized(t)),
          data |-> t.data, kind |-> IF t.data = NoData THEN "Standard" ELSE "Integrated"]

\* canonical_destination_from_parts
DestinationFromParts(t, d) ==
  LET base == CanonicalDestination(t) IN
  CASE base = Invalid \/ (base # Invalid /\ base.data # NoData) -> Invalid
    [] d = NoData -> base
    [] OTHER -> CanonicalDestination(WithData(base.address, d))

-----------------------------------------------------------------------------
(* Entries                                                                 *)

Trim(x) == [x EXCEPT !.padded = FALSE]

\* normalize_required, normalize_optional
NormalizeRequired(x, max) == IF x.chars \in 1..max THEN Trim(x) ELSE Invalid
NormalizeOptional(x, max) ==
  IF x = Absent THEN Absent
  ELSE IF x.chars = 0 THEN Absent
  ELSE IF x.chars > max THEN Invalid ELSE Trim(x)

\* normalize_entry
NormalizeEntry(address, name, label, note) ==
  LET destination == CanonicalDestination(address)
      display_name == NormalizeRequired(name, MaxNameChars)
      destination_label == NormalizeOptional(label, MaxLabelChars)
      n == NormalizeOptional(note, MaxNoteChars)
  IN IF Invalid \in {destination, display_name, destination_label, n} THEN Invalid
     ELSE [id |-> destination.address, display_name |-> display_name,
           destination_label |-> destination_label, note |-> n,
           destination |-> destination]

Schema == 2

\* encode_entry: only the fields that are present.
EncodeEntry(e) ==
  LET optional == {f \in {"destination_label", "note"} : e[f] # Absent} IN
  [f \in {"schema_version", "id", "display_name", "address"} \cup optional |->
     CASE f = "schema_version" -> Schema
       [] f = "address" -> e.destination.address
       [] OTHER -> e[f]]

\* string_field
StringField(fields, f) == IF f \in DOMAIN fields THEN fields[f] ELSE Absent

SameId(fields, e, id) == fields["id"] = id /\ e.id = id

\* decode_entry
DecodeEntry(id, fields) ==
  IF fields["schema_version"] # Schema THEN Invalid
  ELSE LET e == NormalizeEntry(fields["address"], fields["display_name"],
                               StringField(fields, "destination_label"),
                               StringField(fields, "note"))
       IN IF e = Invalid THEN Invalid
          ELSE IF SameId(fields, e, id) THEN e ELSE Invalid

\* External: the order of ids, which are hashes; any order does.
IdBefore(a, b) == a.key < b.key \/ (a.key = b.key /\ a.data < b.data)

\* The order of read_v2_entries: the name in lower case, then the id.
Before(e, f) ==
  \/ e.display_name.word < f.display_name.word
  \/ e.display_name.word = f.display_name.word /\ IdBefore(e.id, f.id)

\* read_v2_entries fails with the first entry it cannot decode.
ReadEntries ==
  LET entries == {DecodeEntry(id, book[id]) : id \in DOMAIN book} IN
  IF Invalid \in entries THEN Invalid ELSE SetToSortSeq(entries, Before)

-----------------------------------------------------------------------------
(* The calls                                                               *)

\* upsert_address_book_entry_v2; the answer of an earlier read is forgotten.
Upsert(address, name, label, note) ==
  /\ LET e == NormalizeEntry(address, name, label, note) IN
     IF e = Invalid THEN UNCHANGED <<book, written>>
     ELSE /\ book' = [id \in DOMAIN book \cup {e.id} |->
                        IF id = e.id THEN EncodeEntry(e) ELSE book[id]]
          /\ written' = [id \in DOMAIN written \cup {e.id} |->
                           IF id = e.id THEN e ELSE written[id]]
  /\ answer' = NoAnswer

Without(f, id) == [x \in DOMAIN f \ {id} |-> f[x]]

\* remove_address_book_entry_v2
RemoveEntry(id) ==
  /\ id \in DOMAIN book
  /\ book' = Without(book, id)
  /\ written' = Without(written, id)
  /\ answer' = NoAnswer

Answer(a) == answer = NoAnswer /\ answer' = a /\ UNCHANGED <<book, written>>

\* find_address_book_entry_v2
Find(id) ==
  Answer([kind |-> "find", id |-> id,
          entry |-> IF id \in DOMAIN book THEN DecodeEntry(id, book[id]) ELSE Absent])

\* Mutant: entries of the same base are found before the exact one.
MatchDestination_BaseFirst(entries, d) ==
  LET base == SelectSeq(entries, LAMBDA e : e.destination.base_address = d.base_address)
  IN [kind |-> CASE Len(base) = 0 -> "None" [] Len(base) = 1 -> "BaseOnly"
                 [] OTHER -> "Ambiguous",
      entries |-> base]

\* match_destination: an exact entry, or the entries that share the base.
MatchDestination(entries, d) ==
  LET exact == SelectSeq(entries, LAMBDA e : e.destination.address = d.address)
      base == SelectSeq(entries, LAMBDA e : e.destination.base_address = d.base_address)
  IN IF exact # <<>> THEN [kind |-> "Exact", entries |-> <<exact[1]>>]
     ELSE [kind |-> CASE Len(base) = 0 -> "None" [] Len(base) = 1 -> "BaseOnly"
                      [] OTHER -> "Ambiguous",
           entries |-> base]

\* match_address_book_address_v2, match_address_book_destination_v2
MatchWith(destination) ==
  /\ destination # Invalid
  /\ Answer([kind |-> "match", destination |-> destination,
             match |-> IF ReadEntries = Invalid THEN Invalid
                       ELSE MatchDestination(ReadEntries, destination)])

MatchAddress(t) == MatchWith(CanonicalDestination(t))
MatchParts(t, d) == MatchWith(DestinationFromParts(t, d))

\* The search looks into names, labels and addresses, not into notes.
Hit(e, query) ==
  \/ query = Absent
  \/ e.display_name.word = query.word
  \/ e.destination_label # Absent /\ e.destination_label.word = query.word
  \/ e.destination.address.key = query.word

HasMore(skip, returned, total) == skip + returned < total

\* list_address_book_entries_v2; take = Absent asks for everything.
List(text, skip, take) ==
  /\ take = Absent \/ take \in 1..MaxPageSize
  /\ NormalizeOptional(text, MaxQueryChars) # Invalid
  /\ LET query == NormalizeOptional(text, MaxQueryChars)
         entries == SelectSeq(ReadEntries, LAMBDA e : Hit(e, query))
         last == IF take = Absent \/ skip + take > Len(entries) THEN Len(entries)
                 ELSE skip + take
         page == SubSeq(entries, skip + 1, last)
     IN Answer(IF ReadEntries = Invalid
                 THEN [kind |-> "list", query |-> query, skip |-> skip, page |-> Invalid]
                 ELSE [kind |-> "list", query |-> query, skip |-> skip, page |-> page,
                       total |-> Len(entries),
                       has_more |-> HasMore(skip, Len(page), Len(entries))])

Ids == {Normalized(t) : t \in AddressText}

Next ==
  \/ \E t \in AddressText, e \in Entered : Upsert(t, e.name, e.label, e.note)
  \/ \E id \in Ids : RemoveEntry(id) \/ Find(id)
  \/ \E t \in AddressText : MatchAddress(t)
  \/ \E t \in AddressText, d \in Data \cup {NoData} : MatchParts(t, d)
  \/ \E q \in Query \cup {Absent}, skip \in 0..Cardinality(Ids),
        take \in (0..MaxPageSize + 1) \cup {Absent} : List(q, skip, take)

Spec == Init /\ [][Next]_vars

-----------------------------------------------------------------------------
(* Properties                                                              *)

Entries == {written[id] : id \in DOMAIN written}

\* Whatever sequence of upserts and removals was accepted, every stored entry
\* decodes to exactly what its upsert returned, and a destination has one entry
\* however it is spelled: no accepted entry can make the book unreadable, come
\* back changed, or hide behind another.
BookReadable ==
  /\ DOMAIN book = DOMAIN written
  /\ \A id \in DOMAIN book : DecodeEntry(id, book[id]) = written[id]
  /\ \A e, f \in Entries :
       <<e.destination.address.key, e.destination.data>> =
         <<f.destination.address.key, f.destination.data>> => e = f

\* A match is exact whenever the very destination is stored, however it was
\* spelled or put together from its parts, and otherwise names all entries that
\* share its base address and no other; walking the pages of a search from any
\* offset meets every entry that fits once and ends at the last.  All of that
\* rests on a book that stays readable.
LookupsFaithful ==
  /\ BookReadable
  /\ answer.kind = "match" =>
       LET d == answer.destination
           same == {e \in Entries : e.destination.base_address = d.base_address}
       IN IF d.address \in DOMAIN written
            THEN answer.match = [kind |-> "Exact", entries |-> <<written[d.address]>>]
            ELSE /\ ToSet(answer.match.entries) = same
                 /\ Len(answer.match.entries) = Cardinality(same)
                 /\ (answer.match.kind = "Ambiguous") <=> (Cardinality(same) > 1)
                 /\ (answer.match.kind = "None") <=> (same = {})
  /\ answer.kind = "list" =>
       LET hits == {e \in Entries : Hit(e, answer.query)}
           after == {e \in hits : \E i \in DOMAIN answer.page : Before(answer.page[i], e)
                                    /\ e \notin ToSet(answer.page)}
       IN /\ ToSet(answer.page) \subseteq hits
          /\ answer.page # <<>> =>
               /\ answer.has_more <=> after # {}
               /\ answer.skip + Len(answer.page) + Cardinality(after) = Cardinality(hits)

=============================================================================
