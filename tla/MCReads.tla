------------------------------ MODULE MCReads -------------------------------
(***************************************************************************)
(* What callers are told, for TLC: a wallet's assets, balances and         *)
(* transactions, log and progress streams, the data of an address, and the *)
(* error a call fails with.  The models share no state, so a behaviour     *)
(* runs one of them, its focus, and leaves the others where they start.    *)
(***************************************************************************)
EXTENDS WalletReads, SequencesExt

CONSTANTS c1, c2, c3, NoPayload, NoLimit, NoAddress, NoAsset, NoFile, mainnet, testnet, k1

VARIABLES
  focus,                                          \* the model that runs
  history, pending, result, export, temp, file,   \* TransactionHistory
  addressCall, descriptor,                        \* IntegratedAddresses
  reported                                        \* NativeErrors

historyVars == <<history, pending, result, export, temp, file>>
valueVars == <<addressCall, descriptor, reported>>

MCCall == {c1, c2, c3}

-----------------------------------------------------------------------------
(* TransactionHistory: pages of up to four transactions, and exports of up *)
(* to three.                                                               *)

Extra(p) == <<[flag |-> "Private", data |-> p]>>
P1 == [kind |-> "U64", content |-> "p1"]
P2 == [kind |-> "U64", content |-> "p2"]
To(key, asset, extra) == [destination |-> key, asset |-> asset, extra |-> extra]
Tx(hash, height, type, transfers, participants) ==
  [hash |-> hash, topoheight |-> height, from |-> "bob",
   entry |-> [type |-> type, transfers |-> transfers, data |-> <<>>,
              asset |-> "xel", participants |-> participants]]

StoredTransactions ==
  {Tx("h1", 1, "Outgoing", <<To("bob", "xel", Extra(P1)), To("bob", "tok", <<>>)>>, {}),
   Tx("h2", 2, "Outgoing",
      <<To("bob", "xel", Extra(P2)), To("eve", "tok", Extra(P1))>>, {}),
   Tx("h3", 2, "Incoming", <<To("own", "tok", Extra(P1))>>, {}),
   Tx("h4", 1, "Coinbase", <<>>, {}),
   Tx("h5", 1, "Multisig", <<>>, {"bob"})}

Address(valid, key, data) == [valid |-> valid, key |-> key, data |-> data]
F(page, limit, address, max, asset) ==
  [page |-> page, limit |-> limit, address |-> address, max_topoheight |-> max,
   accept |-> {"incoming", "outgoing", "coinbase"}, asset |-> asset]

PageFilters ==
  {F(p, l, a, 9, NoAsset) : p \in 0..3, l \in {NoLimit, 0, 1, 2, 3},
     a \in {NoAddress, Address(FALSE, "bob", NoPayload), Address(TRUE, "bob", NoPayload),
            Address(TRUE, "bob", P1), Address(TRUE, "own", P1)}}
    \cup {F(p, 1, a, m, s) : p \in {1, 2}, m \in {1, 9}, s \in {"tok", BadHash},
            a \in {NoAddress, Address(TRUE, "bob", NoPayload), Address(TRUE, "bob", P1)}}

ExportFilters ==
  {F(1, NoLimit, NoAddress, 9, NoAsset),
   F(1, 2, Address(TRUE, "bob", P1), 9, NoAsset),
   F(0, 2, NoAddress, 9, NoAsset)}

Pages ==
  INSTANCE TransactionHistory WITH
    Own <- "own", Stored <- StoredTransactions, Filter <- PageFilters,
    ExportFilter <- {}, MaxUsize <- 5, MaxTopoheight <- 9, MaxHistory <- 4

Exports ==
  INSTANCE TransactionHistory WITH
    Own <- "own", Stored <- StoredTransactions, Filter <- ExportFilters,
    ExportFilter <- ExportFilters, MaxUsize <- 5, MaxTopoheight <- 9, MaxHistory <- 3

ASSUME HistoryAssumption == Pages!FilterAssumption /\ Exports!FilterAssumption

\* TransactionHistory's properties of a page and of an exported file.
PageIsSlice == focus = "pages" => Pages!PageIsSlice
FileWhole == focus = "exports" => Exports!FileWhole

-----------------------------------------------------------------------------
(* IntegratedAddresses                                                     *)

\* Integers around both widths, both spellings of a number and of a hash, blobs
\* around their limit.
LeafWire ==
  {[kind |-> "unsigned", type |-> t, value |-> v, canonical |-> c] :
     t \in {"U8", "U16"}, v \in {1, 2}, c \in BOOLEAN}
  \cup {[kind |-> "unsigned", type |-> "U16", value |-> 4, canonical |-> TRUE]}
  \cup {[kind |-> "hash", value |-> "h", lower |-> l] : l \in BOOLEAN}
  \cup {[kind |-> "badHash"]}
  \cup {[kind |-> "plain", type |-> "Blob", value |-> n] : n \in {1, 2}}
  \cup {[kind |-> "plain", type |-> "Bool", value |-> TRUE]}

SmallWire == {[kind |-> "unsigned", type |-> "U16", value |-> 1, canonical |-> TRUE],
          [kind |-> "unsigned", type |-> "U8", value |-> 1, canonical |-> FALSE],
          [kind |-> "hash", value |-> "h", lower |-> TRUE],
          [kind |-> "hash", value |-> "h", lower |-> FALSE]}

ArrayWire(S) == {[kind |-> "array", values |-> s] : s \in BoundedSeq(S, 3)}
FieldsWire(S) ==
  {[kind |-> "fields", fields |-> s] : s \in BoundedSeq([key : SmallWire, value : S], 2)}

Wire == LeafWire \cup ArrayWire(LeafWire) \cup FieldsWire(LeafWire) \cup ArrayWire(ArrayWire(SmallWire)
            \cap {[kind |-> "array", values |-> s] : s \in BoundedSeq(SmallWire, 2)})

Addresses ==
  INSTANCE IntegratedAddresses WITH
    call <- addressCall, Mainnet <- mainnet, Networks <- {mainnet, testnet},
    Key <- {k1}, Width <- [U8 |-> 1, U16 |-> 2], CollectionLimit <- 2,
    BlobLimit <- 1, SizeLimit <- 5

\* IntegratedAddresses' property of data that goes into an address and back.
AddressLossless == focus = "addresses" => Addresses!AddressLossless

-----------------------------------------------------------------------------
(* NativeErrors                                                            *)

Errors == INSTANCE NativeErrors WITH MaxWraps <- 3

\* NativeErrors' property of the class a failure gets.
CauseReported == focus = "errors" => Errors!CauseReported

-----------------------------------------------------------------------------

\* Two of the calls, which are also the emitters, and the sinks.
Symmetry == Permutations({c1, c2}) \cup Permutations(Sink)

RunInit ==
  /\ focus \in {"assets", "pages", "exports", "streams", "addresses", "errors"}
  /\ Init /\ Pages!Init /\ Streams!Init /\ Errors!Init
  /\ focus # "assets" => ~online
  /\ focus # "streams" => logger = "none"
  /\ IF focus = "addresses" THEN Addresses!Init
     ELSE addressCall = "none" /\ descriptor = "none"

\* A parsed address is a result, after which nothing has to follow.
RunNext ==
  \/ /\ focus = "assets" /\ Next
     /\ UNCHANGED <<focus, historyVars, streamVars, valueVars>>
  \/ /\ focus = "pages" /\ Pages!Next
     /\ UNCHANGED <<focus, vars, streamVars, valueVars>>
  \/ /\ focus = "exports" /\ Exports!Next
     /\ UNCHANGED <<focus, vars, streamVars, valueVars>>
  \/ /\ focus = "streams" /\ Streams!Next
     /\ UNCHANGED <<focus, vars, historyVars, valueVars>>
  \/ /\ focus = "addresses" /\ Addresses!Next
     /\ UNCHANGED <<focus, vars, historyVars, streamVars, reported>>
  \/ /\ focus = "addresses"
     /\ UNCHANGED <<focus, vars, historyVars, streamVars, valueVars>>
  \/ /\ focus = "errors" /\ Errors!Next
     /\ UNCHANGED <<focus, vars, historyVars, streamVars, addressCall, descriptor>>

RunSpec == RunInit /\ [][RunNext]_<<focus, vars, historyVars, streamVars, valueVars>>
=============================================================================
