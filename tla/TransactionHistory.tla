-------------------------- MODULE TransactionHistory --------------------------
(***************************************************************************)
(* The reads of the stored transaction history: filtered pages, single     *)
(* transactions, and the CSV export through a temporary file, while the    *)
(* wallet stores new transactions and the process may crash.               *)
(*                                                                         *)
(* A stored transaction is [hash, topoheight, from, entry]; a transfer has *)
(* a destination key, an asset and at most one extra data with a payload.  *)
(* A filter is the HistoryPageFilter with its accept flags as the set of   *)
(* accepted categories; an address is [valid, key, data].                  *)
(***************************************************************************)
EXTENDS Naturals, TransactionProjection, SequencesExt

CONSTANTS
  Own,             \* the wallet's public key
  Stored,          \* transactions the wallet may store
  Filter,          \* filters of the callers
  ExportFilter,    \* filters of the CSV exports
  BadHash,         \* a text that is not the hex of a hash
  NoLimit, NoAddress, NoAsset, NoFile,
  MaxUsize,        \* usize::MAX
  MaxTopoheight,   \* u64::MAX
  MaxHistory       \* bound on the stored transactions of a behaviour

FilterAssumption == ExportFilter \subseteq Filter /\ NoLimit \notin Nat

VARIABLES
  history,   \* the stored transactions
  pending,   \* the transactions the wallet sent and has not seen mined
  result,    \* what a read returned, until its caller has looked at it
  export,    \* the CSV export
  temp,      \* its temporary file: the rows, and how many of them are on disk
  file       \* the destination: such a file and the filter it was exported for

vars == <<history, pending, result, export, temp, file>>

NoResult == [kind |-> "none"]
Failure(kind) == [kind |-> "error", error |-> kind]
NoExport == [pc |-> "idle", filter |-> NoAddress, rows |-> <<>>]

Init ==
  /\ history = <<>>
  /\ pending = <<>>
  /\ result = NoResult
  /\ export = NoExport
  /\ temp = NoFile
  /\ file = NoFile

-----------------------------------------------------------------------------
(* Filters                                                                 *)

Category(tx) ==
  CASE tx.entry.type \in BlobTypes -> "blob"
    [] tx.entry.type \in {"Incoming", "IncomingContract"} -> "incoming"
    [] tx.entry.type = "Coinbase" -> "coinbase"
    [] tx.entry.type = "Burn" -> "burn"
    [] OTHER -> "outgoing"

\* HistoryPageFilter::prepare: an error, or the storage's options and, for an
\* integrated address, the exact destination it cannot express.
PrepareError(f) ==
  IF f.page = 0 THEN "page"
  ELSE IF f.limit = 0 THEN "limit"
  ELSE IF f.address # NoAddress /\ ~f.address.valid THEN "address"
  ELSE IF f.asset = BadHash THEN "asset"
  ELSE IF f.limit # NoLimit /\ (f.page - 1) * f.limit > MaxUsize THEN "offset"
  ELSE "ok"

Exact(f) == f.address # NoAddress /\ f.address.data # NoPayload

Prepare(f) ==
  [address |-> IF f.address = NoAddress \/ Exact(f) THEN NoAddress ELSE f.address.key,
   asset |-> f.asset,
   accept |-> IF f.address # NoAddress THEN f.accept \ {"coinbase", "burn", "blob"}
              ELSE IF f.asset # NoAsset THEN f.accept \ {"blob"} ELSE f.accept,
   \* u64::MAX is no bound: upstream adds one to it unchecked.
   max_topoheight |-> IF f.max_topoheight = MaxTopoheight
                        THEN NoLimit ELSE f.max_topoheight,
   skip |-> IF f.limit = NoLimit THEN 0 ELSE (f.page - 1) * f.limit,
   limit |-> f.limit]

\* FilteredPagination::prepare: the storage skips before it filters, so it is
\* asked for the whole prefix up to the page's end; Invalid when that overflows.
PaginationOverflows(options) ==
  options.limit # NoLimit /\ options.skip + options.limit > MaxUsize

Prefix(options) ==
  IF options.limit = NoLimit THEN NoLimit ELSE options.skip + options.limit

\* External: get_filtered_transactions applies the options, keeps of a transaction
\* the transfers they match, and stops at its limit.  An entry that names no asset
\* is not restricted by one.
StorageEntry(tx, o) ==
  LET Kept(t) ==
        /\ o.asset # NoAsset => t.asset = o.asset
        /\ o.address # NoAddress /\ tx.entry.type = "Outgoing" => t.destination = o.address
  IN [tx EXCEPT !.entry.transfers = SelectSeq(@, Kept)]

StorageAccepts(tx, o) ==
  /\ Category(tx) \in o.accept
  /\ o.max_topoheight # NoLimit => tx.topoheight <= o.max_topoheight
  /\ tx.entry.type \in TransferTypes => StorageEntry(tx, o).entry.transfers # <<>>
  /\ o.asset # NoAsset /\ tx.entry.type \in {"Coinbase", "Burn"} => tx.entry.asset = o.asset
  /\ o.address # NoAddress =>
       \/ tx.entry.type = "Incoming" /\ tx.from = o.address
       \/ tx.entry.type = "Outgoing"
       \/ tx.entry.type = "Multisig" /\ o.address \in tx.entry.participants

Taken(s, limit) ==
  IF limit = NoLimit \/ Len(s) <= limit THEN s ELSE SubSeq(s, 1, limit)

Filtered(h, o, limit) ==
  LET Accepted(tx) == StorageAccepts(tx, o)
      found == Taken(SelectSeq(h, Accepted), limit)
  IN [i \in DOMAIN found |-> StorageEntry(found[i], o)]

\* apply_exact_integrated_destination: transfers that do not match are removed
\* and so is a transaction that keeps none.
Matches(key, transfer, address) ==
  /\ key = address.key
  /\ \E i \in DOMAIN transfer.extra : transfer.extra[i].data = address.data

ExactTransfers(tx, address) ==
  LET In(t) == Matches(Own, t, address)
      Out(t) == Matches(t.destination, t, address)
  IN CASE tx.entry.type = "Incoming" /\ address.key = Own ->
            SelectSeq(tx.entry.transfers, In)
       [] tx.entry.type = "Outgoing" -> SelectSeq(tx.entry.transfers, Out)
       [] OTHER -> <<>>

ApplyExact(h, address) ==
  LET kept == [i \in DOMAIN h |-> [h[i] EXCEPT !.entry.transfers =
                                     ExactTransfers(h[i], address)]]
      NonEmpty(tx) == tx.entry.transfers # <<>>
  IN SelectSeq(kept, NonEmpty)

\* Mutant: the exact filter runs over the prefix of a page.
StorageLimit_Prefix(f, options) == Prefix(options)

\* The storage must not limit what the exact filter has yet to thin out.
StorageLimit(f, options) == IF Exact(f) THEN NoLimit ELSE Prefix(options)

\* FilteredPagination::apply
Apply(options, s) ==
  IF options.limit = NoLimit THEN s
  ELSE SubSeq(s, options.skip + 1,
              IF Len(s) < options.skip + options.limit
                THEN Len(s) ELSE options.skip + options.limit)

\* The part history and export_csv_transactions have in common.
FilterError(f) ==
  IF PrepareError(f) # "ok" THEN PrepareError(f)
  ELSE IF PaginationOverflows(Prepare(f)) THEN "range"
  ELSE "ok"

Page(h, f) ==
  LET options == Prepare(f)
      found == Filtered(h, options, StorageLimit(f, options))
  IN Apply(options, IF Exact(f) THEN ApplyExact(found, f.address) ELSE found)

-----------------------------------------------------------------------------
(* Reads: one storage read lock each                                       *)

Projected(s, disclosure) == [i \in DOMAIN s |-> ProjectEntry(s[i], disclosure)]

Returns(r) ==
  /\ result = NoResult
  /\ result' = r
  /\ UNCHANGED <<history, pending, export, temp, file>>

\* The storage cannot be read, or what it holds not be projected.
ReadFails == Returns(Failure("storage"))

History(f, disclosure) ==
  Returns(IF FilterError(f) # "ok"
          THEN [kind |-> "refused", filter |-> f, error |-> FilterError(f)]
          ELSE [kind |-> "page", filter |-> f, disclosure |-> disclosure,
                entries |-> Projected(Page(history, f), disclosure)])

GetHistoryCount == Returns([kind |-> "count", count |-> Len(history)])

GetTransactionByHash(hash, disclosure) ==
  LET HasHash(tx) == tx.hash = hash
      i == SelectInSeq(history, HasHash)
  IN Returns(IF hash = BadHash THEN Failure("hash")
             ELSE IF i = 0 THEN Failure("notFound")
             ELSE [kind |-> "entry", disclosure |-> disclosure, of |-> history[i],
                   entry |-> ProjectEntry(history[i], disclosure)])

GetPendingByHash(hash, disclosure) ==
  LET HasHash(tx) == tx.hash = hash
      i == SelectInSeq(pending, HasHash)
  IN Returns(IF hash = BadHash THEN Failure("hash")
             ELSE IF i = 0 THEN Failure("notFound")
             ELSE [kind |-> "entry", disclosure |-> disclosure, of |-> pending[i],
                   entry |-> ProjectPending(pending[i], disclosure)])

GetPendingTransactions(disclosure) ==
  Returns([kind |-> "pending", entries |->
             [i \in DOMAIN pending |-> ProjectPending(pending[i], disclosure)]])

Looked ==
  /\ result # NoResult
  /\ result' = NoResult
  /\ UNCHANGED <<history, pending, export, temp, file>>

-----------------------------------------------------------------------------
(* The CSV export                                                          *)

Quietly == result = NoResult /\ UNCHANGED result

EndExport == export' = NoExport /\ temp' = NoFile   \* NamedTempFile::drop

\* create_temporary_csv_file, next to the destination; it may fail.
BeginExport(f) ==
  /\ export.pc = "idle" /\ temp = NoFile
  /\ export' = [pc |-> "created", filter |-> f, rows |-> <<>>]
  /\ temp' = [rows |-> <<>>, durable |-> 0]
  /\ Quietly /\ UNCHANGED <<history, pending, file>>

\* export_csv_transactions takes the storage lock, filters and keeps the lock
\* while it writes; nothing to export is an error.
ReadRows ==
  /\ export.pc = "created"
  /\ IF FilterError(export.filter) # "ok" \/ Page(history, export.filter) = <<>>
       THEN EndExport
       ELSE /\ export' = [export EXCEPT !.pc = "writing",
                            !.rows = Page(history, export.filter)]
            /\ UNCHANGED temp
  /\ Quietly /\ UNCHANGED <<history, pending, file>>

WriteRow ==
  /\ export.pc = "writing" /\ Len(temp.rows) < Len(export.rows)
  /\ temp' = [temp EXCEPT !.rows = Append(@, export.rows[Len(@) + 1].hash)]
  /\ Quietly /\ UNCHANGED <<history, pending, export, file>>

Written == Len(temp.rows) = Len(export.rows)

\* Mutant: the file is put in place without being synced.
SyncAll_Skipped(f) == f

\* External: File::sync_all leaves every row on disk.
SyncAll(f) == [f EXCEPT !.durable = Len(f.rows)]

\* persist_csv_file: sync ...
Sync ==
  /\ export.pc = "writing" /\ Written
  /\ export' = [export EXCEPT !.pc = "synced"]
  /\ temp' = SyncAll(temp)
  /\ Quietly /\ UNCHANGED <<history, pending, file>>

\* ... and replace the destination in one step.
Persist ==
  /\ export.pc = "synced"
  /\ file' = [content |-> temp, filter |-> export.filter]
  /\ EndExport
  /\ Quietly /\ UNCHANGED <<history, pending>>

\* A failure of any of these steps, or the call's future dropped at an await.
ExportFails ==
  /\ export.pc # "idle"
  /\ EndExport
  /\ Quietly /\ UNCHANGED <<history, pending, file>>

\* The system goes down: a file keeps the rows that are on disk and perhaps some
\* of the others.  A temporary file may stay behind and is never read again.
Crash ==
  /\ export' = NoExport
  /\ temp' = NoFile
  /\ IF file = NoFile THEN UNCHANGED file
     ELSE \E n \in file.content.durable..Len(file.content.rows) :
            file' = [file EXCEPT !.content = [rows |-> SubSeq(@.rows, 1, n), durable |-> n]]
  /\ Quietly /\ UNCHANGED <<history, pending>>

-----------------------------------------------------------------------------
(* The wallet, external: it stores under the write lock                    *)

Unlocked == export.pc # "writing"

\* The storage holds a transaction under its hash.
IsStored(tx) == \E i \in DOMAIN history : history[i].hash = tx.hash

Store(tx) ==
  /\ Unlocked /\ ~IsStored(tx) /\ Len(history) < MaxHistory
  /\ history' = Append(history, tx)
  /\ pending' = SelectSeq(pending, LAMBDA p : p.hash # tx.hash)
  /\ Quietly /\ UNCHANGED <<export, temp, file>>

Send(tx) ==
  /\ Unlocked /\ ~IsStored(tx) /\ Len(pending) = 0
  /\ pending' = <<tx>>
  /\ Quietly /\ UNCHANGED <<history, export, temp, file>>

Next ==
  \/ \E f \in Filter, d \in Disclosure : History(f, d)
  \/ \E hash \in {tx.hash : tx \in Stored} \cup {BadHash}, d \in Disclosure :
       GetTransactionByHash(hash, d) \/ GetPendingByHash(hash, d)
  \/ \E d \in Disclosure : GetPendingTransactions(d)
  \/ GetHistoryCount \/ ReadFails \/ Looked
  \/ \E f \in ExportFilter : BeginExport(f)
  \/ ReadRows \/ WriteRow \/ Sync \/ Persist \/ ExportFails \/ Crash
  \/ \E tx \in Stored : Store(tx) \/ Send(tx)

Spec == Init /\ [][Next]_vars

-----------------------------------------------------------------------------
(* Properties                                                              *)

\* What a filter asks for, said without storage, prefixes and two passes: the
\* transactions in order, each with the transfers that match.
AskedTransfers(tx, f) ==
  LET Wanted(t) ==
        /\ f.asset # NoAsset => t.asset = f.asset
        /\ f.address # NoAddress /\ tx.entry.type = "Outgoing" =>
             t.destination = f.address.key
        /\ Exact(f) => \E i \in DOMAIN t.extra : t.extra[i].data = f.address.data
  IN [tx EXCEPT !.entry.transfers = SelectSeq(@, Wanted)]

\* The counterparty of a standard address is the sender, a destination or a
\* participant; an integrated address is a destination of a transfer.
Asked(tx, f) ==
  LET type == tx.entry.type IN
  /\ Category(tx) \in f.accept
  /\ f.max_topoheight = MaxTopoheight \/ tx.topoheight <= f.max_topoheight
  /\ type \in TransferTypes => AskedTransfers(tx, f).entry.transfers # <<>>
  /\ f.asset # NoAsset =>
       type \notin BlobTypes /\ (type \in {"Coinbase", "Burn"} => tx.entry.asset = f.asset)
  /\ f.address # NoAddress =>
       \/ type = "Outgoing"
       \/ type = "Incoming" /\ f.address.key = (IF Exact(f) THEN Own ELSE tx.from)
       \/ type = "Multisig" /\ ~Exact(f) /\ f.address.key \in tx.entry.participants

\* A filter that has no page: the end of the page is no usize, or a field of the
\* filter is no value of its type.
Unanswerable(f) ==
  \/ f.page = 0 \/ f.limit = 0
  \/ f.address # NoAddress /\ ~f.address.valid
  \/ f.asset = BadHash
  \/ f.limit # NoLimit /\ f.page * f.limit > MaxUsize

\* A filter is refused exactly when it has no page.  Otherwise its page is a slice
\* of all the transactions the filter asks for, with the transfers it asks for:
\* pages do not overlap, leave nothing out and are full except the last, also when
\* an integrated address is matched after the storage has filtered.
PageIsSlice ==
  /\ result.kind = "refused" => Unanswerable(result.filter)
  /\ result.kind = "page" =>
       LET f == result.filter
           In(tx) == Asked(tx, f)
           all == SelectSeq(history, In)
           first == IF f.limit = NoLimit THEN 1 ELSE (f.page - 1) * f.limit + 1
           last == IF f.limit = NoLimit \/ Len(all) < f.page * f.limit
                     THEN Len(all) ELSE f.page * f.limit
           slice == SubSeq(all, first, last)
       IN /\ ~Unanswerable(f)
          /\ result.entries = [i \in DOMAIN slice |->
               ProjectEntry(AskedTransfers(slice[i], f), result.disclosure)]

\* The destination of an export is never a partial file: it is absent, or holds
\* every row its filter asks for of the history at one moment, whatever failed
\* since, and also after a crash that loses what was not synced.
FileWhole ==
  file # NoFile =>
    \E n \in 1..Len(history) :
      LET page == Page(SubSeq(history, 1, n), file.filter) IN
      /\ page # <<>>
      /\ file.content.rows = [i \in DOMAIN page |-> page[i].hash]

=============================================================================
