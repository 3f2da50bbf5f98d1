---------------------------- MODULE WalletAssets ----------------------------
(***************************************************************************)
(* Asset metadata and balances: unknown assets are fetched from the daemon *)
(* under a resolution lock and stored, balances are read asset by asset    *)
(* under one storage read lock, and assets are tracked and untracked while *)
(* the wallet synchronises.                                                *)
(***************************************************************************)
EXTENDS Naturals, FiniteSets

CONSTANTS
  Asset, Xelis,    \* assets, and the native one
  BadHash,         \* a text that is no asset hash
  Call,            \* overlapping calls
  NoCall,
  MaxBalance       \* bound on balances

ASSUME ConstantsAssumption ==
  /\ Xelis \in Asset /\ BadHash \notin Asset
  /\ NoCall \notin Call
  /\ MaxBalance \in Nat

VARIABLES
  known,       \* assets whose metadata is stored
  tracked,     \* tracked assets
  balance,     \* stored balances; NoBalance if there is none
  online,      \* the wallet has a network handler
  resolution,  \* the call that holds asset_resolution
  call,        \* the calls
  persisted    \* how often resolution has stored each asset

vars == <<known, tracked, balance, online, resolution, call, persisted>>

NoBalance == MaxBalance + 1
Idle(outcome) == [pc |-> "idle", asset |-> Xelis, todo |-> {}, read |-> <<>>,
                  outcome |-> outcome]

Init ==
  /\ known = {Xelis}
  /\ tracked = {Xelis}
  /\ balance = [a \in Asset |-> NoBalance]
  /\ online \in BOOLEAN
  /\ resolution = NoCall
  /\ call = [c \in Call |-> Idle("none")]
  /\ persisted = [a \in Asset |-> 0]

At(c, pc) == call[c].pc = pc
Goto(c, pc) == call' = [call EXCEPT ![c].pc = pc]
Return(c, outcome) == call' = [call EXCEPT ![c] = Idle(outcome)]

storage == <<known, tracked, balance>>

\* Mutant: the balance loop takes the read lock for each asset anew.
Unlocked_PerAsset == TRUE

\* The balance loop holds the storage read lock, which excludes the writers.
Unlocked == \A c \in Call : ~At(c, "balances")

-----------------------------------------------------------------------------
(* get_asset_data, for the decimals, ticker, metadata and formatting calls *)

\* format_coin without a hash means the native asset.
BeginResolve(c, hash) ==
  /\ At(c, "idle")
  /\ IF hash = BadHash THEN Return(c, "InvalidInput")
     ELSE call' = [call EXCEPT ![c] = [Idle("none") EXCEPT !.pc = "looking",
                                                         !.asset = hash]]
  /\ UNCHANGED <<storage, online, resolution, persisted>>

\* A look at the stored assets finds it, fails, or goes on.
Look(c, next) ==
  \/ call[c].asset \in known /\ Return(c, "ok")
  \/ Return(c, "StorageError")
  \/ call[c].asset \notin known /\ Goto(c, next)

FirstLook(c) ==
  /\ At(c, "looking")
  /\ Look(c, "waiting")
  /\ UNCHANGED <<storage, online, resolution, persisted>>

Acquire(c) ==
  /\ At(c, "waiting") /\ resolution = NoCall
  /\ resolution' = c
  /\ Goto(c, "lookingAgain")
  /\ UNCHANGED <<storage, online, persisted>>

\* Mutant: the storage is not consulted again under the lock.
LookAgain_Skipped(c) == Goto(c, "fetching")

\* "Another request may have persisted the asset while this one waited."
LookAgain(c) == Look(c, "fetching")

SecondLook(c) ==
  /\ At(c, "lookingAgain")
  /\ LookAgain(c)
  /\ resolution' = IF call'[c].pc = "idle" THEN NoCall ELSE c
  /\ UNCHANGED <<storage, online, persisted>>

\* The daemon answers, or the wallet is offline, lost its handler, or the
\* request failed.
Fetch(c) ==
  /\ At(c, "fetching")
  /\ \/ online /\ Goto(c, "persisting") /\ UNCHANGED resolution
     \/ Return(c, IF online THEN "NetworkError" ELSE "Offline") /\ resolution' = NoCall
  /\ UNCHANGED <<storage, online, persisted>>

\* The fetched asset is stored under the write lock, or that fails.
PersistAsset(c) ==
  /\ At(c, "persisting") /\ Unlocked
  /\ \/ /\ known' = known \cup {call[c].asset}
        /\ persisted' = [persisted EXCEPT ![call[c].asset] = @ + 1]
        /\ Return(c, "ok")
     \/ UNCHANGED <<known, persisted>> /\ Return(c, "StorageError")
  /\ resolution' = NoCall
  /\ UNCHANGED <<tracked, balance, online>>

\* The future of a resolution is dropped at one of its awaits.
DropResolve(c) ==
  /\ call[c].pc \in {"looking", "waiting", "lookingAgain", "fetching", "persisting"}
  /\ Return(c, "dropped")
  /\ resolution' = IF resolution = c THEN NoCall ELSE resolution
  /\ UNCHANGED <<storage, online, persisted>>

-----------------------------------------------------------------------------
(* Balances                                                                *)

BalanceOf(a) == IF balance[a] = NoBalance THEN 0 ELSE balance[a]

\* get_tracked_balances takes the storage read lock for the whole loop.
BeginBalances(c) ==
  /\ At(c, "idle")
  /\ call' = [call EXCEPT ![c] = [Idle("none") EXCEPT !.pc = "balances",
                                                     !.todo = tracked]]
  /\ UNCHANGED <<storage, online, resolution, persisted>>

ReadBalance(c, a) ==
  /\ At(c, "balances") /\ a \in call[c].todo
  /\ call' = [call EXCEPT ![c].todo = @ \ {a},
                          ![c].read = [b \in DOMAIN @ \cup {a} |->
                                         IF b = a THEN BalanceOf(a) ELSE @[b]]]
  /\ UNCHANGED <<storage, online, resolution, persisted>>

EndBalances(c) ==
  /\ At(c, "balances")
  /\ \/ call[c].todo = {} /\ Return(c, "ok")
     \/ Return(c, "StorageError")
  /\ UNCHANGED <<storage, online, resolution, persisted>>

\* get_xelis_balance, has_asset_balance and get_known_assets: one read each.
ReadOnce(c) ==
  /\ At(c, "idle")
  /\ Return(c, "ok") \/ Return(c, "StorageError")
  /\ UNCHANGED <<storage, online, resolution, persisted>>

\* track_asset and untrack_asset answer whether they changed anything, or fail on
\* the hash or in the storage.
TrackFails(c, hash) ==
  /\ At(c, "idle")
  /\ Return(c, IF hash = BadHash THEN "InvalidInput" ELSE "StorageError")
  /\ UNCHANGED <<storage, online, resolution, persisted>>

Track(c, a) ==
  /\ At(c, "idle") /\ Unlocked
  /\ tracked' = tracked \cup {a}
  /\ Return(c, IF a \in tracked THEN "false" ELSE "true")
  /\ UNCHANGED <<known, balance, online, resolution, persisted>>

Untrack(c, a) ==
  /\ At(c, "idle") /\ Unlocked
  /\ tracked' = tracked \ {a}
  /\ Return(c, IF a \in tracked THEN "true" ELSE "false")
  /\ UNCHANGED <<known, balance, online, resolution, persisted>>

-----------------------------------------------------------------------------
(* The wallet, external                                                    *)

\* Synchronisation moves value between assets in one write.
SyncBalances(a, b, x, y) ==
  /\ Unlocked /\ a # b
  /\ balance' = [balance EXCEPT ![a] = x, ![b] = y]
  /\ UNCHANGED <<known, tracked, online, resolution, call, persisted>>

Reconnect ==
  /\ online' = ~online
  /\ UNCHANGED <<storage, resolution, call, persisted>>

Next ==
  \/ \E c \in Call :
       \/ \E hash \in Asset \cup {BadHash} : BeginResolve(c, hash) \/ TrackFails(c, hash)
       \/ FirstLook(c) \/ Acquire(c) \/ SecondLook(c) \/ Fetch(c)
       \/ PersistAsset(c) \/ DropResolve(c)
       \/ BeginBalances(c) \/ EndBalances(c) \/ ReadOnce(c)
       \/ \E a \in Asset : ReadBalance(c, a) \/ Track(c, a) \/ Untrack(c, a)
  \/ \E a, b \in Asset, x, y \in 0..MaxBalance : SyncBalances(a, b, x, y)
  \/ Reconnect

Spec == Init /\ [][Next]_vars

-----------------------------------------------------------------------------
(* Properties                                                              *)

Fetching(c) == call[c].pc \in {"fetching", "persisting"}

\* However many calls ask for an unknown asset at once, it is stored at most once:
\* one call at a time asks the daemon and stores the answer, and none does for an
\* asset that another has stored meanwhile.
ResolvedOnce ==
  /\ \A a \in Asset : persisted[a] <= 1
  /\ \A c \in Call : Fetching(c) =>
       call[c].asset \notin known /\ \A d \in Call : Fetching(d) => d = c

\* The balances a call has read so far belong to one moment, which is still
\* now: none of them changed under the loop, and no tracked asset is missing
\* when it ends.
BalancesSnapshot ==
  \A c \in Call : At(c, "balances") =>
    /\ DOMAIN call[c].read \cup call[c].todo = tracked
    /\ \A a \in DOMAIN call[c].read : call[c].read[a] = BalanceOf(a)

=============================================================================
