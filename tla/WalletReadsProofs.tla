------------------------- MODULE WalletReadsProofs --------------------------
(***************************************************************************)
(* An asset is stored once and balances are read at one moment, for every  *)
(* set of assets and calls and every bound on balances; the newest log or  *)
(* progress stream is served, and only with what the one configuration of  *)
(* the process admits, for any number of streams and emitting threads.     *)
(*                                                                         *)
(* ResolvedOnce is not inductive: it does not say that what is unknown was *)
(* never stored, nor that a call on its second look holds the resolution   *)
(* lock, so that nobody stores meanwhile (Resolving).  StreamsSound is     *)
(* not either: whether a record on its way was admitted depends on how far *)
(* init_logger was when it was logged (ConfigurationFaithful).             *)
(***************************************************************************)
EXTENDS WalletReads, TLAPS

Location == {"idle", "looking", "waiting", "lookingAgain", "fetching",
             "persisting", "balances"}
Outcome == {"none", "ok", "InvalidInput", "StorageError", "NetworkError",
            "Offline", "dropped", "true", "false"}

\* The balances read so far.
Reading == UNION {[S -> 0 .. MaxBalance] : S \in SUBSET Asset}

CallRecord == [pc : Location, asset : Asset, todo : SUBSET Asset,
               read : Reading, outcome : Outcome]

TypeOK ==
  /\ known \subseteq Asset
  /\ tracked \subseteq Asset
  /\ balance \in [Asset -> 0 .. NoBalance]
  /\ resolution \in Call \cup {NoCall}
  /\ call \in [Call -> CallRecord]
  /\ persisted \in [Asset -> Nat]

\* What a call that resolves an asset has and knows.
Resolving(c) ==
  /\ call[c].pc \in {"lookingAgain", "fetching", "persisting"} => resolution = c
  /\ call[c].pc \in {"fetching", "persisting"} => call[c].asset \notin known

\* Whatever is unknown has never been stored.
Stored == \A a \in Asset : a \notin known => persisted[a] = 0

StoredOnce == \A a \in Asset : persisted[a] <= 1

IInv ==
  /\ TypeOK
  /\ \A c \in Call : Resolving(c)
  /\ Stored
  /\ StoredOnce
  /\ BalancesSnapshot

-----------------------------------------------------------------------------

\* Nothing has been read by a call that is not reading balances.
LEMMA IdleType ==
  ASSUME NEW outcome \in Outcome
  PROVE  Idle(outcome) \in CallRecord /\ Idle(outcome).pc = "idle"
<1>1. <<>> \in [{} -> 0 .. MaxBalance]
  OBVIOUS
<1>2. <<>> \in Reading
  BY <1>1 DEF Reading
<1>. QED BY <1>2, ConstantsAssumption DEF Idle, CallRecord, Location

LEMMA InitIInv == Init => IInv
<1>. SUFFICES ASSUME Init PROVE IInv
  OBVIOUS
<1>1. \A c \in Call : call[c] \in CallRecord /\ call[c].pc = "idle"
  BY IdleType DEF Init, Outcome
<1>2. TypeOK
  BY <1>1, ConstantsAssumption DEF Init, TypeOK, NoBalance
<1>3. \A c \in Call : Resolving(c)
  BY <1>1 DEF Resolving
<1>4. Stored /\ StoredOnce
  BY DEF Init, Stored, StoredOnce
<1>5. BalancesSnapshot
  BY <1>1 DEF BalancesSnapshot, At
<1>. QED BY <1>2, <1>3, <1>4, <1>5 DEF IInv

\* A step of one call that stores nothing: what it must show of itself.
LEMMA CallStep ==
  ASSUME IInv, NEW c \in Call, NEW r \in CallRecord,
         call' = [call EXCEPT ![c] = r],
         UNCHANGED <<known, tracked, balance, persisted>>,
         resolution' \in Call \cup {NoCall},
         \A d \in Call \ {c} : resolution = d => resolution' = d,
         r.pc \in {"lookingAgain", "fetching", "persisting"} => resolution' = c,
         r.pc \in {"fetching", "persisting"} => r.asset \notin known,
         r.pc = "balances" =>
           /\ DOMAIN r.read \cup r.todo = tracked
           /\ \A a \in DOMAIN r.read : r.read[a] = BalanceOf(a)
  PROVE  IInv'
<1>1. /\ call' \in [Call -> CallRecord]
      /\ call'[c] = r
      /\ \A d \in Call \ {c} : call'[d] = call[d]
  BY DEF IInv, TypeOK
<1>2. TypeOK'
  BY <1>1 DEF IInv, TypeOK, NoBalance
<1>3. ASSUME NEW d \in Call PROVE Resolving(d)'
  BY <1>1 DEF IInv, Resolving
<1>4. Stored' /\ StoredOnce'
  BY DEF IInv, Stored, StoredOnce
<1>5. \A a : BalanceOf(a)' = BalanceOf(a)
  BY DEF BalanceOf, NoBalance
<1>6. ASSUME NEW d \in Call, At(d, "balances")'
      PROVE  /\ DOMAIN call'[d].read \cup call'[d].todo = tracked'
             /\ \A a \in DOMAIN call'[d].read : call'[d].read[a] = BalanceOf(a)'
  <2>1. CASE d = c
    BY <1>1, <1>5, <1>6, <2>1 DEF At
  <2>2. CASE d # c
    BY <1>1, <1>5, <1>6, <2>2 DEF At, IInv, BalancesSnapshot
  <2>. QED BY <2>1, <2>2
<1>7. BalancesSnapshot'
  BY <1>6 DEF BalancesSnapshot
<1>. QED BY <1>2, <1>3, <1>4, <1>7 DEF IInv

\* The same for a call that returns.
LEMMA ReturnStep ==
  ASSUME IInv, NEW c \in Call, NEW outcome \in Outcome, Return(c, outcome),
         UNCHANGED <<known, tracked, balance, persisted>>,
         resolution' \in Call \cup {NoCall},
         \A d \in Call \ {c} : resolution = d => resolution' = d
  PROVE  IInv'
BY IdleType, CallStep, Zenon DEF Return

\* A call that moves on with everything it has.
LEMMA GotoType ==
  ASSUME IInv, NEW c \in Call, NEW pc \in Location, Goto(c, pc)
  PROVE  \E r \in CallRecord :
           /\ call' = [call EXCEPT ![c] = r]
           /\ r.pc = pc /\ r.asset = call[c].asset
<1>. DEFINE r == [call[c] EXCEPT !.pc = pc]
<1>1. call[c] \in CallRecord
  BY DEF IInv, TypeOK
<1>2. r \in CallRecord /\ r.pc = pc /\ r.asset = call[c].asset
  BY <1>1 DEF CallRecord
<1>3. call' = [call EXCEPT ![c] = r]
  BY DEF Goto
<1>. QED BY <1>2, <1>3, Zenon

-----------------------------------------------------------------------------
(* One lemma per kind of action                                            *)

LEMMA BeginResolveStep ==
  ASSUME IInv, NEW c \in Call, NEW hash \in Asset \cup {BadHash}, BeginResolve(c, hash)
  PROVE  IInv'
<1>1. UNCHANGED <<known, tracked, balance, persisted, resolution>>
  BY DEF BeginResolve, storage
<1>2. resolution' \in Call \cup {NoCall}
  BY <1>1 DEF IInv, TypeOK
<1>3. CASE hash = BadHash
  BY <1>1, <1>2, <1>3, ReturnStep DEF BeginResolve, Outcome
<1>4. CASE hash # BadHash
  <2>. DEFINE r == [Idle("none") EXCEPT !.pc = "looking", !.asset = hash]
  <2>1. r \in CallRecord /\ r.pc = "looking"
    BY <1>4, IdleType, Zenon DEF CallRecord, Location, Outcome
  <2>2. call' = [call EXCEPT ![c] = r]
    BY <1>4 DEF BeginResolve
  <2>. HIDE DEF r
  <2>. QED BY <1>1, <1>2, <2>1, <2>2, CallStep, Zenon
<1>. QED BY <1>3, <1>4

\* Looking, first without and then with the lock.
LEMMA LookStep ==
  ASSUME IInv, NEW c \in Call, FirstLook(c) \/ SecondLook(c)
  PROVE  IInv'
<1>1. UNCHANGED <<known, tracked, balance, persisted>>
  BY DEF FirstLook, SecondLook, storage
<1>2. /\ resolution' \in Call \cup {NoCall}
      /\ \A d \in Call \ {c} : resolution = d => resolution' = d
  BY DEF FirstLook, SecondLook, At, IInv, TypeOK, Resolving
<1>3. CASE \E outcome \in Outcome : Return(c, outcome)
  BY <1>1, <1>2, <1>3, ReturnStep
<1>4. CASE FirstLook(c) /\ Goto(c, "waiting")
  <2>1. PICK r \in CallRecord : call' = [call EXCEPT ![c] = r] /\ r.pc = "waiting"
    BY <1>4, GotoType DEF Location
  <2>. QED BY <1>1, <1>2, <2>1, CallStep, Zenon
<1>5. CASE SecondLook(c) /\ call[c].asset \notin known /\ Goto(c, "fetching")
  <2>1. PICK r \in CallRecord : /\ call' = [call EXCEPT ![c] = r]
                                /\ r.pc = "fetching" /\ r.asset = call[c].asset
    BY <1>5, GotoType DEF Location
  <2>2. call'[c].pc = "fetching"
    BY <2>1 DEF IInv, TypeOK
  <2>3. resolution' = c
    BY <1>5, <2>2 DEF SecondLook
  <2>. QED BY <1>1, <1>2, <1>5, <2>1, <2>3, CallStep, Zenon
<1>. QED BY <1>3, <1>4, <1>5 DEF FirstLook, SecondLook, LookAgain, Look, Outcome

LEMMA AcquireStep ==
  ASSUME IInv, NEW c \in Call, Acquire(c)
  PROVE  IInv'
<1>1. /\ UNCHANGED <<known, tracked, balance, persisted>>
      /\ resolution = NoCall /\ resolution' = c
  BY DEF Acquire, storage
<1>2. PICK r \in CallRecord : call' = [call EXCEPT ![c] = r] /\ r.pc = "lookingAgain"
  BY GotoType DEF Acquire, Location
<1>. QED BY <1>1, <1>2, CallStep, ConstantsAssumption, Zenon

LEMMA FetchStep ==
  ASSUME IInv, NEW c \in Call, Fetch(c)
  PROVE  IInv'
<1>1. /\ UNCHANGED <<known, tracked, balance, persisted>>
      /\ resolution = c /\ call[c].asset \notin known
  BY DEF Fetch, storage, At, IInv, Resolving
<1>2. CASE Goto(c, "persisting") /\ UNCHANGED resolution
  <2>1. PICK r \in CallRecord : /\ call' = [call EXCEPT ![c] = r]
                                /\ r.pc = "persisting" /\ r.asset = call[c].asset
    BY <1>2, GotoType DEF Location
  <2>. QED BY <1>1, <1>2, <2>1, CallStep, Zenon
<1>3. CASE \E outcome \in Outcome : Return(c, outcome) /\ resolution' = NoCall
  BY <1>1, <1>3, ReturnStep
<1>. QED BY <1>2, <1>3 DEF Fetch, Outcome

\* A drop releases the lock if the call holds it.
LEMMA DropResolveStep ==
  ASSUME IInv, NEW c \in Call, DropResolve(c)
  PROVE  IInv'
<1>1. /\ UNCHANGED <<known, tracked, balance, persisted>>
      /\ resolution' \in Call \cup {NoCall}
      /\ \A d \in Call \ {c} : resolution = d => resolution' = d
  BY DEF DropResolve, storage, IInv, TypeOK
<1>. QED BY <1>1, ReturnStep DEF DropResolve, Outcome

\* The only step that stores an asset: its call holds the lock, so no other
\* call counts on the asset being unknown.
LEMMA PersistAssetStep ==
  ASSUME IInv, NEW c \in Call, PersistAsset(c)
  PROVE  IInv'
<1>. DEFINE a == call[c].asset
<1>1. /\ resolution = c /\ a \notin known /\ a \in Asset
      /\ persisted[a] = 0
      /\ \A d \in Call : call[d].pc # "balances"
      /\ UNCHANGED <<tracked, balance>> /\ resolution' = NoCall
  BY DEF PersistAsset, Unlocked, At, IInv, Resolving, TypeOK, CallRecord, Stored
<1>2. CASE UNCHANGED <<known, persisted>> /\ Return(c, "StorageError")
  BY <1>1, <1>2, ReturnStep DEF Outcome
<1>3. CASE /\ known' = known \cup {a}
           /\ persisted' = [persisted EXCEPT ![a] = @ + 1]
           /\ Return(c, "ok")
  <2>1. /\ call' \in [Call -> CallRecord]
        /\ call'[c].pc = "idle"
        /\ \A d \in Call \ {c} : call'[d] = call[d]
    BY <1>3, IdleType DEF Return, IInv, TypeOK, Outcome
  <2>2. /\ persisted' \in [Asset -> Nat]
        /\ persisted'[a] = 1
        /\ \A b \in Asset \ {a} : persisted'[b] = persisted[b]
    BY <1>1, <1>3 DEF IInv, TypeOK
  <2>3. TypeOK'
    BY <1>1, <1>3, <2>1, <2>2 DEF IInv, TypeOK, NoBalance
  <2>4. \A d \in Call : Resolving(d)'
    BY <1>1, <2>1 DEF IInv, Resolving
  <2>5. Stored' /\ StoredOnce'
    BY <1>1, <1>3, <2>2 DEF IInv, Stored, StoredOnce
  <2>6. BalancesSnapshot'
    BY <1>1, <2>1 DEF BalancesSnapshot, At
  <2>. QED BY <2>3, <2>4, <2>5, <2>6 DEF IInv
<1>. QED BY <1>2, <1>3 DEF PersistAsset

LEMMA BeginBalancesStep ==
  ASSUME IInv, NEW c \in Call, BeginBalances(c)
  PROVE  IInv'
<1>. DEFINE r == [Idle("none") EXCEPT !.pc = "balances", !.todo = tracked]
<1>1. /\ UNCHANGED <<known, tracked, balance, persisted, resolution>>
      /\ call' = [call EXCEPT ![c] = r]
  BY DEF BeginBalances, storage
<1>2. r \in CallRecord /\ r.pc = "balances" /\ r.todo = tracked
  BY IdleType, Zenon DEF CallRecord, Location, Outcome, IInv, TypeOK
<1>3. r.read = <<>> /\ DOMAIN r.read = {}
  BY DEF Idle
<1>4. resolution' \in Call \cup {NoCall}
  BY <1>1 DEF IInv, TypeOK
<1>. HIDE DEF r
<1>. QED BY <1>1, <1>2, <1>3, <1>4, CallStep, Zenon

LEMMA ReadBalanceStep ==
  ASSUME IInv, NEW c \in Call, NEW a \in Asset, ReadBalance(c, a)
  PROVE  IInv'
<1>. DEFINE old == call[c]
            reading == [b \in DOMAIN old.read \cup {a} |->
                          IF b = a THEN BalanceOf(a) ELSE old.read[b]]
            r == [old EXCEPT !.todo = old.todo \ {a}, !.read = reading]
<1>1. /\ UNCHANGED <<known, tracked, balance, persisted, resolution>>
      /\ call' = [call EXCEPT ![c] = r]
      /\ old.pc = "balances" /\ a \in old.todo
      /\ old \in CallRecord
  BY Zenon DEF ReadBalance, storage, At, IInv, TypeOK
<1>2. BalanceOf(a) \in 0 .. MaxBalance
  BY ConstantsAssumption DEF BalanceOf, NoBalance, IInv, TypeOK
<1>3. PICK S \in SUBSET Asset : old.read \in [S -> 0 .. MaxBalance]
  BY <1>1 DEF CallRecord, Reading
<1>4. reading \in [S \cup {a} -> 0 .. MaxBalance]
  BY <1>2, <1>3
<1>5. reading \in Reading
  BY <1>4, Zenon DEF Reading
<1>6. /\ r \in CallRecord /\ r.pc = "balances"
      /\ r.todo = old.todo \ {a} /\ r.read = reading
  BY <1>1, <1>5, Zenon DEF CallRecord
<1>7. /\ DOMAIN old.read \cup old.todo = tracked
      /\ \A b \in DOMAIN old.read : old.read[b] = BalanceOf(b)
  BY <1>1 DEF IInv, BalancesSnapshot, At
<1>8. /\ DOMAIN reading = DOMAIN old.read \cup {a}
      /\ \A b \in DOMAIN reading : reading[b] = BalanceOf(b)
  BY <1>7
<1>9. DOMAIN r.read \cup r.todo = tracked
  BY <1>1, <1>6, <1>7, <1>8
<1>10. resolution' \in Call \cup {NoCall}
  BY <1>1 DEF IInv, TypeOK
<1>11. \A b \in DOMAIN r.read : r.read[b] = BalanceOf(b)
  BY <1>6, <1>8
<1>. HIDE DEF r
<1>. QED BY <1>1, <1>6, <1>9, <1>10, <1>11, CallStep, Zenon

\* Calls that end, or are one read.
LEMMA ReadOnlyStep ==
  ASSUME IInv, NEW c \in Call, NEW hash \in Asset \cup {BadHash},
         EndBalances(c) \/ ReadOnce(c) \/ TrackFails(c, hash)
  PROVE  IInv'
<1>1. /\ UNCHANGED <<known, tracked, balance, persisted, resolution>>
      /\ \E outcome \in Outcome : Return(c, outcome)
  BY DEF EndBalances, ReadOnce, TrackFails, storage, Outcome
<1>2. resolution' \in Call \cup {NoCall}
  BY <1>1 DEF IInv, TypeOK
<1>. QED BY <1>1, <1>2, ReturnStep

\* A writer of the tracked assets finds nobody reading balances.
LEMMA TrackStep ==
  ASSUME IInv, NEW c \in Call, NEW a \in Asset, Track(c, a) \/ Untrack(c, a)
  PROVE  IInv'
<1>1. /\ UNCHANGED <<known, balance, persisted, resolution>>
      /\ tracked' \subseteq Asset
      /\ \A d \in Call : call[d].pc # "balances"
      /\ \E outcome \in Outcome : Return(c, outcome)
  BY DEF Track, Untrack, Unlocked, At, IInv, TypeOK, Outcome
<1>2. /\ call' \in [Call -> CallRecord]
      /\ call'[c].pc = "idle"
      /\ \A d \in Call \ {c} : call'[d] = call[d]
  BY <1>1, IdleType DEF Return, IInv, TypeOK
<1>3. TypeOK'
  BY <1>1, <1>2 DEF IInv, TypeOK, NoBalance
<1>4. \A d \in Call : Resolving(d)'
  BY <1>1, <1>2 DEF IInv, Resolving
<1>5. Stored' /\ StoredOnce'
  BY <1>1 DEF IInv, Stored, StoredOnce
<1>6. BalancesSnapshot'
  BY <1>1, <1>2 DEF BalancesSnapshot, At
<1>. QED BY <1>3, <1>4, <1>5, <1>6 DEF IInv

\* So does the synchronisation.
LEMMA SyncBalancesStep ==
  ASSUME IInv, NEW a \in Asset, NEW b \in Asset,
         NEW x \in 0 .. MaxBalance, NEW y \in 0 .. MaxBalance,
         SyncBalances(a, b, x, y)
  PROVE  IInv'
<1>1. /\ UNCHANGED <<known, tracked, persisted, resolution, call>>
      /\ \A d \in Call : call[d].pc # "balances"
      /\ balance' = [balance EXCEPT ![a] = x, ![b] = y]
  BY DEF SyncBalances, Unlocked, At
<1>2. balance' \in [Asset -> 0 .. NoBalance]
  BY <1>1, ConstantsAssumption DEF IInv, TypeOK, NoBalance
<1>3. TypeOK'
  BY <1>1, <1>2 DEF IInv, TypeOK, NoBalance
<1>4. (\A d \in Call : Resolving(d)') /\ Stored' /\ StoredOnce'
  BY <1>1 DEF IInv, Resolving, Stored, StoredOnce
<1>5. BalancesSnapshot'
  BY <1>1 DEF BalancesSnapshot, At
<1>. QED BY <1>3, <1>4, <1>5 DEF IInv

\* Nothing but the connection changes, or nothing at all.
LEMMA StutterStep ==
  ASSUME IInv, UNCHANGED <<known, tracked, balance, resolution, call, persisted>>
  PROVE  IInv'
BY DEF IInv, TypeOK, NoBalance, Resolving, Stored, StoredOnce, BalancesSnapshot,
       At, BalanceOf

LEMMA NextIInv == IInv /\ [Next]_vars => IInv'
<1>. SUFFICES ASSUME IInv, [Next]_vars PROVE IInv'
  OBVIOUS
<1>1. CASE UNCHANGED vars \/ Reconnect
  BY <1>1, StutterStep DEF vars, Reconnect, storage
<1>2. ASSUME NEW c \in Call,
             \/ \E hash \in Asset \cup {BadHash} :
                  BeginResolve(c, hash) \/ TrackFails(c, hash)
             \/ FirstLook(c) \/ Acquire(c) \/ SecondLook(c) \/ Fetch(c)
             \/ PersistAsset(c) \/ DropResolve(c)
      PROVE  IInv'
  BY <1>2, BeginResolveStep, LookStep, AcquireStep, FetchStep, PersistAssetStep,
     DropResolveStep, ReadOnlyStep
<1>3. ASSUME NEW c \in Call,
             \/ BeginBalances(c) \/ EndBalances(c) \/ ReadOnce(c)
             \/ \E a \in Asset : ReadBalance(c, a) \/ Track(c, a) \/ Untrack(c, a)
      PROVE  IInv'
  BY <1>3, BeginBalancesStep, ReadBalanceStep, ReadOnlyStep, TrackStep
<1>4. CASE \E a, b \in Asset, x, y \in 0..MaxBalance : SyncBalances(a, b, x, y)
  BY <1>4, SyncBalancesStep
<1>. QED BY <1>1, <1>2, <1>3, <1>4 DEF Next

-----------------------------------------------------------------------------

\* However many calls resolve the same unknown asset at once, the second look
\* under asset_resolution keeps it from being stored twice.
THEOREM AssetsResolveOnce == Spec => []ResolvedOnce
<1>1. IInv => ResolvedOnce
  BY DEF IInv, ResolvedOnce, StoredOnce, Resolving, Fetching
<1>. QED BY <1>1, InitIInv, NextIInv, PTL DEF Spec

\* The balances get_tracked_balances collects under one storage read lock are
\* those of one moment, and of every tracked asset.
THEOREM BalancesAreSnapshot == Spec => []BalancesSnapshot
<1>1. IInv => BalancesSnapshot
  BY DEF IInv
<1>. QED BY <1>1, InitIInv, NextIInv, PTL DEF Spec

-----------------------------------------------------------------------------
(* The log and progress streams                                            *)

EmitterRecord == [pc : {"idle", "level", "clone", "add", "failed"},
                  channel : Streams!Channel, record : Streams!Record \cup {Streams!Report},
                  scope : Streams!Scope, sink : Sink \cup {NoSink}]

\* How far init_logger is, and what it has stored.
ConfigurationFaithful ==
  /\ init.pc = "idle" => init = Streams!NoInit
  /\ init.pc # "idle" => configuration = Streams!NoConfiguration /\ init.requested \in Streams!Configuration
  /\ init.pc = "setLogger" => scope = "Standard" /\ max_level = 0
  /\ init.pc \in {"storeScope", "setMaxLevel", "configured"} => logger = "dart"
  /\ logger = "dart" => /\ init.pc # "setLogger"
                        /\ init = Streams!NoInit => configuration # Streams!NoConfiguration
  /\ scope \in {"Standard", Streams!Requested.scope}
  /\ max_level \in {0, Streams!Requested.minimum_level}

\* A log record on its way was logged by our logger and admitted as requested.
EmitterFaithful(e) ==
  /\ emitter[e].pc # "idle" /\ emitter[e].record # Streams!Report =>
       /\ logger = "dart"
       /\ emitter[e].scope \in {"Standard", Streams!Requested.scope}
       /\ emitter[e].pc # "level" =>
            Streams!Accepts(emitter[e].record, Streams!Requested.scope, Streams!Requested.minimum_level)
  /\ emitter[e].pc = "level" => emitter[e].record # Streams!Report
  /\ emitter[e].pc = "failed" => emitter[e].sink \notin listening

ForwardedFaithful == forwarded # Streams!Report => logger = "dart" /\ Streams!OnlyConfigured

StreamsIInv ==
  /\ Streams!TypeOK
  /\ ConfigurationFaithful
  /\ \A e \in Emitter : EmitterFaithful(e)
  /\ ForwardedFaithful
  /\ Streams!LatestSinkServed

LEMMA StreamsInit ==
  ASSUME Streams!Init
  PROVE  StreamsIInv
<1>1. Streams!NoInit.pc = "idle" /\ Streams!Requested = Streams!NoConfiguration
  BY DEF Streams!Init, Streams!NoInit, Streams!Requested
<1>2. Streams!TypeOK
  BY StreamsAssumption DEF Streams!ConstantsAssumption, Streams!Init, Streams!TypeOK,
     Streams!NoInit, Streams!Quiet, Streams!Channel, Streams!Scope
<1>3. ConfigurationFaithful
  BY <1>1 DEF Streams!Init, ConfigurationFaithful, Streams!NoConfiguration
<1>4. \A e \in Emitter : EmitterFaithful(e)
  BY DEF Streams!Init, EmitterFaithful, Streams!Quiet
<1>5. ForwardedFaithful /\ Streams!LatestSinkServed
  BY DEF Streams!Init, ForwardedFaithful, Streams!LatestSinkServed
<1>. QED BY <1>2, <1>3, <1>4, <1>5 DEF StreamsIInv

\* A step of init_logger: once our logger is installed, what was requested does
\* not change any more, in whichever variable it is.
LEMMA ConfigurationStep ==
  ASSUME StreamsIInv, UNCHANGED Streams!streamVars,
         logger = "dart" => logger' = "dart" /\ Streams!Requested' = Streams!Requested,
         ConfigurationFaithful',
         Streams!TypeOK'
  PROVE  StreamsIInv'
<1>1. UNCHANGED <<sink, listening, emitter, created, forwarded>>
  BY DEF Streams!streamVars
<1>2. \A e \in Emitter : EmitterFaithful(e)'
  BY <1>1 DEF StreamsIInv, EmitterFaithful, Streams!Accepts
<1>3. ForwardedFaithful'
  BY <1>1 DEF StreamsIInv, ForwardedFaithful, Streams!OnlyConfigured, Streams!Accepts
<1>4. Streams!LatestSinkServed'
  BY <1>1 DEF StreamsIInv, Streams!LatestSinkServed
<1>. QED BY <1>2, <1>3, <1>4 DEF StreamsIInv

LEMMA BeginInitInv ==
  ASSUME StreamsIInv, NEW requested \in Streams!Configuration, Streams!BeginInit(requested)
  PROVE  StreamsIInv'
<1>1. /\ init' = [pc |-> "setLogger", requested |-> requested]
      /\ init'.pc = "setLogger" /\ init'.requested = requested
      /\ UNCHANGED <<configuration, logger, scope, max_level>>
      /\ UNCHANGED <<sink, listening, emitter, created, forwarded>>
      /\ init = Streams!NoInit /\ configuration = Streams!NoConfiguration
  BY DEF Streams!BeginInit, Streams!streamVars
<1>2. logger # "dart"
  BY <1>1 DEF StreamsIInv, ConfigurationFaithful
<1>3. scope = "Standard" /\ max_level = 0
  BY <1>1 DEF StreamsIInv, ConfigurationFaithful, Streams!Requested, Streams!NoConfiguration
<1>4. Streams!TypeOK'
  BY <1>1 DEF StreamsIInv, Streams!TypeOK
<1>5. ConfigurationFaithful'
  BY <1>1, <1>2, <1>3 DEF ConfigurationFaithful
<1>. QED BY <1>2, <1>4, <1>5, ConfigurationStep DEF Streams!BeginInit

LEMMA SetLoggerInv ==
  ASSUME StreamsIInv, Streams!SetLogger
  PROVE  StreamsIInv'
<1>1. /\ init.pc = "setLogger" /\ logger # "dart"
      /\ UNCHANGED <<configuration, scope, max_level>>
      /\ UNCHANGED <<sink, listening, emitter, created, forwarded>>
      /\ configuration = Streams!NoConfiguration /\ init.requested \in Streams!Configuration
      /\ init # Streams!NoInit
  BY DEF Streams!SetLogger, Streams!streamVars, StreamsIInv, ConfigurationFaithful,
     Streams!NoInit
<1>2. scope = "Standard" /\ max_level = 0
  BY <1>1 DEF StreamsIInv, ConfigurationFaithful
<1>3. CASE logger = "none"
  <2>1. /\ init' = [init EXCEPT !.pc = "storeScope"] /\ logger' = "dart"
    BY <1>3 DEF Streams!SetLogger
  <2>2. init'.pc = "storeScope" /\ init'.requested = init.requested /\ init' # Streams!NoInit
    BY <2>1 DEF StreamsIInv, Streams!TypeOK, Streams!NoInit
  <2>3. Streams!TypeOK'
    BY <1>1, <2>1, <2>2 DEF StreamsIInv, Streams!TypeOK
  <2>4. ConfigurationFaithful'
    BY <1>1, <1>2, <2>1, <2>2 DEF ConfigurationFaithful, Streams!Requested
  <2>. QED BY <1>1, <2>3, <2>4, ConfigurationStep DEF Streams!SetLogger
<1>4. CASE logger # "none"
  <2>1. init' = Streams!NoInit /\ logger' = logger /\ init'.pc = "idle"
    BY <1>4 DEF Streams!SetLogger, Streams!NoInit
  <2>2. Streams!TypeOK'
    BY <1>1, <2>1 DEF StreamsIInv, Streams!TypeOK, Streams!NoInit
  <2>3. ConfigurationFaithful'
    BY <1>1, <1>2, <2>1 DEF ConfigurationFaithful, Streams!Requested,
       Streams!NoConfiguration
  <2>. QED BY <1>1, <2>2, <2>3, ConfigurationStep DEF Streams!SetLogger
<1>. QED BY <1>3, <1>4

\* The two stores and the end of init_logger.
LEMMA StoresInv ==
  ASSUME StreamsIInv, Streams!StoreScope \/ Streams!SetMaxLevel \/ Streams!EndInit
  PROVE  StreamsIInv'
<1>1. /\ init.pc \in {"storeScope", "setMaxLevel", "configured"}
      /\ UNCHANGED <<sink, listening, emitter, created, forwarded, logger>>
      /\ UNCHANGED Streams!streamVars
  BY DEF Streams!StoreScope, Streams!SetMaxLevel, Streams!EndInit, Streams!streamVars
<1>2. /\ configuration = Streams!NoConfiguration /\ init.requested \in Streams!Configuration
      /\ logger = "dart" /\ init # Streams!NoInit /\ Streams!Requested = init.requested
  BY <1>1 DEF StreamsIInv, ConfigurationFaithful, Streams!NoInit, Streams!Requested
<1>3. /\ init.requested.scope \in Streams!Scope /\ init.requested.minimum_level \in Streams!Level
      /\ init.requested # Streams!NoConfiguration
  BY <1>2 DEF Streams!Configuration, Streams!NoConfiguration, Streams!Level
<1>4. CASE Streams!StoreScope \/ Streams!SetMaxLevel
  <2>1. /\ UNCHANGED configuration /\ init'.requested = init.requested
        /\ init'.pc \in {"setMaxLevel", "configured"} /\ init' # Streams!NoInit
        /\ init' \in [pc : {"idle", "setLogger", "storeScope", "setMaxLevel",
                            "configured"},
                      requested : Streams!Configuration \cup {Streams!NoConfiguration}]
    BY <1>4 DEF Streams!StoreScope, Streams!SetMaxLevel, StreamsIInv, Streams!TypeOK,
       Streams!NoInit
  <2>2. Streams!Requested' = Streams!Requested
    BY <1>2, <2>1 DEF Streams!Requested
  <2>3. /\ scope' \in {scope, Streams!Requested.scope}
        /\ max_level' \in {max_level, Streams!Requested.minimum_level}
    BY <1>2, <1>4 DEF Streams!StoreScope, Streams!SetMaxLevel
  <2>4. Streams!TypeOK'
    BY <1>1, <1>2, <1>3, <2>1, <2>3 DEF StreamsIInv, Streams!TypeOK, Streams!Level
  <2>5. ConfigurationFaithful'
    BY <1>1, <1>2, <2>1, <2>2, <2>3 DEF StreamsIInv, ConfigurationFaithful
  <2>. QED BY <1>1, <1>2, <2>2, <2>4, <2>5, ConfigurationStep
<1>5. CASE Streams!EndInit
  <2>1. /\ configuration' = init.requested /\ init' = Streams!NoInit /\ init'.pc = "idle"
        /\ UNCHANGED <<scope, max_level>>
    BY <1>5 DEF Streams!EndInit, Streams!NoInit
  <2>2. Streams!Requested' = Streams!Requested
    BY <1>2, <2>1 DEF Streams!Requested
  <2>3. Streams!TypeOK'
    BY <1>1, <1>2, <2>1 DEF StreamsIInv, Streams!TypeOK, Streams!NoInit
  <2>4. ConfigurationFaithful'
    BY <1>1, <1>2, <1>3, <2>1, <2>2 DEF StreamsIInv, ConfigurationFaithful
  <2>. QED BY <1>1, <1>2, <2>2, <2>3, <2>4, ConfigurationStep
<1>. QED BY <1>4, <1>5

\* A new stream is fresh, and a closed one is not served any more.
LEMMA SinkStep ==
  ASSUME StreamsIInv,
         \/ \E ch \in Streams!Channel, s \in Sink : Streams!ReplaceStreamSink(ch, s)
         \/ \E s \in Sink : Streams!Close(s)
  PROVE  StreamsIInv'
<1>1. /\ UNCHANGED <<configuration, init, logger, scope, max_level, emitter, forwarded>>
      /\ \A e \in Emitter : emitter[e].sink \notin listening
                            => emitter[e].sink \notin listening'
      /\ listening' \subseteq Sink
  BY DEF Streams!ReplaceStreamSink, Streams!Close, Streams!configVars, StreamsIInv,
     Streams!TypeOK
<1>2. sink' \in [Streams!Channel -> Sink \cup {NoSink}] /\ created' \in [Streams!Channel -> Sink \cup {NoSink}]
  BY DEF Streams!ReplaceStreamSink, Streams!Close, StreamsIInv, Streams!TypeOK
<1>3. Streams!TypeOK'
  BY <1>1, <1>2 DEF StreamsIInv, Streams!TypeOK
<1>4. Streams!Requested' = Streams!Requested
  BY <1>1 DEF Streams!Requested
<1>5. ConfigurationFaithful'
  BY <1>1, <1>4 DEF StreamsIInv, ConfigurationFaithful
<1>6. \A e \in Emitter : EmitterFaithful(e)'
  BY <1>1, <1>4 DEF StreamsIInv, EmitterFaithful
<1>7. ForwardedFaithful'
  BY <1>1, <1>4 DEF StreamsIInv, ForwardedFaithful, Streams!OnlyConfigured
<1>8. Streams!LatestSinkServed'
  BY DEF Streams!ReplaceStreamSink, Streams!Close, StreamsIInv, Streams!TypeOK,
     Streams!LatestSinkServed
<1>. QED BY <1>3, <1>5, <1>6, <1>7, <1>8 DEF StreamsIInv

\* A step of an emitting thread that leaves the sinks alone.
LEMMA EmitterStep ==
  ASSUME StreamsIInv, NEW e \in Emitter, NEW new, Streams!Step(e, new),
         new \in EmitterRecord,
         EmitterFaithful(e)', ForwardedFaithful', Streams!LatestSinkServed',
         forwarded' \in Streams!Record \cup {Streams!Report},
         sink' \in [Streams!Channel -> Sink \cup {NoSink}],
         UNCHANGED <<listening, created>>
  PROVE  StreamsIInv'
<1>1. /\ UNCHANGED <<configuration, init, logger, scope, max_level>>
      /\ emitter' = [emitter EXCEPT ![e] = new]
  BY DEF Streams!Step, Streams!configVars
<1>2. Streams!TypeOK'
  BY <1>1 DEF StreamsIInv, Streams!TypeOK, EmitterRecord
<1>3. Streams!Requested' = Streams!Requested
  BY <1>1 DEF Streams!Requested
<1>4. ConfigurationFaithful'
  BY <1>1, <1>3 DEF StreamsIInv, ConfigurationFaithful
<1>5. \A d \in Emitter : EmitterFaithful(d)'
  <2>1. ASSUME NEW d \in Emitter, d # e PROVE EmitterFaithful(d)'
    <3>1. emitter'[d] = emitter[d]
      BY <1>1, <2>1 DEF StreamsIInv, Streams!TypeOK
    <3>. QED BY <1>1, <1>3, <3>1 DEF StreamsIInv, EmitterFaithful
  <2>. QED BY <2>1
<1>. QED BY <1>2, <1>4, <1>5 DEF StreamsIInv

LEMMA EmitterType ==
  ASSUME StreamsIInv, NEW e \in Emitter
  PROVE  emitter[e] \in EmitterRecord
BY DEF StreamsIInv, Streams!TypeOK, EmitterRecord

LEMMA QuietType == Streams!Quiet \in EmitterRecord /\ Streams!Quiet.pc = "idle"
BY DEF Streams!Quiet, EmitterRecord, Streams!Channel, Streams!Scope

\* A thread that moves on, or gives up, with the sinks as they are.
LEMMA SilentStep ==
  ASSUME StreamsIInv, NEW e \in Emitter, NEW new \in EmitterRecord, Streams!Step(e, new),
         UNCHANGED <<sink, listening, created, forwarded>>,
         new.pc # "idle" /\ new.record # Streams!Report =>
           /\ logger = "dart"
           /\ new.scope \in {"Standard", Streams!Requested.scope}
           /\ new.pc # "level" =>
                Streams!Accepts(new.record, Streams!Requested.scope, Streams!Requested.minimum_level),
         new.pc = "level" => new.record # Streams!Report,
         new.pc = "failed" => new.sink \notin listening
  PROVE  StreamsIInv'
<1>1. /\ UNCHANGED <<configuration, init, logger>>
      /\ emitter'[e] = new
  BY DEF Streams!Step, Streams!configVars, StreamsIInv, Streams!TypeOK
<1>2. Streams!Requested' = Streams!Requested
  BY <1>1 DEF Streams!Requested
<1>3. EmitterFaithful(e)'
  BY <1>1, <1>2 DEF EmitterFaithful
<1>4. ForwardedFaithful'
  BY <1>1, <1>2 DEF StreamsIInv, ForwardedFaithful, Streams!OnlyConfigured
<1>5. Streams!LatestSinkServed'
  BY DEF StreamsIInv, Streams!LatestSinkServed
<1>6. /\ forwarded' \in Streams!Record \cup {Streams!Report}
      /\ sink' \in [Streams!Channel -> Sink \cup {NoSink}]
  BY DEF StreamsIInv, Streams!TypeOK
<1>. QED BY <1>3, <1>4, <1>5, <1>6, EmitterStep

LEMMA LogInv ==
  ASSUME StreamsIInv, NEW e \in Emitter, NEW record \in Streams!Record,
         Streams!Log(e, record)
  PROVE  StreamsIInv'
<1>. DEFINE new == [pc |-> "level", channel |-> "log", record |-> record,
                    scope |-> scope, sink |-> NoSink]
<1>1. new \in EmitterRecord
  BY DEF EmitterRecord, StreamsIInv, Streams!TypeOK, Streams!Channel
<1>2. record # Streams!Report
  BY StreamsAssumption DEF Streams!ConstantsAssumption, Streams!Record, Streams!Report,
     Streams!Level
<1>3. logger = "dart" /\ scope \in {"Standard", Streams!Requested.scope}
  BY DEF Streams!Log, StreamsIInv, ConfigurationFaithful
<1>4. /\ new.pc = "level" /\ new.record = record /\ new.scope = scope
      /\ Streams!Step(e, new) /\ UNCHANGED <<sink, listening, created, forwarded>>
  BY DEF Streams!Log
<1>. HIDE DEF new
<1>. QED BY <1>1, <1>2, <1>3, <1>4, SilentStep

\* The scope was read before the level, perhaps before init_logger stored it:
\* what the earlier scope admits, the later one admits too.
LEMMA EnabledInv ==
  ASSUME StreamsIInv, NEW e \in Emitter, Streams!Enabled(e)
  PROVE  StreamsIInv'
<1>. DEFINE em == emitter[e]
<1>1. /\ em \in EmitterRecord /\ em.pc = "level" /\ em.record \in Streams!Record
      /\ UNCHANGED <<sink, listening, created, forwarded>>
  BY EmitterType DEF Streams!Enabled, StreamsIInv, EmitterFaithful, EmitterRecord
<1>2. CASE Streams!Accepts(em.record, em.scope, max_level)
  <2>. DEFINE new == [em EXCEPT !.pc = "clone"]
  <2>1. /\ new \in EmitterRecord /\ new.pc = "clone" /\ new.record = em.record
        /\ new.scope = em.scope
    BY <1>1 DEF EmitterRecord
  <2>2. /\ logger = "dart" /\ em.scope \in {"Standard", Streams!Requested.scope}
        /\ max_level \in {0, Streams!Requested.minimum_level}
    BY <1>1 DEF StreamsIInv, EmitterFaithful, ConfigurationFaithful
  <2>3. em.record.level \in 1 .. MaxLevel /\ em.record.level <= max_level
    BY <1>1, <1>2 DEF Streams!Record, Streams!Level, Streams!Accepts
  <2>4. em.record.level <= Streams!Requested.minimum_level
    BY <2>2, <2>3
  <2>5. Streams!Admits(Streams!Requested.scope, em.record.target)
    BY <1>2, <2>2 DEF Streams!Accepts, Streams!Admits
  <2>6. Streams!Accepts(new.record, Streams!Requested.scope, Streams!Requested.minimum_level)
    BY <2>1, <2>4, <2>5 DEF Streams!Accepts
  <2>7. Streams!Step(e, new)
    BY <1>2 DEF Streams!Enabled
  <2>. HIDE DEF new
  <2>. QED BY <1>1, <2>1, <2>2, <2>6, <2>7, SilentStep
<1>3. CASE ~Streams!Accepts(em.record, em.scope, max_level)
  BY <1>1, <1>3, QuietType, SilentStep DEF Streams!Enabled
<1>. QED BY <1>2, <1>3

LEMMA ReportProgressInv ==
  ASSUME StreamsIInv, NEW e \in Emitter, Streams!ReportProgress(e)
  PROVE  StreamsIInv'
<1>. DEFINE new == [Streams!Quiet EXCEPT !.pc = "clone", !.channel = "progress"]
<1>1. new \in EmitterRecord /\ new.pc = "clone" /\ new.record = Streams!Report
  BY QuietType, Zenon DEF EmitterRecord, Streams!Quiet, Streams!Channel
<1>2. Streams!Step(e, new) /\ UNCHANGED <<sink, listening, created, forwarded>>
  BY DEF Streams!ReportProgress
<1>. HIDE DEF new
<1>. QED BY <1>1, <1>2, SilentStep

LEMMA CloneSinkInv ==
  ASSUME StreamsIInv, NEW e \in Emitter, Streams!CloneSink(e)
  PROVE  StreamsIInv'
<1>. DEFINE em == emitter[e]
            s == sink[em.channel]
            new == [em EXCEPT !.pc = "add", !.sink = s]
<1>1. /\ em \in EmitterRecord /\ em.pc = "clone"
      /\ UNCHANGED <<sink, listening, created, forwarded>>
  BY EmitterType DEF Streams!CloneSink
<1>2. CASE s = NoSink
  BY <1>1, <1>2, QuietType, SilentStep DEF Streams!CloneSink
<1>3. CASE s # NoSink
  <2>1. s \in Sink
    BY <1>1, <1>3 DEF StreamsIInv, Streams!TypeOK, EmitterRecord
  <2>2. /\ new \in EmitterRecord /\ new.pc = "add" /\ new.record = em.record
        /\ new.scope = em.scope
    BY <1>1, <2>1, Zenon DEF EmitterRecord
  <2>3. Streams!Step(e, new)
    BY <1>3 DEF Streams!CloneSink
  <2>4. EmitterFaithful(e)
    BY DEF StreamsIInv
  <2>. HIDE DEF new
  <2>. QED BY <1>1, <2>2, <2>3, <2>4, SilentStep DEF EmitterFaithful
<1>. QED BY <1>2, <1>3

LEMMA AddInv ==
  ASSUME StreamsIInv, NEW e \in Emitter, Streams!Add(e)
  PROVE  StreamsIInv'
<1>. DEFINE em == emitter[e]
<1>1. /\ em \in EmitterRecord /\ em.pc = "add"
      /\ UNCHANGED <<sink, listening, created>>
  BY EmitterType DEF Streams!Add
<1>2. EmitterFaithful(e)
  BY DEF StreamsIInv
<1>3. CASE em.sink \in listening
  <2>1. Streams!Step(e, Streams!Quiet) /\ forwarded' = em.record
    BY <1>3 DEF Streams!Add
  <2>2. /\ UNCHANGED <<configuration, init, logger>> /\ emitter'[e] = Streams!Quiet
    BY <2>1 DEF Streams!Step, Streams!configVars, StreamsIInv, Streams!TypeOK
  <2>3. Streams!Requested' = Streams!Requested
    BY <2>2 DEF Streams!Requested
  <2>4. EmitterFaithful(e)'
    BY <2>2, QuietType DEF EmitterFaithful
  <2>5. ForwardedFaithful'
    BY <1>1, <1>2, <2>1, <2>2, <2>3
       DEF EmitterFaithful, ForwardedFaithful, Streams!OnlyConfigured
  <2>6. Streams!LatestSinkServed'
    BY <1>1 DEF StreamsIInv, Streams!LatestSinkServed
  <2>7. /\ forwarded' \in Streams!Record \cup {Streams!Report}
        /\ sink' \in [Streams!Channel -> Sink \cup {NoSink}]
    BY <1>1, <2>1 DEF StreamsIInv, Streams!TypeOK, EmitterRecord
  <2>. QED BY <1>1, <2>1, <2>4, <2>5, <2>6, <2>7, QuietType, EmitterStep
<1>4. CASE em.sink \notin listening
  <2>. DEFINE new == [em EXCEPT !.pc = "failed"]
  <2>1. /\ new \in EmitterRecord /\ new.pc = "failed" /\ new.record = em.record
        /\ new.scope = em.scope /\ new.sink = em.sink
    BY <1>1 DEF EmitterRecord
  <2>2. Streams!Step(e, new) /\ UNCHANGED forwarded
    BY <1>4 DEF Streams!Add
  <2>. HIDE DEF new
  <2>. QED BY <1>1, <1>2, <1>4, <2>1, <2>2, SilentStep DEF EmitterFaithful
<1>. QED BY <1>3, <1>4

\* Only the sink that failed is removed, and it listens no longer.
LEMMA TakeFailedInv ==
  ASSUME StreamsIInv, NEW e \in Emitter, Streams!TakeFailed(e)
  PROVE  StreamsIInv'
<1>. DEFINE em == emitter[e]
<1>1. /\ em \in EmitterRecord /\ em.pc = "failed" /\ em.sink \notin listening
      /\ sink' = [sink EXCEPT ![em.channel] = Streams!Taken(sink[em.channel], em.sink)]
      /\ UNCHANGED <<listening, created, forwarded>>
      /\ Streams!Step(e, Streams!Quiet)
  BY EmitterType DEF Streams!TakeFailed, StreamsIInv, EmitterFaithful
<1>2. /\ UNCHANGED <<configuration, init, logger>> /\ emitter'[e] = Streams!Quiet
  BY <1>1 DEF Streams!Step, Streams!configVars, StreamsIInv, Streams!TypeOK
<1>3. Streams!Requested' = Streams!Requested
  BY <1>2 DEF Streams!Requested
<1>4. EmitterFaithful(e)'
  BY <1>2, QuietType DEF EmitterFaithful
<1>5. ForwardedFaithful'
  BY <1>1, <1>2, <1>3 DEF StreamsIInv, ForwardedFaithful, Streams!OnlyConfigured
<1>6. Streams!LatestSinkServed'
  BY <1>1 DEF StreamsIInv, Streams!TypeOK, Streams!LatestSinkServed, Streams!Taken
<1>7. /\ forwarded' \in Streams!Record \cup {Streams!Report}
      /\ sink' \in [Streams!Channel -> Sink \cup {NoSink}]
  BY <1>1 DEF StreamsIInv, Streams!TypeOK, Streams!Taken
<1>. QED BY <1>1, <1>4, <1>5, <1>6, <1>7, QuietType, EmitterStep

LEMMA StreamsNext ==
  ASSUME StreamsIInv, [Streams!Next]_(Streams!vars)
  PROVE  StreamsIInv'
<1>1. CASE UNCHANGED Streams!vars
  BY <1>1 DEF Streams!vars, StreamsIInv, Streams!TypeOK, ConfigurationFaithful,
     EmitterFaithful,
              ForwardedFaithful, Streams!OnlyConfigured, Streams!Requested, Streams!LatestSinkServed
<1>. QED BY <1>1, BeginInitInv, SetLoggerInv, StoresInv, SinkStep, LogInv, EnabledInv,
            ReportProgressInv, CloneSinkInv, AddInv, TakeFailedInv DEF Streams!Next

LEMMA StreamsInvariance == Streams!Spec => []StreamsIInv
<1>1. Streams!Init => StreamsIInv
  BY StreamsInit
<1>2. StreamsIInv /\ [Streams!Next]_(Streams!vars) => StreamsIInv'
  BY StreamsNext
<1>. QED BY <1>1, <1>2, PTL DEF Streams!Spec

\* The stream created last is served while it listens, whatever fails late on
\* the streams before it (replace_stream_sink, log, add_progress_report).
THEOREM NewestStreamServed == Streams!Spec => []Streams!LatestSinkServed
<1>1. StreamsIInv => Streams!LatestSinkServed
  BY DEF StreamsIInv
<1>. QED BY <1>1, StreamsInvariance, PTL

\* No record reaches Dart that the one configuration of the process does not
\* admit, also while init_logger is between its two stores.
THEOREM ForwardedAsConfigured == Streams!Spec => []Streams!OnlyConfigured
<1>1. StreamsIInv => Streams!OnlyConfigured
  BY DEF StreamsIInv, ForwardedFaithful, Streams!OnlyConfigured
<1>. QED BY <1>1, StreamsInvariance, PTL

\* Both, for any number of streams and of emitting threads.
THEOREM StreamsAreSound == Streams!Spec => []StreamsSound
BY NewestStreamServed, ForwardedAsConfigured, PTL DEF StreamsSound, Streams!StreamsSound

=============================================================================
