------------------------ MODULE WalletProcessProofs -------------------------
(***************************************************************************)
(* Wallets share the cached tables, loads exclude one another and tables   *)
(* are upgraded at most once, for any number of calls and table sizes; a   *)
(* closed handle leaves no subscription behind, for any subscriptions and  *)
(* however often a cancellation fails; and the callers of the process's    *)
(* initializers share their attempts, however many callers and attempts    *)
(* there are.                                                              *)
(*                                                                         *)
(* What a close leaves behind depends on what it still has to cancel while *)
(* subscriptions come and go under it (CloseCovers).  That a caller told   *)
(* of success has what it asked for depends on which attempt it waits for  *)
(* (Told), that attempts come one after the other (AttemptsInTurn) and     *)
(* that none follows a success (SuccessFinal).                             *)
(***************************************************************************)
EXTENDS WalletProcess, Sequences, TLAPS

\* A leaf that takes the provers longer than their five seconds may take thirty.
USE SMTT(30), ZenonT(30)

Point == {"idle", "looking", "waiting", "lookingAgain", "loading", "loaded",
          "opening", "wallet"}
Operation == {"create", "open", "update"}
Outcome == {"none", "ok", "RecoveryConflict", "PathInvalid", "TypeInvalid",
            "Finalized", "LoadFailed", "WalletFailed", "dropped",
            "NotInitialized", "l1Low", "l1Medium", "l1Full", "custom"}

CallRecord == [pc : Point, op : Operation, requested : Nat,
               arc : Arc \cup {NoArc}, outcome : Outcome]

TypeOK ==
  /\ entry \in [arc : Arc \cup {NoArc}, l1_size : Nat]
  /\ content \in [Arc -> Nat]
  /\ loader \in Call \cup {NoCall}
  /\ call \in [Call -> CallRecord]

\* The cache claims the tables that are behind its reference.
EntryFaithful ==
  /\ entry.arc = NoArc => entry = NoEntry
  /\ entry.arc # NoArc => content[entry.arc] = entry.l1_size /\ entry.l1_size > 0

Loading(c) == call[c].pc \in {"lookingAgain", "loading", "loaded"}

\* What a call at each of its points has.
CallFaithful(c) ==
  /\ ~Holding(c) /\ call[c].pc # "loaded" => call[c].arc = NoArc
  /\ call[c].pc # "idle" => call[c].requested > 0
  /\ Loading(c) <=> loader = c
  /\ call[c].pc = "loaded" =>
       /\ call[c].arc # NoArc /\ call[c].arc # entry.arc
       /\ content[call[c].arc] = call[c].requested
  /\ Holding(c) =>
       /\ call[c].arc = entry.arc /\ entry.arc # NoArc
       /\ content[call[c].arc] >= call[c].requested

IInv == TypeOK /\ EntryFaithful /\ \A c \in Call : CallFaithful(c)

\* Requested sizes are positive.
LEMMA SizePositive ==
  ASSUME NEW in \in Input
  PROVE  /\ ToL1Size(in.type) \in Nat
         /\ InputError(in) = "ok" => ToL1Size(in.type) > 0
         /\ in.op \in Operation
         /\ InputError(in) \in Outcome
<1>. DEFINE named == [name : {"l1Low", "l1Medium", "l1Full"}, size : {0}]
            custom == [name : {"custom"}, size : Custom]
<1>1. in.op \in Operation /\ in.type \in named \cup custom
  BY ConstantsAssumption DEF Operation
<1>2. ToL1Size(in.type) \in Nat
  BY <1>1, ConstantsAssumption DEF ToL1Size
<1>3. InputError(in) = "ok" => ToL1Size(in.type) # 0
  BY DEF InputError
<1>4. InputError(in) \in Outcome
  BY DEF InputError, Outcome
<1>. QED BY <1>1, <1>2, <1>3, <1>4

\* Nobody but the cache and its holders has the cached reference, so dropping
\* a reference frees no tables that the cache still claims.
LEMMA NothingFreed ==
  ASSUME IInv, NEW c \in Call, call[c].pc # "loaded"
  PROVE  Freed(call[c].arc) = content
BY DEF IInv, CallFaithful, Holding, Freed

\* The two ways in which a call is updated.
LEMMA GotoType ==
  ASSUME TypeOK, NEW c \in Call, NEW pc \in Point, NEW arc \in Arc \cup {NoArc},
         Goto(c, pc, arc)
  PROVE  /\ call' \in [Call -> CallRecord]
         /\ \A d \in Call \ {c} : call'[d] = call[d]
         /\ call'[c].pc = pc /\ call'[c].arc = arc
         /\ call'[c].requested = call[c].requested
BY Zenon DEF TypeOK, Goto, CallRecord

LEMMA ReturnType ==
  ASSUME TypeOK, NEW c \in Call, NEW outcome \in Outcome, Return(c, outcome)
  PROVE  /\ call' \in [Call -> CallRecord]
         /\ \A d \in Call \ {c} : call'[d] = call[d]
         /\ call'[c].pc = "idle" /\ call'[c].arc = NoArc
BY DEF TypeOK, Return, Idle, CallRecord, Point, Operation, Outcome

LEMMA InitInv == Init => IInv
BY ConstantsAssumption
   DEF Init, IInv, TypeOK, CallRecord, Point, Operation, Outcome,
       EntryFaithful, CallFaithful, Idle,
       NoEntry, Holding, Loading

\* A step that leaves the cache and the tables alone.
LEMMA QuietStep ==
  ASSUME IInv, NEW c \in Call, UNCHANGED <<entry, content>>,
         loader' \in Call \cup {NoCall},
         call' \in [Call -> CallRecord],
         \A d \in Call \ {c} : call'[d] = call[d] /\ (loader' = d <=> loader = d),
         CallFaithful(c)'
  PROVE  IInv'
<1>1. TypeOK' /\ EntryFaithful'
  BY DEF IInv, TypeOK, EntryFaithful, NoEntry
<1>2. \A d \in Call \ {c} : CallFaithful(d)'
  BY DEF IInv, CallFaithful, Holding, Loading
<1>. QED BY <1>1, <1>2 DEF IInv

LEMMA BeginInv ==
  ASSUME IInv, NEW c \in Call, NEW in \in Input, Begin(c, in)
  PROVE  IInv'
<1>1. /\ call' \in [Call -> CallRecord]
      /\ \A d \in Call \ {c} : call'[d] = call[d]
  BY SizePositive DEF Begin, Return, Idle, IInv, TypeOK, CallRecord, Point, Operation,
     Outcome
<1>2. CallFaithful(c)'
  BY SizePositive, ConstantsAssumption
  DEF Begin, Return, Idle, At, IInv, TypeOK, CallRecord, CallFaithful, Holding, Loading
<1>. QED BY <1>1, <1>2, QuietStep DEF Begin, IInv, TypeOK

LEMMA FirstLookInv ==
  ASSUME IInv, NEW c \in Call, FirstLook(c)
  PROVE  IInv'
<1>1. /\ call' \in [Call -> CallRecord]
      /\ \A d \in Call \ {c} : call'[d] = call[d]
  BY DEF FirstLook, Goto, Return, Idle, IInv, TypeOK, CallRecord, Point, Operation, Outcome
<1>2. CallFaithful(c)'
  BY DEF FirstLook, Goto, Return, Idle, At, Lookup, NoEntry, IInv, TypeOK,
         EntryFaithful, CallRecord, CallFaithful, Holding, Loading
<1>. QED BY <1>1, <1>2, QuietStep DEF FirstLook, IInv, TypeOK

LEMMA AcquireLoadInv ==
  ASSUME IInv, NEW c \in Call, AcquireLoad(c)
  PROVE  IInv'
<1>1. /\ call' \in [Call -> CallRecord]
      /\ \A d \in Call \ {c} : call'[d] = call[d]
  <2>1. (IF call[c].op = "update" THEN "loading" ELSE "lookingAgain") \in Point
    BY DEF Point
  <2>. QED BY <2>1, GotoType DEF AcquireLoad, IInv
<1>2. CallFaithful(c)'
  BY DEF AcquireLoad, Goto, At, IInv, TypeOK, CallRecord, CallFaithful, Holding, Loading
<1>. QED BY <1>1, <1>2, QuietStep, ConstantsAssumption DEF AcquireLoad, IInv, TypeOK

LEMMA SecondLookInv ==
  ASSUME IInv, NEW c \in Call, SecondLook(c)
  PROVE  IInv'
<1>1. /\ call' \in [Call -> CallRecord]
      /\ \A d \in Call \ {c} : call'[d] = call[d]
  BY DEF SecondLook, Goto, Return, Idle, IInv, TypeOK, CallRecord, Point, Operation, Outcome
<1>2. loader = c
  BY DEF SecondLook, At, IInv, CallFaithful, Loading
<1>3. loader' \in {c, NoCall}
  BY <1>2 DEF SecondLook
<1>4. CallFaithful(c)'
  BY <1>2, ConstantsAssumption
  DEF SecondLook, Goto, Return, Idle, At, Lookup, NoEntry, IInv, TypeOK,
      EntryFaithful, CallRecord, CallFaithful, Holding, Loading
<1>. QED BY <1>1, <1>2, <1>3, <1>4, QuietStep, ConstantsAssumption
         DEF SecondLook, IInv, TypeOK

\* What is behind a reference that was given tables cannot be loaded into.
LEMMA LoadInv ==
  ASSUME IInv, NEW c \in Call, Load(c)
  PROVE  IInv'
<1>1. At(c, "loading") /\ loader = c
  BY DEF Load, At, IInv, CallFaithful, Loading
<1>2. CASE Return(c, "LoadFailed") /\ loader' = NoCall /\ UNCHANGED content
  <2>1. /\ call' \in [Call -> CallRecord]
        /\ \A d \in Call \ {c} : call'[d] = call[d]
        /\ call'[c].pc = "idle" /\ call'[c].arc = NoArc
    BY <1>2, ReturnType DEF IInv, Outcome
  <2>2. CallFaithful(c)'
    BY <1>2, <2>1, ConstantsAssumption DEF CallFaithful, Holding, Loading
  <2>. QED BY <1>1, <1>2, <2>1, <2>2, QuietStep, ConstantsAssumption DEF Load
<1>3. ASSUME NEW a \in Arc, content[a] = 0,
             content' = [content EXCEPT ![a] = call[c].requested],
             Goto(c, "loaded", a), UNCHANGED loader
      PROVE  IInv'
  <2>1. /\ call' \in [Call -> CallRecord]
        /\ \A d \in Call \ {c} : call'[d] = call[d]
        /\ call'[c].pc = "loaded" /\ call'[c].arc = a
        /\ call'[c].requested = call[c].requested
    BY <1>3, GotoType DEF IInv, Point
  <2>2. UNCHANGED entry
    BY DEF Load
  <2>3. /\ call[c].requested \in Nat
        /\ call[c].requested > 0
        /\ entry.arc # a
    BY <1>1, <1>3, ConstantsAssumption
    DEF IInv, TypeOK, CallRecord, EntryFaithful, CallFaithful, At
  <2>4. TypeOK'
    BY <1>3, <2>1, <2>2, <2>3 DEF IInv, TypeOK
  <2>5. EntryFaithful'
    BY <1>3, <2>2, <2>3 DEF IInv, TypeOK, EntryFaithful, NoEntry
  <2>6. CallFaithful(c)'
    BY <1>1, <1>3, <2>1, <2>2, <2>3, ConstantsAssumption
    DEF IInv, TypeOK, CallFaithful, Holding, Loading
  <2>7. ASSUME NEW d \in Call \ {c}
        PROVE  CallFaithful(d)'
    <3>1. CallFaithful(d) /\ call[d].pc # "loaded"
      BY <1>1 DEF IInv, CallFaithful, Loading
    <3>2. Holding(d) => content'[call[d].arc] = content[call[d].arc]
      BY <1>3, <2>3, <3>1 DEF IInv, TypeOK, CallFaithful
    <3>. QED BY <1>3, <2>1, <2>2, <3>1, <3>2 DEF CallFaithful, Holding, Loading
  <2>. QED BY <2>4, <2>5, <2>6, <2>7 DEF IInv
<1>. QED BY <1>2, <1>3 DEF Load

\* The tables behind the cached reference are the larger ones from now on; all
\* other calls keep what they have.
LEMMA InstallInv ==
  ASSUME IInv, NEW c \in Call, Install(c)
  PROVE  IInv'
<1>. DEFINE loaded == call[c].arc
            requested == call[c].requested
<1>1. /\ At(c, "loaded") /\ loader = c /\ loader' = NoCall
      /\ loaded \in Arc /\ loaded # entry.arc /\ content[loaded] = requested
      /\ requested \in Nat /\ requested > 0
  BY DEF Install, At, IInv, TypeOK, CallRecord, CallFaithful, Loading
<1>2. \A d \in Call \ {c} : CallFaithful(d) /\ call[d].pc # "loaded" /\ loader' # d
                                /\ loader # d /\ ~Loading(d)
  BY <1>1, ConstantsAssumption DEF IInv, CallFaithful, Loading
<1>3. \A arc \in Arc : Obtained(c, arc) =>
        /\ call' \in [Call -> CallRecord]
        /\ \A d \in Call \ {c} : call'[d] = call[d]
        /\ \/ call'[c].pc = "idle" /\ call'[c].arc = NoArc
           \/ /\ call'[c].pc = "opening" /\ call'[c].arc = arc
              /\ call'[c].requested = requested
  BY GotoType, ReturnType DEF Obtained, IInv, Point, Outcome
<1>4. CASE /\ entry = NoEntry
           /\ entry' = [arc |-> loaded, l1_size |-> requested]
           /\ Obtained(c, loaded)
           /\ UNCHANGED content
  <2>1. \A d \in Call : ~Holding(d)
    BY <1>4 DEF IInv, CallFaithful, NoEntry
  <2>2. TypeOK' /\ EntryFaithful'
    BY <1>1, <1>3, <1>4 DEF IInv, TypeOK, EntryFaithful, NoEntry
  <2>3. CallFaithful(c)'
    BY <1>1, <1>3, <1>4, ConstantsAssumption
       DEF IInv, TypeOK, CallFaithful, Holding, Loading
  <2>4. \A d \in Call \ {c} : CallFaithful(d)'
    BY <1>2, <1>3, <1>4, <2>1, <1>1 DEF CallFaithful, Holding, Loading
  <2>. QED BY <2>2, <2>3, <2>4 DEF IInv
<1>5. CASE /\ entry # NoEntry /\ entry.l1_size >= requested
           /\ Obtained(c, entry.arc)
           /\ content' = [content EXCEPT ![loaded] = 0]
           /\ UNCHANGED entry
  <2>1. entry.arc \in Arc
    BY <1>5 DEF IInv, TypeOK, EntryFaithful
  <2>2. content' \in [Arc -> Nat] /\ content'[entry.arc] = content[entry.arc]
    BY <1>1, <1>5, <2>1 DEF IInv, TypeOK
  <2>3. TypeOK' /\ EntryFaithful'
    BY <1>1, <1>3, <1>5, <2>1, <2>2 DEF IInv, TypeOK, EntryFaithful, NoEntry
  <2>4. CallFaithful(c)'
    BY <1>1, <1>3, <1>5, <2>1, <2>2, ConstantsAssumption
    DEF IInv, TypeOK, EntryFaithful, CallFaithful, Holding, Loading
  <2>5. \A d \in Call \ {c} : CallFaithful(d)'
    BY <1>1, <1>2, <1>3, <1>5, <2>1, <2>2 DEF CallFaithful, Holding, Loading
  <2>. QED BY <2>3, <2>4, <2>5 DEF IInv
<1>6. CASE /\ entry # NoEntry
           /\ Return(c, "Finalized")
           /\ content' = [content EXCEPT ![loaded] = 0]
           /\ UNCHANGED entry
  <2>1. entry.arc \in Arc
    BY <1>6 DEF IInv, TypeOK, EntryFaithful
  <2>2. content' \in [Arc -> Nat] /\ content'[entry.arc] = content[entry.arc]
    BY <1>1, <1>6, <2>1 DEF IInv, TypeOK
  <2>3. /\ call' \in [Call -> CallRecord]
        /\ \A d \in Call \ {c} : call'[d] = call[d]
        /\ call'[c].pc = "idle" /\ call'[c].arc = NoArc
    BY <1>6, ReturnType DEF IInv, Outcome
  <2>4. TypeOK' /\ EntryFaithful'
    BY <1>1, <1>6, <2>1, <2>2, <2>3 DEF IInv, TypeOK, EntryFaithful, NoEntry
  <2>5. CallFaithful(c)'
    BY <1>1, <2>3, ConstantsAssumption DEF CallFaithful, Holding, Loading
  <2>6. \A d \in Call \ {c} : CallFaithful(d)'
    BY <1>1, <1>2, <1>6, <2>1, <2>2, <2>3 DEF CallFaithful, Holding, Loading
  <2>. QED BY <2>4, <2>5, <2>6 DEF IInv
<1>7. CASE /\ entry # NoEntry /\ entry.l1_size < requested
           /\ InstallUpgrade(loaded, requested)
           /\ Obtained(c, entry'.arc)
  <2>1. entry.arc \in Arc /\ entry'.arc = entry.arc /\ entry'.l1_size = requested
    BY <1>7 DEF IInv, TypeOK, EntryFaithful, InstallUpgrade
  <2>2. /\ content' \in [Arc -> Nat]
        /\ content'[entry.arc] = requested
        /\ content[entry.arc] < requested /\ content[entry.arc] \in Nat
    BY <1>1, <1>7, <2>1 DEF IInv, TypeOK, EntryFaithful, InstallUpgrade
  <2>3. TypeOK' /\ EntryFaithful'
    BY <1>1, <1>3, <1>7, <2>1, <2>2, ConstantsAssumption
    DEF IInv, TypeOK, EntryFaithful, InstallUpgrade
  <2>4. CallFaithful(c)'
    BY <1>1, <1>3, <1>7, <2>1, <2>2, ConstantsAssumption
    DEF CallFaithful, Holding, Loading
  <2>5. ASSUME NEW d \in Call \ {c}
        PROVE  CallFaithful(d)'
    <3>1. call[d].requested \in Nat
      BY DEF IInv, TypeOK, CallRecord
    <3>. QED BY <1>1, <1>2, <1>3, <1>7, <2>1, <2>2, <3>1 DEF CallFaithful, Holding, Loading
  <2>. QED BY <2>3, <2>4, <2>5 DEF IInv
<1>. QED BY <1>4, <1>5, <1>6, <1>7 DEF Install

LEMMA OpenWalletInv ==
  ASSUME IInv, NEW c \in Call, OpenWallet(c)
  PROVE  IInv'
<1>1. At(c, "opening") /\ UNCHANGED <<entry, loader>> /\ UNCHANGED content
  BY NothingFreed DEF OpenWallet, At
<1>2. CallFaithful(c) /\ ~Loading(c) /\ loader # c /\ call[c].arc \in Arc \cup {NoArc}
  BY <1>1 DEF IInv, TypeOK, CallRecord, CallFaithful, Loading, At
<1>3. CASE Goto(c, "wallet", call[c].arc)
  <2>1. /\ call' \in [Call -> CallRecord]
        /\ \A d \in Call \ {c} : call'[d] = call[d]
        /\ call'[c].pc = "wallet" /\ call'[c].arc = call[c].arc
        /\ call'[c].requested = call[c].requested
    BY <1>2, <1>3, GotoType DEF IInv, Point
  <2>2. CallFaithful(c)'
    BY <1>1, <1>2, <2>1 DEF CallFaithful, Holding, Loading, At
  <2>. QED BY <1>1, <2>1, <2>2, QuietStep DEF IInv, TypeOK
<1>4. CASE Return(c, "WalletFailed")
  <2>1. /\ call' \in [Call -> CallRecord]
        /\ \A d \in Call \ {c} : call'[d] = call[d]
        /\ call'[c].pc = "idle" /\ call'[c].arc = NoArc
    BY <1>4, ReturnType DEF IInv, Outcome
  <2>2. CallFaithful(c)'
    BY <1>1, <1>2, <2>1 DEF CallFaithful, Holding, Loading
  <2>. QED BY <1>1, <2>1, <2>2, QuietStep DEF IInv, TypeOK
<1>. QED BY <1>3, <1>4 DEF OpenWallet

\* A wallet or a call that is dropped gives up its reference and its lock.
LEMMA DropInv ==
  ASSUME IInv, NEW c \in Call, DropWallet(c) \/ DropFuture(c)
  PROVE  IInv'
<1>1. /\ call[c].pc \in {"wallet", "waiting", "loading", "opening"}
      /\ Return(c, "dropped")
      /\ UNCHANGED <<entry, content>>
  BY NothingFreed DEF DropWallet, DropFuture, At
<1>2. loader' = IF loader = c THEN NoCall ELSE loader
  BY <1>1 DEF DropWallet, DropFuture, At, IInv, CallFaithful, Loading
<1>3. /\ call' \in [Call -> CallRecord]
      /\ \A d \in Call \ {c} : call'[d] = call[d]
      /\ call'[c].pc = "idle" /\ call'[c].arc = NoArc
  BY <1>1, ReturnType DEF IInv, Outcome
<1>4. CallFaithful(c)'
  BY <1>1, <1>2, <1>3, ConstantsAssumption DEF CallFaithful, Holding, Loading
<1>5. \A d \in Call \ {c} : loader' = d <=> loader = d
  BY <1>2, ConstantsAssumption
<1>. QED BY <1>1, <1>2, <1>3, <1>4, <1>5, QuietStep DEF IInv, TypeOK

\* The cache is emptied only when nobody holds its tables.
LEMMA ClearTablesInv ==
  ASSUME IInv, ClearTables
  PROVE  IInv'
<1>1. UNCHANGED <<loader, call>>
  BY DEF ClearTables
<1>2. CASE entry = NoEntry \/ Holders(entry.arc) # {}
  <2>1. UNCHANGED <<entry, content>>
    BY <1>2 DEF ClearTables, ClearIfUnused
  <2>. QED BY <1>1, <2>1
           DEF IInv, TypeOK, EntryFaithful, CallFaithful, Holding, Loading
<1>3. CASE entry # NoEntry /\ Holders(entry.arc) = {}
  <2>1. entry' = NoEntry /\ content' = [content EXCEPT ![entry.arc] = 0]
    BY <1>3 DEF ClearTables, ClearIfUnused
  <2>2. \A d \in Call : call[d].arc # entry.arc
    BY <1>3 DEF Holders
  <2>3. TypeOK' /\ EntryFaithful'
    BY <1>1, <2>1, Zenon DEF IInv, TypeOK, EntryFaithful, NoEntry
  <2>4. ASSUME NEW d \in Call
        PROVE  CallFaithful(d)'
    <3>1. CallFaithful(d) /\ ~Holding(d) /\ call[d] \in CallRecord
      BY <2>2 DEF IInv, TypeOK, CallFaithful
    <3>2. call[d].pc = "loaded" => content'[call[d].arc] = content[call[d].arc]
      BY <2>1, <2>2, <3>1 DEF IInv, TypeOK, CallRecord, CallFaithful
    <3>. QED BY <1>1, <2>1, <3>1, <3>2 DEF CallFaithful, Holding, Loading, NoEntry
  <2>. QED BY <2>3, <2>4 DEF IInv
<1>. QED BY <1>2, <1>3

LEMMA CurrentTypeInv ==
  ASSUME IInv, NEW c \in Call, CurrentType(c)
  PROVE  IInv'
<1>. DEFINE outcome == IF entry = NoEntry THEN "NotInitialized"
                       ELSE TypeFromL1(entry.l1_size)
<1>1. outcome \in Outcome
  BY DEF TypeFromL1, Outcome
<1>2. /\ call' \in [Call -> CallRecord]
      /\ \A d \in Call \ {c} : call'[d] = call[d]
      /\ call'[c].pc = "idle" /\ call'[c].arc = NoArc
  <2>1. Return(c, outcome)
    BY DEF CurrentType
  <2>. HIDE DEF outcome
  <2>. QED BY <1>1, <2>1, ReturnType DEF IInv
<1>3. CallFaithful(c)'
  BY <1>2 DEF CurrentType, At, IInv, CallFaithful, Holding, Loading
<1>. QED BY <1>2, <1>3, QuietStep DEF CurrentType, IInv, TypeOK

LEMMA NextInv == IInv /\ [Next]_vars => IInv'
<1>. SUFFICES ASSUME IInv, [Next]_vars PROVE IInv'
  OBVIOUS
<1>1. CASE UNCHANGED vars
  BY <1>1 DEF vars, IInv, TypeOK, EntryFaithful, CallFaithful, Holding, Loading
<1>. QED BY <1>1, BeginInv, FirstLookInv, AcquireLoadInv, SecondLookInv, LoadInv,
            InstallInv, OpenWalletInv, DropInv, CurrentTypeInv, ClearTablesInv
         DEF Next

-----------------------------------------------------------------------------

\* Every wallet and every call that obtained tables holds the reference of the
\* cache, and the tables behind it are what the cache claims and at least what
\* was asked for.
THEOREM TablesAreShared == Spec => []TablesShared
<1>1. IInv => TablesShared
  <2>1. IInv /\ entry # NoEntry => entry.arc # NoArc
    BY DEF IInv, EntryFaithful
  <2>. QED BY <2>1 DEF IInv, EntryFaithful, CallFaithful, TablesShared
<1>. QED BY <1>1, InitInv, NextInv, PTL DEF Spec

\* At most one call is between its second look at the cache and the
\* installation of what it loaded: the one that holds the load lock.
THEOREM LoadsAreExclusive == Spec => []LoadsExclude
<1>1. IInv => LoadsExclude
  BY DEF IInv, CallFaithful, Loading, LoadsExclude
<1>. QED BY <1>1, InitInv, NextInv, PTL DEF Spec

\* The cache of precomputed tables: every step leaves all wallets on the tables
\* of the cache, and the tables of an open wallet never shrink or vanish, and
\* grow only once, from the smallest named size.
THEOREM TablesAreSound == Spec => TablesSound
<1>1. IInv /\ [Next]_vars => [UpgradesOnce]_vars
  <2>. SUFFICES ASSUME IInv, Next, NEW w \in Call, At(w, "wallet"),
                       content'[call[w].arc] # content[call[w].arc]
                PROVE  content[call[w].arc] = L1Low /\ content'[call[w].arc] > L1Low
    BY DEF UpgradesOnce
  <2>1. /\ call[w].arc = entry.arc /\ entry.arc \in Arc
        /\ content[entry.arc] = entry.l1_size /\ entry.l1_size > 0
        /\ entry # NoEntry
    BY DEF At, IInv, TypeOK, EntryFaithful, CallFaithful, Holding, NoEntry
  <2>2. ASSUME NEW c \in Call, Load(c) PROVE FALSE
    <3>1. \A a \in Arc : content[a] = 0 => a # entry.arc
      BY <2>1 DEF IInv, TypeOK
    <3>. QED BY <2>1, <2>2, <3>1 DEF Load, IInv, TypeOK
  <2>3. ASSUME NEW c \in Call, Install(c)
        PROVE  content[call[w].arc] = L1Low /\ content'[call[w].arc] > L1Low
    <3>1. /\ call[c].arc \in Arc /\ call[c].arc # entry.arc
          /\ call[c].requested \in Nat
      BY <2>3 DEF Install, At, IInv, TypeOK, CallRecord, CallFaithful
    <3>2. content' # [content EXCEPT ![call[c].arc] = 0]
      BY <2>1, <3>1 DEF IInv, TypeOK
    <3>3. /\ entry.l1_size < call[c].requested /\ MayUpgrade
          /\ InstallUpgrade(call[c].arc, call[c].requested)
      BY <2>1, <2>3, <3>2 DEF Install
    <3>4. content'[entry.arc] = call[c].requested
      BY <2>1, <3>1, <3>3 DEF InstallUpgrade, IInv, TypeOK
    <3>. QED BY <2>1, <3>3, <3>4 DEF MayUpgrade
  <2>4. ASSUME ClearTables PROVE FALSE
    <3>1. w \in Holders(entry.arc)
      BY <2>1 DEF Holders
    <3>. QED BY <2>4, <3>1 DEF ClearTables
  <2>5. ASSUME NEW c \in Call, OpenWallet(c) \/ DropWallet(c) \/ DropFuture(c)
        PROVE  FALSE
    BY <2>5, NothingFreed DEF OpenWallet, DropWallet, DropFuture, At
  <2>6. ASSUME NEW c \in Call,
               \/ \E in \in Input : Begin(c, in)
               \/ FirstLook(c) \/ AcquireLoad(c) \/ SecondLook(c) \/ CurrentType(c)
        PROVE  FALSE
    BY <2>6 DEF Begin, FirstLook, AcquireLoad, SecondLook, CurrentType
  <2>. QED BY <2>2, <2>3, <2>4, <2>5, <2>6 DEF Next
<1>. QED BY <1>1, InitInv, NextInv, TablesAreShared, PTL DEF Spec, TablesSound

-----------------------------------------------------------------------------
(* The wallet handle                                                       *)

Phase == {"none", "runtime", "business"}
SubRecord ==
  [pc : {"none", "opening", "opened", "orphan", "live", "final"}, generation : Nat,
   requested : BOOLEAN, native : BOOLEAN, pump : BOOLEAN]

HandleTypeOK ==
  /\ terminal \in BOOLEAN
  /\ closed \in {"none", "pending", "done", "failed"}
  /\ registered \subseteq Subscription
  /\ generation \in [{"runtime", "business"} -> Nat]
  /\ sub \in [Subscription -> SubRecord]
  /\ closer \in [phase : Phase, todo : SUBSET Subscription,
                 on : Subscription \cup {NoOne}, failed : BOOLEAN]

\* What is live is registered, and nothing else is.
RegisteredLive == \A s \in Subscription : s \in registered <=> Handle!At(s, "live")

\* How far close() is.
ClosePhase ==
  /\ terminal <=> closed # "none"
  /\ closer.phase # "none" <=> closed = "pending"
  /\ closer.phase = "none" => closer.todo = {} /\ closer.on = NoOne

\* Whatever is still registered is still to be cancelled, is being cancelled, is
\* listed later, or has made close() fail.
CloseCovers ==
  /\ closed = "pending" =>
       \A s \in registered :
         \/ closer.failed \/ s = closer.on \/ s \in closer.todo
         \/ closer.phase = "runtime" /\ Handle!Kind(s) = "business"
  /\ closed = "done" => registered = {}

\* Generations come from the counter of their kind.
GenerationsDrawn ==
  /\ \A s \in Subscription : sub[s].generation <= generation[Handle!Kind(s)]
  /\ \A s, t \in Subscription :
       s # t /\ Handle!Kind(s) = Handle!Kind(t) /\ sub[s].generation # 0 =>
         sub[s].generation # sub[t].generation

HandleIInv ==
  HandleTypeOK /\ RegisteredLive /\ ClosePhase /\ CloseCovers /\ GenerationsDrawn

-----------------------------------------------------------------------------

SubMoves(s) ==
  /\ sub' \in [Subscription -> SubRecord]
  /\ \A t \in Subscription : t # s => sub'[t] = sub[t]

\* One subscription gets a new record.
LEMMA Replaced ==
  ASSUME HandleTypeOK, NEW s \in Subscription, NEW new \in SubRecord,
         sub' = [sub EXCEPT ![s] = new]
  PROVE  SubMoves(s) /\ sub'[s] = new
BY Zenon DEF HandleTypeOK, SubMoves

LEMMA FinalizeEffect ==
  ASSUME HandleTypeOK, NEW s \in Subscription, NEW n \in BOOLEAN, Handle!Finalize(s, n)
  PROVE  /\ SubMoves(s) /\ sub'[s].pc = "final" /\ sub'[s].generation = sub[s].generation
         /\ registered' = registered \ {s}
<1>. DEFINE new == [sub[s] EXCEPT !.pc = "final", !.requested = TRUE,
                                  !.native = n, !.pump = FALSE]
<1>1. sub[s] \in SubRecord
  BY Zenon DEF HandleTypeOK
<1>2. new \in SubRecord /\ new.pc = "final" /\ new.generation = sub[s].generation
  BY <1>1, Zenon DEF SubRecord
<1>3. sub' = [sub EXCEPT ![s] = new] /\ registered' = registered \ {s}
  BY <1>1, Zenon DEF Handle!Finalize, HandleTypeOK
<1>. HIDE DEF new
<1>. QED BY <1>2, <1>3, Replaced, Zenon

\* A subscription moves on, with or without flags.
LEMMA MovedEffect ==
  ASSUME HandleTypeOK, NEW s \in Subscription,
         NEW p \in {"none", "opening", "opened", "orphan", "live", "final"},
         sub' = [sub EXCEPT ![s].pc = p]
  PROVE  SubMoves(s) /\ sub'[s].pc = p /\ sub'[s].generation = sub[s].generation
<1>. DEFINE new == [sub[s] EXCEPT !.pc = p]
<1>1. sub[s] \in SubRecord
  BY Zenon DEF HandleTypeOK
<1>2. new \in SubRecord /\ new.pc = p /\ new.generation = sub[s].generation
  BY <1>1, Zenon DEF SubRecord
<1>3. sub' = [sub EXCEPT ![s] = new]
  BY Zenon DEF HandleTypeOK
<1>. HIDE DEF new
<1>. QED BY <1>2, <1>3, Replaced, Zenon

LEMMA OrphanedEffect ==
  ASSUME HandleTypeOK, NEW s \in Subscription,
         NEW p \in {"none", "opening", "opened", "orphan", "live", "final"},
         sub' = [sub EXCEPT ![s].pc = p, ![s].requested = TRUE]
  PROVE  SubMoves(s) /\ sub'[s].pc = p /\ sub'[s].generation = sub[s].generation
<1>. DEFINE new == [sub[s] EXCEPT !.pc = p, !.requested = TRUE]
<1>1. sub[s] \in SubRecord
  BY Zenon DEF HandleTypeOK
<1>2. new \in SubRecord /\ new.pc = p /\ new.generation = sub[s].generation
  BY <1>1, Zenon DEF SubRecord
<1>3. sub' = [sub EXCEPT ![s] = new]
  BY Zenon DEF HandleTypeOK
<1>. HIDE DEF new
<1>. QED BY <1>2, <1>3, Replaced, Zenon

LEMMA RefusedEffect ==
  ASSUME HandleTypeOK, NEW s \in Subscription,
         NEW p \in {"none", "opening", "opened", "orphan", "live", "final"},
         sub' = [sub EXCEPT ![s].pc = p, ![s].requested = TRUE, ![s].native = TRUE]
  PROVE  SubMoves(s) /\ sub'[s].pc = p /\ sub'[s].generation = sub[s].generation
<1>. DEFINE new == [sub[s] EXCEPT !.pc = p, !.requested = TRUE, !.native = TRUE]
<1>1. sub[s] \in SubRecord
  BY Zenon DEF HandleTypeOK
<1>2. new \in SubRecord /\ new.pc = p /\ new.generation = sub[s].generation
  BY <1>1, Zenon DEF SubRecord
<1>3. sub' = [sub EXCEPT ![s] = new]
  BY Zenon DEF HandleTypeOK
<1>. HIDE DEF new
<1>. QED BY <1>2, <1>3, Replaced, Zenon

LEMMA RequestedEffect ==
  ASSUME HandleTypeOK, NEW s \in Subscription,
         sub' = [sub EXCEPT ![s].requested = TRUE]
  PROVE  SubMoves(s) /\ sub'[s].pc = sub[s].pc /\ sub'[s].generation = sub[s].generation
<1>. DEFINE new == [sub[s] EXCEPT !.requested = TRUE]
<1>1. sub[s] \in SubRecord
  BY Zenon DEF HandleTypeOK
<1>2. new \in SubRecord /\ new.pc = sub[s].pc /\ new.generation = sub[s].generation
  BY <1>1, Zenon DEF SubRecord
<1>3. sub' = [sub EXCEPT ![s] = new]
  BY Zenon DEF HandleTypeOK
<1>. HIDE DEF new
<1>. QED BY <1>2, <1>3, Replaced, Zenon

LEMMA CancelledEffect ==
  ASSUME HandleTypeOK, NEW s \in Subscription,
         sub' = [sub EXCEPT ![s].requested = TRUE, ![s].native = TRUE]
  PROVE  SubMoves(s) /\ sub'[s].pc = sub[s].pc /\ sub'[s].generation = sub[s].generation
<1>. DEFINE new == [sub[s] EXCEPT !.requested = TRUE, !.native = TRUE]
<1>1. sub[s] \in SubRecord
  BY Zenon DEF HandleTypeOK
<1>2. new \in SubRecord /\ new.pc = sub[s].pc /\ new.generation = sub[s].generation
  BY <1>1, Zenon DEF SubRecord
<1>3. sub' = [sub EXCEPT ![s] = new]
  BY Zenon DEF HandleTypeOK
<1>. HIDE DEF new
<1>. QED BY <1>2, <1>3, Replaced, Zenon

LEMMA ListenedEffect ==
  ASSUME HandleTypeOK, NEW s \in Subscription,
         sub' = [sub EXCEPT ![s].pump = TRUE]
  PROVE  SubMoves(s) /\ sub'[s].pc = sub[s].pc /\ sub'[s].generation = sub[s].generation
<1>. DEFINE new == [sub[s] EXCEPT !.pump = TRUE]
<1>1. sub[s] \in SubRecord
  BY Zenon DEF HandleTypeOK
<1>2. new \in SubRecord /\ new.pc = sub[s].pc /\ new.generation = sub[s].generation
  BY <1>1, Zenon DEF SubRecord
<1>3. sub' = [sub EXCEPT ![s] = new]
  BY Zenon DEF HandleTypeOK
<1>. HIDE DEF new
<1>. QED BY <1>2, <1>3, Replaced, Zenon

LEMMA DrawnEffect ==
  ASSUME HandleTypeOK, NEW s \in Subscription, NEW g \in Nat,
         sub' = [sub EXCEPT ![s].pc = "opened", ![s].generation = g]
  PROVE  SubMoves(s) /\ sub'[s].pc = "opened" /\ sub'[s].generation = g
<1>. DEFINE new == [sub[s] EXCEPT !.pc = "opened", !.generation = g]
<1>1. sub[s] \in SubRecord
  BY Zenon DEF HandleTypeOK
<1>2. new \in SubRecord /\ new.pc = "opened" /\ new.generation = g
  BY <1>1, Zenon DEF SubRecord
<1>3. sub' = [sub EXCEPT ![s] = new]
  BY Zenon DEF HandleTypeOK
<1>. HIDE DEF new
<1>. QED BY <1>2, <1>3, Replaced, Zenon

-----------------------------------------------------------------------------

\* How one subscription and the registration move together.
Coherent(s) ==
  /\ SubMoves(s) /\ sub'[s].generation = sub[s].generation
  /\ \/ registered' = registered \ {s} /\ sub'[s].pc # "live"
     \/ registered' = registered /\ (sub'[s].pc = "live" <=> sub[s].pc = "live")
     \/ registered' = registered \cup {s} /\ sub'[s].pc = "live" /\ ~terminal

LEMMA CoherentStep ==
  ASSUME HandleIInv, NEW s \in Subscription, Coherent(s), UNCHANGED generation
  PROVE  /\ sub' \in [Subscription -> SubRecord] /\ registered' \subseteq Subscription
         /\ RegisteredLive' /\ GenerationsDrawn'
         /\ terminal => registered' \subseteq registered
<1>. USE DEF HandleIInv
<1>1. RegisteredLive'
  BY Zenon DEF RegisteredLive, Handle!At, Coherent, SubMoves
<1>2. \A t \in Subscription : sub'[t].generation = sub[t].generation
  BY Zenon DEF Coherent, SubMoves
<1>3. GenerationsDrawn'
  BY <1>2, Zenon DEF GenerationsDrawn, Handle!Kind
<1>4. /\ sub' \in [Subscription -> SubRecord] /\ registered' \subseteq Subscription
      /\ terminal => registered' \subseteq registered
  BY Zenon DEF HandleTypeOK, Coherent, SubMoves
<1>. QED BY <1>1, <1>3, <1>4, Zenon

\* Such a step outside close().
LEMMA ApplicationStep ==
  ASSUME HandleIInv, NEW s \in Subscription, Coherent(s),
         UNCHANGED <<Handle!handle, generation, closer>>
  PROVE  HandleIInv'
<1>1. UNCHANGED <<terminal, closed, generation, closer>>
  BY Zenon DEF Handle!handle
<1>2. /\ sub' \in [Subscription -> SubRecord] /\ registered' \subseteq Subscription
      /\ RegisteredLive' /\ GenerationsDrawn'
      /\ terminal => registered' \subseteq registered
  BY <1>1, CoherentStep, Zenon
<1>3. HandleTypeOK' /\ ClosePhase'
  BY <1>1, <1>2, Zenon DEF HandleIInv, HandleTypeOK, ClosePhase
<1>4. CloseCovers'
  BY <1>1, <1>2, Zenon DEF HandleIInv, CloseCovers, ClosePhase, Handle!Kind
<1>. QED BY <1>2, <1>3, <1>4, Zenon DEF HandleIInv

LEMMA SubscribeInv ==
  ASSUME HandleIInv, NEW s \in Subscription, Handle!Subscribe(s)
  PROVE  HandleIInv'
<1>1. Coherent(s)
  BY MovedEffect, Zenon DEF HandleIInv, Handle!Subscribe, Coherent, Handle!At
<1>. QED BY <1>1, ApplicationStep, Zenon DEF Handle!Subscribe

\* The only step that draws a generation, and it is a new one.
LEMMA NativeSubscribeInv ==
  ASSUME HandleIInv, NEW s \in Subscription, Handle!NativeSubscribe(s)
  PROVE  HandleIInv'
<1>. DEFINE k == Handle!Kind(s)
            g == generation[k] + 1
<1>0. k \in {"runtime", "business"} /\ generation[k] \in Nat
  BY Zenon DEF HandleIInv, HandleTypeOK, Handle!Kind
<1>1. CASE Handle!NextGeneration(k) = 0
  <2>1. sub' = [sub EXCEPT ![s].pc = "final"] /\ UNCHANGED <<generation, registered>>
    BY <1>1, Zenon DEF Handle!NativeSubscribe
  <2>2. Coherent(s)
    BY <2>1, MovedEffect, Zenon DEF HandleIInv, Handle!NativeSubscribe, Coherent, Handle!At
  <2>. QED BY <2>1, <2>2, ApplicationStep, Zenon DEF Handle!NativeSubscribe
<1>2. CASE Handle!NextGeneration(k) # 0
  <2>1. g \in Nat /\ Handle!NextGeneration(k) = g /\ \A n \in Nat : n <= generation[k] => n < g
    BY <1>0, <1>2 DEF Handle!NextGeneration
  <2>2. /\ sub' = [sub EXCEPT ![s].pc = "opened", ![s].generation = g]
        /\ generation' = [generation EXCEPT ![k] = g]
        /\ UNCHANGED <<terminal, closed, registered, closer>> /\ sub[s].pc = "opening"
    BY <1>2, <2>1, Zenon DEF Handle!NativeSubscribe, Handle!handle, Handle!At
  <2>. HIDE DEF k, g
  <2>3. SubMoves(s) /\ sub'[s].pc = "opened" /\ sub'[s].generation = g
    BY <2>1, <2>2, DrawnEffect, Zenon DEF HandleIInv
  <2>4. /\ generation' \in [{"runtime", "business"} -> Nat] /\ generation'[k] = g
        /\ \A l \in {"runtime", "business"} : l # k => generation'[l] = generation[l]
    BY <1>0, <2>1, <2>2, Zenon DEF HandleIInv, HandleTypeOK
  <2>5. \A t \in Subscription : /\ sub[t].generation \in Nat
                                /\ sub[t].generation <= generation[Handle!Kind(t)]
                                /\ Handle!Kind(t) \in {"runtime", "business"}
    BY Zenon DEF HandleIInv, HandleTypeOK, SubRecord, GenerationsDrawn, Handle!Kind
  <2>6. \A t \in Subscription : Handle!Kind(t) = k => sub[t].generation < g /\ sub[t].generation <= g
    BY <2>1, <2>5
  <2>7. g <= g /\ \A n \in Nat : n < g => n # g
    BY <2>1
  <2>8. GenerationsDrawn'
    <3>1. \A t \in Subscription : sub'[t].generation <= generation'[Handle!Kind(t)]
      BY <2>3, <2>4, <2>5, <2>6, <2>7, Zenon DEF SubMoves, k
    <3>2. ASSUME NEW t \in Subscription, NEW u \in Subscription, t # u, Handle!Kind(t) = Handle!Kind(u),
                 sub'[t].generation # 0
          PROVE  sub'[t].generation # sub'[u].generation
      BY <2>3, <2>5, <2>6, <2>7, <3>2, Zenon DEF SubMoves, k, HandleIInv, GenerationsDrawn
    <3>. QED BY <3>1, <3>2, Zenon DEF GenerationsDrawn, Handle!Kind
  <2>9. RegisteredLive'
    BY <2>2, <2>3, Zenon DEF HandleIInv, RegisteredLive, Handle!At, SubMoves
  <2>10. HandleTypeOK' /\ ClosePhase'
    BY <2>2, <2>3, <2>4, Zenon DEF HandleIInv, HandleTypeOK, ClosePhase, SubMoves
  <2>11. CloseCovers'
    BY <2>2, Zenon DEF HandleIInv, CloseCovers, Handle!Kind
  <2>. QED BY <2>8, <2>9, <2>10, <2>11, Zenon DEF HandleIInv
<1>. QED BY <1>1, <1>2, Zenon

LEMMA OpenedInv ==
  ASSUME HandleIInv, NEW s \in Subscription, Handle!Opened(s)
  PROVE  HandleIInv'
<1>. SUFFICES Coherent(s)
  BY ApplicationStep, Zenon DEF Handle!Opened
<1>1. CASE sub' = [sub EXCEPT ![s].pc = "final"] /\ UNCHANGED registered
  BY <1>1, MovedEffect, Zenon DEF HandleIInv, Handle!Opened, Coherent, Handle!At
<1>2. CASE /\ sub' = [sub EXCEPT ![s].pc = "final", ![s].requested = TRUE, ![s].native = TRUE]
           /\ UNCHANGED registered
  BY <1>2, RefusedEffect, Zenon DEF HandleIInv, Handle!Opened, Coherent, Handle!At
<1>3. CASE /\ sub' = [sub EXCEPT ![s].pc = "orphan", ![s].requested = TRUE]
           /\ UNCHANGED registered
  BY <1>3, OrphanedEffect, Zenon DEF HandleIInv, Handle!Opened, Coherent, Handle!At
<1>4. CASE ~Handle!Refused /\ sub' = [sub EXCEPT ![s].pc = "live"] /\ registered' = registered \cup {s}
  BY <1>4, MovedEffect, Zenon DEF HandleIInv, Handle!Refused, Coherent
<1>. QED BY <1>1, <1>2, <1>3, <1>4, Zenon DEF Handle!Opened

\* A subscription ends: it is released and no longer registered.
LEMMA FinalizeCoherent ==
  ASSUME HandleIInv, NEW s \in Subscription, NEW n \in BOOLEAN, Handle!Finalize(s, n)
  PROVE  Coherent(s) /\ sub'[s].pc = "final" /\ s \notin registered'
BY FinalizeEffect, Zenon DEF HandleIInv, Coherent

\* A cancellation: through, awaiting the pump, or failed.
LEMMA CancelCoherent ==
  ASSUME HandleIInv, NEW s \in Subscription,
         Handle!CancelReturns(s) \/ Handle!CancelThrows(s)
  PROVE  Coherent(s)
<1>1. CASE sub' = [sub EXCEPT ![s].requested = TRUE] /\ UNCHANGED registered
  BY <1>1, RequestedEffect, Zenon DEF HandleIInv, Coherent
<1>2. CASE /\ sub' = [sub EXCEPT ![s].requested = TRUE, ![s].native = TRUE]
           /\ UNCHANGED registered
  BY <1>2, CancelledEffect, Zenon DEF HandleIInv, Coherent
<1>3. CASE Handle!Finalize(s, TRUE)
  BY <1>3, FinalizeCoherent, Zenon
<1>. QED BY <1>1, <1>2, <1>3, Zenon DEF Handle!CancelReturns, Handle!CancelThrows

LEMMA ListeningInv ==
  ASSUME HandleIInv, NEW s \in Subscription,
         Handle!Listen(s) \/ Handle!PumpEnds(s) \/ Handle!Cancel(s)
  PROVE  HandleIInv'
<1>. SUFFICES Coherent(s)
  BY ApplicationStep, Zenon DEF Handle!Listen, Handle!PumpEnds, Handle!Cancel
<1>1. CASE sub' = [sub EXCEPT ![s].pump = TRUE] /\ UNCHANGED registered
  BY <1>1, ListenedEffect, Zenon DEF HandleIInv, Coherent
<1>2. CASE Handle!Finalize(s, TRUE) \/ Handle!Finalize(s, FALSE)
  BY <1>2, FinalizeCoherent, Zenon
<1>3. CASE Handle!CancelReturns(s) \/ Handle!CancelThrows(s)
  BY <1>3, CancelCoherent, Zenon
<1>. QED BY <1>1, <1>2, <1>3, Zenon DEF Handle!Listen, Handle!PumpEnds, Handle!Cancel

-----------------------------------------------------------------------------

CloserRecord == [phase : Phase, todo : SUBSET Subscription,
                 on : Subscription \cup {NoOne}, failed : BOOLEAN]

LEMMA CloseInv ==
  ASSUME HandleIInv, Handle!Close
  PROVE  HandleIInv'
<1>. DEFINE new == [phase |-> "runtime", todo |-> Handle!Snapshot("runtime"), on |-> NoOne,
                    failed |-> FALSE]
<1>1. /\ closer' = new /\ terminal' = TRUE /\ closed' = "pending" /\ closed = "none"
      /\ UNCHANGED <<registered, generation, sub>>
  BY Zenon DEF Handle!Close
<1>2. /\ Handle!Snapshot("runtime") \subseteq Subscription
      /\ \A s \in registered : s \in Handle!Snapshot("runtime") \/ Handle!Kind(s) = "business"
  BY Zenon DEF Handle!Snapshot, Handle!Kind, HandleIInv, HandleTypeOK
<1>3. /\ new \in CloserRecord /\ new.phase = "runtime" /\ new.todo = Handle!Snapshot("runtime")
  BY <1>2, Zenon DEF CloserRecord, Phase
<1>. HIDE DEF new
<1>4. HandleTypeOK' /\ ClosePhase'
  BY <1>1, <1>3, Zenon DEF HandleIInv, HandleTypeOK, CloserRecord, ClosePhase
<1>5. CloseCovers'
  BY <1>1, <1>2, <1>3, Zenon DEF CloseCovers, Handle!Kind
<1>6. RegisteredLive' /\ GenerationsDrawn'
  BY <1>1, Zenon DEF HandleIInv, RegisteredLive, GenerationsDrawn, Handle!At, Handle!Kind
<1>. QED BY <1>4, <1>5, <1>6, Zenon DEF HandleIInv

\* A step of the loops of close().
LEMMA ClosingStep ==
  ASSUME HandleIInv, closer' \in CloserRecord,
         closer'.phase # "none" <=> closed = "pending",
         closer'.phase = "none" => closer'.todo = {} /\ closer'.on = NoOne,
         sub' \in [Subscription -> SubRecord], registered' \subseteq registered,
         RegisteredLive', GenerationsDrawn',
         closed = "pending" =>
           \A s \in registered' :
             \/ closer'.failed \/ s = closer'.on \/ s \in closer'.todo
             \/ closer'.phase = "runtime" /\ Handle!Kind(s) = "business",
         UNCHANGED <<Handle!handle, generation>>
  PROVE  HandleIInv'
<1>1. UNCHANGED <<terminal, closed, generation>>
  BY Zenon DEF Handle!handle
<1>2. HandleTypeOK' /\ ClosePhase'
  BY <1>1, Zenon DEF HandleIInv, HandleTypeOK, CloserRecord, ClosePhase
<1>3. CloseCovers'
  BY <1>1, Zenon DEF HandleIInv, CloseCovers, Handle!Kind
<1>. QED BY <1>2, <1>3, Zenon DEF HandleIInv

\* The loop takes one subscription: the caller awaits it, notes its failure, or
\* finds it done.
LEMMA CloseCancelsInv ==
  ASSUME HandleIInv, NoOne \notin Subscription, NEW s \in Subscription,
         Handle!CloseCancels(s)
  PROVE  HandleIInv'
<1>. USE DEF HandleIInv
<1>0. /\ closer \in CloserRecord /\ closer.on = NoOne /\ closer.phase # "none"
      /\ closed = "pending" /\ terminal /\ UNCHANGED <<Handle!handle, generation>>
  BY Zenon DEF Handle!CloseCancels, HandleTypeOK, CloserRecord, ClosePhase
<1>1. CASE Handle!CancelReturns(s) /\ closer' = [closer EXCEPT !.todo = @ \ {s}, !.on = s]
  <2>1. /\ closer' \in CloserRecord /\ closer'.phase = closer.phase /\ closer'.on = s
        /\ closer'.todo = closer.todo \ {s} /\ closer'.failed = closer.failed
    BY <1>0, <1>1, Zenon DEF CloserRecord
  <2>2. /\ sub' \in [Subscription -> SubRecord] /\ registered' \subseteq registered
        /\ RegisteredLive' /\ GenerationsDrawn'
    BY <1>0, <1>1, CancelCoherent, CoherentStep, Zenon
  <2>3. \A t \in registered' : t \in Subscription /\ t # closer.on
    BY <1>0, <2>2, Zenon DEF HandleTypeOK
  <2>4. \A t \in registered' :
          \/ closer'.failed \/ t = closer'.on \/ t \in closer'.todo
          \/ closer'.phase = "runtime" /\ Handle!Kind(t) = "business"
    BY <1>0, <2>1, <2>2, <2>3, Zenon DEF CloseCovers
  <2>. QED BY <1>0, <2>1, <2>2, <2>4, ClosingStep, Zenon
<1>2. CASE Handle!CancelThrows(s) /\ closer' = [closer EXCEPT !.todo = @ \ {s}, !.failed = TRUE]
  <2>1. closer' \in CloserRecord /\ closer'.phase = closer.phase /\ closer'.failed
    BY <1>0, <1>2, Zenon DEF CloserRecord
  <2>2. /\ sub' \in [Subscription -> SubRecord] /\ registered' \subseteq registered
        /\ RegisteredLive' /\ GenerationsDrawn'
    BY <1>0, <1>2, CancelCoherent, CoherentStep, Zenon
  <2>. QED BY <1>0, <2>1, <2>2, ClosingStep, Zenon
<1>3. CASE /\ Handle!At(s, "final") /\ closer' = [closer EXCEPT !.todo = @ \ {s}]
           /\ UNCHANGED <<sub, registered, failures>>
  <2>1. /\ closer' \in CloserRecord /\ closer'.phase = closer.phase /\ closer'.on = NoOne
        /\ closer'.todo = closer.todo \ {s} /\ closer'.failed = closer.failed
    BY <1>0, <1>3, Zenon DEF CloserRecord
  <2>2. s \notin registered
    BY <1>3, Zenon DEF RegisteredLive, Handle!At
  <2>3. /\ sub' \in [Subscription -> SubRecord] /\ registered' \subseteq registered
        /\ RegisteredLive' /\ GenerationsDrawn'
    BY <1>0, <1>3, Zenon DEF HandleTypeOK, RegisteredLive, GenerationsDrawn, Handle!At,
       Handle!Kind
  <2>. QED BY <1>0, <1>3, <2>1, <2>2, <2>3, ClosingStep, Zenon DEF CloseCovers
<1>. QED BY <1>1, <1>2, <1>3, Zenon DEF Handle!CloseCancels

LEMMA CloseGoesOnInv ==
  ASSUME HandleIInv, NoOne \notin Subscription, Handle!CloseResumes \/ Handle!CloseBusiness
  PROVE  HandleIInv'
<1>. USE DEF HandleIInv
<1>0. /\ closer \in CloserRecord /\ UNCHANGED <<Handle!handle, generation, registered, sub>>
      /\ Handle!Snapshot("business") \subseteq Subscription
      /\ \A s \in registered : Handle!Kind(s) = "business" => s \in Handle!Snapshot("business")
      /\ \A s \in registered : s \in Subscription
  BY Zenon DEF Handle!CloseResumes, Handle!CloseBusiness, HandleTypeOK, CloserRecord,
     Handle!Snapshot
<1>1. /\ sub' \in [Subscription -> SubRecord] /\ registered' \subseteq registered
      /\ RegisteredLive' /\ GenerationsDrawn'
  BY <1>0, Zenon DEF HandleTypeOK, RegisteredLive, GenerationsDrawn, Handle!At, Handle!Kind
<1>2. CASE Handle!CloseResumes
  <2>1. /\ closer' \in CloserRecord /\ closer'.phase = closer.phase /\ closer'.on = NoOne
        /\ closer'.todo = closer.todo /\ closer'.failed = closer.failed
    BY <1>0, <1>2, Zenon DEF CloserRecord, Handle!CloseResumes
  <2>2. closer.on \notin registered /\ closer.on # NoOne
    BY <1>0, <1>2, Zenon DEF Handle!CloseResumes, RegisteredLive, Handle!At
  <2>. QED BY <1>0, <1>1, <2>1, <2>2, ClosingStep, Zenon DEF CloseCovers, ClosePhase
<1>3. CASE Handle!CloseBusiness
  <2>1. /\ closer' \in CloserRecord /\ closer'.phase = "business" /\ closer'.on = NoOne
        /\ closer'.todo = Handle!Snapshot("business") /\ closer'.failed = closer.failed
        /\ closer.phase = "runtime" /\ closer.todo = {} /\ closer.on = NoOne
    BY <1>0, <1>3, Zenon DEF CloserRecord, Handle!CloseBusiness, Phase
  <2>. QED BY <1>0, <1>1, <2>1, ClosingStep, Zenon DEF CloseCovers, ClosePhase
<1>. QED BY <1>2, <1>3, Zenon

\* With both loops done and nothing failed, nothing is registered.
LEMMA CloseNativeInv ==
  ASSUME HandleIInv, NoOne \notin Subscription, Handle!CloseNative
  PROVE  HandleIInv'
<1>. USE DEF HandleIInv
<1>1. /\ closed = "pending" /\ closer' = Handle!NoCloser /\ closed' \in {"failed", "done"}
      /\ closed' = "done" => ~closer.failed
      /\ closer.phase = "business" /\ closer.todo = {} /\ closer.on = NoOne
      /\ UNCHANGED <<terminal, registered, generation, sub>>
  BY Zenon DEF Handle!CloseNative, ClosePhase
<1>2. /\ Handle!NoCloser \in CloserRecord /\ Handle!NoCloser.phase = "none" /\ Handle!NoCloser.todo = {}
      /\ Handle!NoCloser.on = NoOne
  BY Zenon DEF Handle!NoCloser, CloserRecord, Phase
<1>3. closed' = "done" => registered = {}
  <2>. SUFFICES ASSUME closed' = "done", NEW s \in registered
                PROVE  FALSE
    BY Zenon
  <2>1. ~closer.failed /\ closer.phase # "runtime" /\ s \notin closer.todo
    BY <1>1, Zenon
  <2>2. s # closer.on
    BY <1>1, Zenon DEF HandleTypeOK
  <2>. QED BY <1>1, <2>1, <2>2, Zenon DEF CloseCovers
<1>4. HandleTypeOK' /\ ClosePhase'
  BY <1>1, <1>2, Zenon DEF HandleTypeOK, CloserRecord, ClosePhase
<1>5. CloseCovers'
  BY <1>1, <1>3, Zenon DEF CloseCovers
<1>6. RegisteredLive' /\ GenerationsDrawn'
  BY <1>1, Zenon DEF RegisteredLive, GenerationsDrawn, Handle!At, Handle!Kind
<1>. QED BY <1>4, <1>5, <1>6, Zenon

LEMMA HandleRests ==
  ASSUME HandleIInv, UNCHANGED <<terminal, closed, registered, generation, sub, closer>>
  PROVE  HandleIInv'
BY Zenon DEF HandleIInv, HandleTypeOK, RegisteredLive, ClosePhase, CloseCovers,
   GenerationsDrawn, Handle!At, Handle!Kind

LEMMA HandleInit == Handle!Init => HandleIInv
<1>. SUFFICES ASSUME Handle!Init PROVE HandleIInv
  OBVIOUS
<1>1. /\ Handle!Fresh \in SubRecord /\ Handle!Fresh.pc = "none" /\ Handle!Fresh.generation = 0
      /\ Handle!NoCloser.phase = "none" /\ Handle!NoCloser.todo = {} /\ Handle!NoCloser.on = NoOne
      /\ Handle!NoCloser \in [phase : Phase, todo : SUBSET Subscription,
                       on : Subscription \cup {NoOne}, failed : BOOLEAN]
  BY DEF Handle!Fresh, SubRecord, Handle!NoCloser, Phase
<1>2. HandleTypeOK
  BY <1>1, Zenon DEF Handle!Init, HandleTypeOK
<1>3. RegisteredLive /\ ClosePhase /\ CloseCovers
  BY <1>1, Zenon DEF Handle!Init, RegisteredLive, ClosePhase, CloseCovers, Handle!At
<1>4. GenerationsDrawn
  BY <1>1 DEF Handle!Init, GenerationsDrawn, Handle!Kind
<1>. QED BY <1>2, <1>3, <1>4, Zenon DEF HandleIInv

LEMMA HandleNext ==
  ASSUME Handle!ConstantsAssumption
  PROVE  HandleIInv /\ [Handle!Next]_(Handle!vars) => HandleIInv'
<1>. SUFFICES ASSUME HandleIInv, [Handle!Next]_(Handle!vars) PROVE HandleIInv'
  OBVIOUS
<1>0. NoOne \notin Subscription
  BY Zenon DEF Handle!ConstantsAssumption
<1>1. CASE \E s \in Subscription :
             \/ Handle!Subscribe(s) \/ Handle!NativeSubscribe(s) \/ Handle!Opened(s)
             \/ Handle!Listen(s) \/ Handle!PumpEnds(s) \/ Handle!Cancel(s) \/ Handle!CloseCancels(s)
  BY <1>0, <1>1, SubscribeInv, NativeSubscribeInv, OpenedInv, ListeningInv,
     CloseCancelsInv, Zenon
<1>2. CASE Handle!Close \/ Handle!CloseResumes \/ Handle!CloseBusiness \/ Handle!CloseNative
  BY <1>0, <1>2, CloseInv, CloseGoesOnInv, CloseNativeInv, Zenon
<1>3. CASE Handle!Dispose \/ UNCHANGED Handle!vars
  BY <1>3, HandleRests, Zenon DEF Handle!Dispose, Handle!vars
<1>. QED BY <1>1, <1>2, <1>3, Zenon DEF Handle!Next

\* After a close() that completed without an error no subscription runs or is
\* registered, and no two subscriptions of a kind share a generation, for any
\* subscriptions and however many cancellations fail on the way.
THEOREM ClosedIsQuiet == Handle!Spec => []ClosedQuiets
<1>1. HandleIInv => ClosedQuiets
  BY Zenon DEF HandleIInv, CloseCovers, RegisteredLive, GenerationsDrawn, ClosedQuiets,
               Handle!ClosedQuiets
<1>2. Handle!ConstantsAssumption
  BY ProcessAssumption, Zenon
<1>3. Handle!Init => HandleIInv
  BY <1>2, HandleInit, Zenon
<1>4. HandleIInv /\ [Handle!Next]_(Handle!vars) => HandleIInv'
  BY <1>2, HandleNext, Zenon
<1>. QED BY <1>1, <1>3, <1>4, PTL DEF Handle!Spec

-----------------------------------------------------------------------------
(* The initializations of the process                                      *)

Asked == Configuration \cup {Unit}
AttemptRecord == [phase : {"running", "answered", "recorded", "completed"},
                  configuration : Asked, succeeds : BOOLEAN]
LifecycleRecord == [initialization : Nat, pendingConfiguration : Asked \cup {None},
                    configuration : Asked \cup {None}, isInitialized : BOOLEAN]
RuntimeCallRecord == [pc : {"idle", "waiting"}, service : Service, asked : Asked,
                      attempt : Nat, outcome : {"none", "ok", "failed", "StateError"}]

RuntimeTypeOK ==
  /\ lifecycle \in [Service -> LifecycleRecord]
  /\ attempts \in [Service -> Seq(AttemptRecord)]
  /\ native \in [Service -> Asked \cup {None}]
  /\ caller \in [Caller -> RuntimeCallRecord]

\* The attempts of a service come one after the other: only the last one may be
\* unfinished, and then the lifecycle waits for it.
AttemptsInTurn(s) ==
  LET l == lifecycle[s] IN
  /\ l.initialization \in {0, Len(attempts[s])}
  /\ \A n \in DOMAIN attempts[s] :
       attempts[s][n].phase # "completed" <=> n = l.initialization
  /\ l.initialization # 0 =>
       l.pendingConfiguration = attempts[s][l.initialization].configuration

\* A success is the last attempt; what it leaves on both sides.
SuccessFinal(s) ==
  LET l == lifecycle[s] IN
  /\ \A n \in DOMAIN attempts[s] : attempts[s][n].succeeds =>
       /\ n = Len(attempts[s])
       /\ native[s] = attempts[s][n].configuration
       /\ attempts[s][n].phase # "running"
       /\ attempts[s][n].phase # "answered" =>
            l.isInitialized /\ l.configuration = attempts[s][n].configuration
  /\ l.isInitialized =>
       /\ native[s] = l.configuration
       /\ \A n \in DOMAIN attempts[s] : attempts[s][n].phase \in {"recorded", "completed"}

\* What a call waits for, or was told.
Told(r) ==
  LET s == r.service IN
  /\ r.pc = "waiting" \/ r.outcome = "failed" =>
       /\ r.attempt \in DOMAIN attempts[s]
       /\ r.asked = attempts[s][r.attempt].configuration
  /\ r.outcome = "failed" => attempts[s][r.attempt].phase = "completed"
  /\ r.outcome = "ok" => lifecycle[s].isInitialized /\ lifecycle[s].configuration = r.asked

RuntimeIInv ==
  /\ RuntimeTypeOK
  /\ \A s \in Service : AttemptsInTurn(s) /\ SuccessFinal(s)
  /\ \A c \in Caller : Told(caller[c])

-----------------------------------------------------------------------------

\* A call returns or waits.
LEMMA CallStep ==
  ASSUME RuntimeIInv, NEW c \in Caller, NEW r \in RuntimeCallRecord,
         caller' = [caller EXCEPT ![c] = r], Told(r),
         UNCHANGED <<lifecycle, attempts, native>>
  PROVE  RuntimeIInv'
<1>1. RuntimeTypeOK'
  BY Zenon DEF RuntimeIInv, RuntimeTypeOK
<1>2. \A s \in Service : AttemptsInTurn(s)' /\ SuccessFinal(s)'
  <2>1. \A s \in Service : AttemptsInTurn(s)'
    BY Zenon DEF RuntimeIInv, AttemptsInTurn
  <2>2. \A s \in Service : SuccessFinal(s)'
    BY Zenon DEF RuntimeIInv, SuccessFinal
  <2>. QED BY <2>1, <2>2, Zenon
<1>3. \A d \in Caller : caller'[d] = IF d = c THEN r ELSE caller[d]
  BY Zenon DEF RuntimeIInv, RuntimeTypeOK
<1>4. \A d \in Caller : Told(caller'[d])
  BY <1>3, Zenon DEF RuntimeIInv
<1>5. \A d \in Caller : Told(caller[d])'
  BY <1>4, Zenon DEF Told
<1>. QED BY <1>1, <1>2, <1>5, Zenon DEF RuntimeIInv

\* The step of one service.
ServiceMoves(s) ==
  \A t \in Service : t # s => /\ lifecycle'[t] = lifecycle[t]
                              /\ attempts'[t] = attempts[t]
                              /\ native'[t] = native[t]

\* Attempts go on, and nothing of a success is forgotten.
GoesOn(s) ==
  /\ \A n \in DOMAIN attempts[s] :
       /\ n \in DOMAIN attempts'[s]
       /\ attempts'[s][n].configuration = attempts[s][n].configuration
       /\ attempts[s][n].phase = "completed" => attempts'[s][n].phase = "completed"
  /\ lifecycle[s].isInitialized =>
       /\ lifecycle'[s].isInitialized
       /\ lifecycle'[s].configuration = lifecycle[s].configuration

LEMMA ToldKept ==
  ASSUME NEW s \in Service, ServiceMoves(s), GoesOn(s), NEW r \in RuntimeCallRecord, Told(r)
  PROVE  Told(r)'
<1>1. r.service \in Service
  BY Zenon DEF RuntimeCallRecord
<1>2. CASE r.service = s
  BY <1>2, Zenon DEF Told, GoesOn
<1>3. CASE r.service # s
  BY <1>1, <1>3, Zenon DEF Told, ServiceMoves
<1>. QED BY <1>2, <1>3, Zenon

LEMMA ServiceStep ==
  ASSUME RuntimeIInv, NEW s \in Service, RuntimeTypeOK', ServiceMoves(s), GoesOn(s),
         AttemptsInTurn(s)', SuccessFinal(s)',
         \A c \in Caller : caller'[c] = caller[c] \/ Told(caller[c])'
  PROVE  RuntimeIInv'
<1>1. ASSUME NEW t \in Service, t # s
      PROVE  AttemptsInTurn(t)' /\ SuccessFinal(t)'
  <2>1. AttemptsInTurn(t) /\ SuccessFinal(t)
    BY Zenon DEF RuntimeIInv
  <2>2. AttemptsInTurn(t)'
    BY <1>1, <2>1, Zenon DEF AttemptsInTurn, ServiceMoves
  <2>3. SuccessFinal(t)'
    BY <1>1, <2>1, Zenon DEF SuccessFinal, ServiceMoves
  <2>. QED BY <2>2, <2>3, Zenon
<1>2. \A c \in Caller : caller[c] \in RuntimeCallRecord /\ Told(caller[c])
  BY Zenon DEF RuntimeIInv, RuntimeTypeOK
<1>3. ASSUME NEW c \in Caller
      PROVE  Told(caller[c])'
  <2>1. ASSUME caller'[c] = caller[c]
        PROVE  Told(caller[c])'
    <3>1. \A r \in RuntimeCallRecord : Told(r) => Told(r)'
      BY ToldKept, Zenon
    <3>. QED BY <1>2, <2>1, <3>1, Zenon
  <2>. QED BY <2>1, Zenon
<1>. QED BY <1>1, <1>3, Zenon DEF RuntimeIInv
-----------------------------------------------------------------------------

\* What the invariant says of one service.
LEMMA ServiceFields ==
  ASSUME RuntimeIInv, NEW s \in Service
  PROVE  /\ lifecycle[s] \in LifecycleRecord /\ attempts[s] \in Seq(AttemptRecord)
         /\ native[s] \in Asked \cup {None}
         /\ Len(attempts[s]) \in Nat /\ DOMAIN attempts[s] = 1..Len(attempts[s])
         /\ lifecycle[s].initialization \in Nat
         /\ lifecycle[s].isInitialized \in BOOLEAN
         /\ \A n \in DOMAIN attempts[s] :
              /\ attempts[s][n] \in AttemptRecord
              /\ attempts[s][n].configuration \in Asked
              /\ attempts[s][n].succeeds \in BOOLEAN
         /\ AttemptsInTurn(s) /\ SuccessFinal(s)
<1>1. lifecycle[s] \in LifecycleRecord /\ attempts[s] \in Seq(AttemptRecord)
      /\ native[s] \in Asked \cup {None}
  BY Zenon DEF RuntimeIInv, RuntimeTypeOK
<1>2. lifecycle[s].initialization \in Nat /\ lifecycle[s].isInitialized \in BOOLEAN
  BY <1>1, Zenon DEF LifecycleRecord
<1>3. Len(attempts[s]) \in Nat /\ DOMAIN attempts[s] = 1..Len(attempts[s])
  BY <1>1
<1>4. \A n \in DOMAIN attempts[s] : attempts[s][n] \in AttemptRecord
  BY <1>1
<1>5. \A r \in AttemptRecord : r.configuration \in Asked /\ r.succeeds \in BOOLEAN
  BY Zenon DEF AttemptRecord
<1>. QED BY <1>1, <1>2, <1>3, <1>4, <1>5, Zenon DEF RuntimeIInv

\* The attempts of a service after a change of one of them.
LEMMA AttemptChanges ==
  ASSUME RuntimeIInv, NEW s \in Service, NEW n \in DOMAIN attempts[s],
         NEW r \in AttemptRecord,
         attempts' = [attempts EXCEPT ![s] = [attempts[s] EXCEPT ![n] = r]]
  PROVE  /\ attempts' \in [Service -> Seq(AttemptRecord)]
         /\ Len(attempts'[s]) = Len(attempts[s])
         /\ DOMAIN attempts'[s] = DOMAIN attempts[s]
         /\ attempts'[s][n] = r
         /\ \A m \in DOMAIN attempts[s] : m # n => attempts'[s][m] = attempts[s][m]
         /\ \A t \in Service : t # s => attempts'[t] = attempts[t]
<1>. DEFINE new == [attempts[s] EXCEPT ![n] = r]
<1>1. attempts[s] \in Seq(AttemptRecord)
  BY ServiceFields, Zenon
<1>2. new \in Seq(AttemptRecord) /\ Len(new) = Len(attempts[s])
  BY <1>1
<1>3. DOMAIN new = DOMAIN attempts[s] /\ new[n] = r
      /\ \A m \in DOMAIN attempts[s] : m # n => new[m] = attempts[s][m]
  BY Zenon
<1>4. attempts \in [Service -> Seq(AttemptRecord)]
  BY Zenon DEF RuntimeIInv, RuntimeTypeOK
<1>5. attempts' = [attempts EXCEPT ![s] = new]
  BY Zenon
<1>. HIDE DEF new
<1>6. attempts'[s] = new /\ \A t \in Service : t # s => attempts'[t] = attempts[t]
  BY <1>4, <1>5, Zenon
<1>7. attempts' \in [Service -> Seq(AttemptRecord)]
  BY <1>2, <1>4, <1>5, Zenon
<1>. QED BY <1>2, <1>3, <1>6, <1>7, Zenon

\* The lifecycle of a service after a change of it.
LEMMA LifecycleChanges ==
  ASSUME RuntimeIInv, NEW s \in Service, NEW l \in LifecycleRecord,
         lifecycle' = [lifecycle EXCEPT ![s] = l]
  PROVE  /\ lifecycle' \in [Service -> LifecycleRecord]
         /\ lifecycle'[s] = l
         /\ \A t \in Service : t # s => lifecycle'[t] = lifecycle[t]
  BY Zenon DEF RuntimeIInv, RuntimeTypeOK

\* An unfinished attempt is the last one, and nothing succeeded before it.
LEMMA Current ==
  ASSUME RuntimeIInv, NEW s \in Service, NEW n \in DOMAIN attempts[s],
         attempts[s][n].phase # "completed"
  PROVE  /\ n = lifecycle[s].initialization /\ n = Len(attempts[s]) /\ n # 0
         /\ \A m \in DOMAIN attempts[s] :
              m # n => attempts[s][m].phase = "completed" /\ ~attempts[s][m].succeeds
<1>1. n = lifecycle[s].initialization
  BY ServiceFields, Zenon DEF AttemptsInTurn
<1>2. n \in Nat /\ n # 0
  BY ServiceFields
<1>3. n = Len(attempts[s])
  BY <1>1, <1>2, ServiceFields, Zenon DEF AttemptsInTurn
<1>4. \A m \in DOMAIN attempts[s] : m # n => attempts[s][m].phase = "completed"
  BY <1>1, ServiceFields, Zenon DEF AttemptsInTurn
<1>5. \A m \in DOMAIN attempts[s] : m # n => ~attempts[s][m].succeeds
  BY <1>3, ServiceFields, Zenon DEF SuccessFinal
<1>. QED BY <1>1, <1>2, <1>3, <1>4, <1>5, Zenon

-----------------------------------------------------------------------------

LEMMA AgainInv ==
  ASSUME RuntimeIInv, NEW c \in Caller, NEW s \in Service, NEW f \in Runtime!Requests(s),
         Runtime!InitializeAgain(c, s, f)
  PROVE  RuntimeIInv'
<1>1. f \in Asked
  BY Zenon DEF Runtime!Requests, Asked
<1>2. UNCHANGED <<lifecycle, attempts, native>>
  BY Zenon DEF Runtime!InitializeAgain
<1>3. ASSUME NEW out \in {"ok", "StateError"}, Runtime!Returns(c, s, f, 0, out),
             out = "ok" => lifecycle[s].isInitialized /\ lifecycle[s].configuration = f
      PROVE  RuntimeIInv'
  <2>. DEFINE r == [pc |-> "idle", service |-> s, asked |-> f, attempt |-> 0, outcome |-> out]
  <2>1. 0 \in Nat /\ out \in {"none", "ok", "failed", "StateError"} /\ out # "failed"
    OBVIOUS
  <2>2. r \in RuntimeCallRecord
    BY <1>1, <2>1, Zenon DEF RuntimeCallRecord
  <2>3. r.pc = "idle" /\ r.service = s /\ r.asked = f /\ r.outcome = out
    BY Zenon
  <2>4. caller' = [caller EXCEPT ![c] = r]
    BY <1>3, Zenon DEF Runtime!Returns
  <2>. HIDE DEF r
  <2>5. Told(r)
    BY <1>3, <2>1, <2>3, Zenon DEF Told
  <2>. QED BY <1>2, <2>2, <2>4, <2>5, CallStep, Zenon
<1>4. ASSUME lifecycle[s].initialization # 0, Runtime!Joins(s, f),
             Runtime!Waits(c, s, f, lifecycle[s].initialization)
      PROVE  RuntimeIInv'
  <2>. DEFINE n == lifecycle[s].initialization
              r == [pc |-> "waiting", service |-> s, asked |-> f, attempt |-> n,
                    outcome |-> "none"]
  <2>1. n \in Nat /\ n \in DOMAIN attempts[s]
    BY <1>4, ServiceFields DEF AttemptsInTurn
  <2>2. attempts[s][n].configuration = f
    BY <1>4, ServiceFields, Zenon DEF AttemptsInTurn, Runtime!Joins
  <2>3. r \in RuntimeCallRecord
    BY <1>1, <2>1, Zenon DEF RuntimeCallRecord
  <2>4. r.pc = "waiting" /\ r.service = s /\ r.asked = f /\ r.attempt = n /\ r.outcome = "none"
    BY Zenon
  <2>5. caller' = [caller EXCEPT ![c] = r]
    BY <1>4, Zenon DEF Runtime!Waits
  <2>. HIDE DEF r, n
  <2>6. Told(r)
    BY <2>1, <2>2, <2>4, Zenon DEF Told
  <2>. QED BY <1>2, <2>3, <2>5, <2>6, CallStep, Zenon
<1>5. CASE Runtime!Returns(c, s, f, 0, "StateError")
  BY <1>3, <1>5, Zenon
<1>6. CASE lifecycle[s].isInitialized
           /\ Runtime!Returns(c, s, f, 0, IF lifecycle[s].configuration = f THEN "ok" ELSE "StateError")
  BY <1>3, <1>6, Zenon
<1>. QED BY <1>4, <1>5, <1>6, Zenon DEF Runtime!InitializeAgain

LEMMA DeliverInv ==
  ASSUME RuntimeIInv, NEW c \in Caller, Runtime!Deliver(c)
  PROVE  RuntimeIInv'
<1>. DEFINE s == caller[c].service
            n == caller[c].attempt
            f == caller[c].asked
            out == IF attempts[s][n].succeeds THEN "ok" ELSE "failed"
            r == [pc |-> "idle", service |-> s, asked |-> f, attempt |-> n, outcome |-> out]
<1>1. s \in Service /\ n \in Nat /\ f \in Asked
  BY Zenon DEF RuntimeIInv, RuntimeTypeOK, RuntimeCallRecord
<1>2. caller[c].pc = "waiting" /\ attempts[s][n].phase = "completed"
      /\ caller' = [caller EXCEPT ![c] = r] /\ UNCHANGED <<lifecycle, attempts, native>>
  BY Zenon DEF Runtime!Deliver, Runtime!Returns
<1>3. n \in DOMAIN attempts[s] /\ f = attempts[s][n].configuration
  BY <1>2, Zenon DEF RuntimeIInv, Told
<1>4. attempts[s][n].succeeds => lifecycle[s].isInitialized /\ lifecycle[s].configuration = f
  BY <1>1, <1>2, <1>3, ServiceFields, Zenon DEF SuccessFinal
<1>5. r \in RuntimeCallRecord
  BY <1>1, Zenon DEF RuntimeCallRecord
<1>6. r.pc = "idle" /\ r.service = s /\ r.asked = f /\ r.attempt = n
      /\ (r.outcome = "ok" => attempts[s][n].succeeds)
  BY Zenon
<1>. HIDE DEF r, s, n, f
<1>7. Told(r)
  BY <1>2, <1>3, <1>4, <1>6, Zenon DEF Told
<1>. QED BY <1>2, <1>5, <1>7, CallStep, Zenon
LEMMA FirstInv ==
  ASSUME RuntimeIInv, NEW c \in Caller, NEW s \in Service, NEW f \in Runtime!Requests(s),
         Runtime!InitializeFirst(c, s, f)
  PROVE  RuntimeIInv'
<1>. DEFINE n == Len(attempts[s]) + 1
            a == [phase |-> "running", configuration |-> f, succeeds |-> FALSE]
            l == [lifecycle[s] EXCEPT !.initialization = n, !.pendingConfiguration = f]
            q == Append(attempts[s], a)
            r == [pc |-> "waiting", service |-> s, asked |-> f, attempt |-> n,
                  outcome |-> "none"]
<1>1. f \in Asked
  BY Zenon DEF Runtime!Requests, Asked
<1>2. n \in Nat /\ n # 0
  BY ServiceFields
<1>3. a \in AttemptRecord /\ a.phase = "running" /\ a.configuration = f /\ a.succeeds = FALSE
  BY <1>1, Zenon DEF AttemptRecord
<1>4. l \in LifecycleRecord /\ l.initialization = n /\ l.pendingConfiguration = f
      /\ l.isInitialized = lifecycle[s].isInitialized
  BY <1>1, <1>2, ServiceFields, Zenon DEF LifecycleRecord
<1>5. r \in RuntimeCallRecord /\ r.pc = "waiting" /\ r.service = s /\ r.asked = f /\ r.attempt = n
      /\ r.outcome = "none"
  BY <1>1, <1>2, Zenon DEF RuntimeCallRecord
<1>6. ~lifecycle[s].isInitialized /\ lifecycle[s].initialization = 0
  BY Zenon DEF Runtime!InitializeFirst
<1>7. attempts' = [attempts EXCEPT ![s] = q] /\ native' = native
      /\ caller' = [caller EXCEPT ![c] = r]
  BY Zenon DEF Runtime!InitializeFirst, Runtime!Waits
<1>8. lifecycle' = [lifecycle EXCEPT ![s] = l]
  BY Zenon DEF Runtime!InitializeFirst
<1>. HIDE DEF a, l, r
<1>9. /\ q \in Seq(AttemptRecord) /\ Len(q) = n /\ DOMAIN q = DOMAIN attempts[s] \cup {n}
      /\ n \notin DOMAIN attempts[s]
      /\ q[n] = a /\ \A m \in DOMAIN attempts[s] : q[m] = attempts[s][m]
  BY <1>3, ServiceFields
<1>. HIDE DEF n, q
<1>10. /\ attempts' \in [Service -> Seq(AttemptRecord)] /\ attempts'[s] = q
       /\ \A t \in Service : t # s => attempts'[t] = attempts[t]
  BY <1>7, <1>9, Zenon DEF RuntimeIInv, RuntimeTypeOK
<1>11. /\ lifecycle' \in [Service -> LifecycleRecord] /\ lifecycle'[s] = l
       /\ \A t \in Service : t # s => lifecycle'[t] = lifecycle[t]
  BY <1>4, <1>8, LifecycleChanges, Zenon
<1>12. caller' \in [Caller -> RuntimeCallRecord]
       /\ \A d \in Caller : caller'[d] = IF d = c THEN r ELSE caller[d]
  BY <1>5, <1>7, Zenon DEF RuntimeIInv, RuntimeTypeOK
<1>13. RuntimeTypeOK'
  BY <1>7, <1>10, <1>11, <1>12, Zenon DEF RuntimeIInv, RuntimeTypeOK
<1>14. ServiceMoves(s)
  BY <1>7, <1>10, <1>11, Zenon DEF ServiceMoves
<1>15. GoesOn(s)
  BY <1>6, <1>9, <1>10, Zenon DEF GoesOn
<1>16. \A m \in DOMAIN attempts[s] : attempts[s][m].phase = "completed"
  BY <1>6, ServiceFields DEF AttemptsInTurn
<1>17. \A m \in DOMAIN attempts[s] : ~attempts[s][m].succeeds
  BY <1>6, <1>16, ServiceFields, Zenon DEF SuccessFinal
<1>18. \A m \in DOMAIN attempts'[s] :
         (attempts'[s][m].phase # "completed" <=> m = n) /\ ~attempts'[s][m].succeeds
  BY <1>3, <1>9, <1>10, <1>16, <1>17, Zenon
<1>19. AttemptsInTurn(s)'
  BY <1>3, <1>4, <1>9, <1>10, <1>11, <1>18, Zenon DEF AttemptsInTurn
<1>20. SuccessFinal(s)'
  BY <1>4, <1>6, <1>11, <1>18, Zenon DEF SuccessFinal
<1>21. \A d \in Caller : caller'[d] = caller[d] \/ Told(caller[d])'
  <2>1. Told(caller[c])'
    BY <1>3, <1>5, <1>9, <1>10, <1>12, Zenon DEF Told
  <2>. QED BY <1>12, <2>1, Zenon
<1>. QED BY <1>13, <1>14, <1>15, <1>19, <1>20, <1>21, ServiceStep, Zenon

LEMMA AnswersInv ==
  ASSUME RuntimeIInv, NEW s \in Service, NEW n \in DOMAIN attempts[s],
         Runtime!NativeAnswers(s, n)
  PROVE  RuntimeIInv'
<1>. DEFINE f == attempts[s][n].configuration
<1>1. attempts[s][n].phase = "running" /\ UNCHANGED <<lifecycle, caller>>
  BY Zenon DEF Runtime!NativeAnswers
<1>2. PICK ok \in BOOLEAN :
        /\ attempts' = [attempts EXCEPT ![s][n].phase = "answered", ![s][n].succeeds = ok]
        /\ native' = [native EXCEPT ![s] = IF ok THEN f ELSE @]
  <2>1. Runtime!Accepted(s, f) \in BOOLEAN
    <3>1. CASE s = "crypto"
      BY <3>1 DEF Runtime!Accepted
    <3>2. CASE s = "logger"
      BY <3>2 DEF Runtime!Accepted
    <3>3. CASE s # "crypto" /\ s # "logger"
      BY <3>3 DEF Runtime!Accepted
    <3>. QED BY <3>1, <3>2, <3>3, Zenon
  <2>. QED BY <2>1, Zenon DEF Runtime!NativeAnswers
<1>. DEFINE a == [attempts[s][n] EXCEPT !.phase = "answered", !.succeeds = ok]
<1>3. a \in AttemptRecord /\ a.phase = "answered" /\ a.configuration = f /\ a.succeeds = ok
  <2>1. attempts[s][n] \in AttemptRecord
    BY ServiceFields, Zenon
  <2>. QED BY <2>1, Zenon DEF AttemptRecord
<1>4. attempts' = [attempts EXCEPT ![s] = [attempts[s] EXCEPT ![n] = a]]
  BY <1>2, Zenon
<1>. HIDE DEF a
<1>5. /\ attempts' \in [Service -> Seq(AttemptRecord)]
      /\ Len(attempts'[s]) = Len(attempts[s])
      /\ DOMAIN attempts'[s] = DOMAIN attempts[s]
      /\ attempts'[s][n] = a
      /\ \A m \in DOMAIN attempts[s] : m # n => attempts'[s][m] = attempts[s][m]
      /\ \A t \in Service : t # s => attempts'[t] = attempts[t]
  BY <1>3, <1>4, AttemptChanges, Zenon
<1>6. f \in Asked
  BY ServiceFields, Zenon
<1>7. native' \in [Service -> Asked \cup {None}]
      /\ (ok => native'[s] = f) /\ \A t \in Service : t # s => native'[t] = native[t]
  BY <1>2, <1>6, Zenon DEF RuntimeIInv, RuntimeTypeOK
<1>8. RuntimeTypeOK' /\ ServiceMoves(s)
  BY <1>1, <1>5, <1>7, Zenon DEF RuntimeIInv, RuntimeTypeOK, ServiceMoves
<1>9. GoesOn(s)
  BY <1>1, <1>3, <1>5, Zenon DEF GoesOn
<1>10. /\ n = lifecycle[s].initialization /\ n = Len(attempts[s]) /\ n # 0
       /\ \A m \in DOMAIN attempts[s] :
            m # n => attempts[s][m].phase = "completed" /\ ~attempts[s][m].succeeds
  BY <1>1, Current, Zenon
<1>11. AttemptsInTurn(s)'
  <2>1. \A m \in DOMAIN attempts'[s] : attempts'[s][m].phase # "completed" <=> m = n
    BY <1>3, <1>5, <1>10, Zenon
  <2>2. lifecycle[s].pendingConfiguration = f
    BY <1>10, ServiceFields, Zenon DEF AttemptsInTurn
  <2>. QED BY <1>1, <1>3, <1>5, <1>10, <2>1, <2>2, Zenon DEF AttemptsInTurn
<1>12. SuccessFinal(s)'
  <2>1. ~lifecycle[s].isInitialized
    BY <1>1, ServiceFields, Zenon DEF SuccessFinal
  <2>2. \A m \in DOMAIN attempts'[s] : attempts'[s][m].succeeds => m = n /\ ok
    BY <1>3, <1>5, <1>10, Zenon
  <2>. QED BY <1>1, <1>3, <1>5, <1>7, <1>10, <2>1, <2>2, Zenon DEF SuccessFinal
<1>. QED BY <1>1, <1>8, <1>9, <1>11, <1>12, ServiceStep, Zenon

LEMMA ThenInv ==
  ASSUME RuntimeIInv, NEW s \in Service, NEW n \in DOMAIN attempts[s], Runtime!Then(s, n)
  PROVE  RuntimeIInv'
<1>. DEFINE a == [attempts[s][n] EXCEPT !.phase = "recorded"]
            f == attempts[s][n].configuration
            l == IF attempts[s][n].succeeds
                   THEN [lifecycle[s] EXCEPT !.isInitialized = TRUE, !.configuration = f]
                   ELSE lifecycle[s]
<1>1. attempts[s][n].phase = "answered" /\ UNCHANGED <<native, caller>>
  BY Zenon DEF Runtime!Then
<1>2. a \in AttemptRecord /\ a.phase = "recorded" /\ a.configuration = f
      /\ a.succeeds = attempts[s][n].succeeds
  <2>1. attempts[s][n] \in AttemptRecord
    BY ServiceFields, Zenon
  <2>. QED BY <2>1, Zenon DEF AttemptRecord
<1>3. attempts' = [attempts EXCEPT ![s] = [attempts[s] EXCEPT ![n] = a]]
  BY Zenon DEF Runtime!Then
<1>4. l \in LifecycleRecord /\ l.initialization = lifecycle[s].initialization
      /\ l.pendingConfiguration = lifecycle[s].pendingConfiguration
      /\ (attempts[s][n].succeeds => l.isInitialized /\ l.configuration = f)
      /\ (~attempts[s][n].succeeds => l = lifecycle[s])
  BY ServiceFields, Zenon DEF LifecycleRecord
<1>5. lifecycle' = [lifecycle EXCEPT ![s] = l]
  <2>1. lifecycle = [lifecycle EXCEPT ![s] = lifecycle[s]]
    BY Zenon DEF RuntimeIInv, RuntimeTypeOK
  <2>2. CASE attempts[s][n].succeeds
    BY <2>2, Zenon DEF Runtime!Then
  <2>3. CASE ~attempts[s][n].succeeds
    BY <2>1, <2>3, Zenon DEF Runtime!Then
  <2>. QED BY <2>2, <2>3, Zenon
<1>. HIDE DEF a, l
<1>6. /\ attempts' \in [Service -> Seq(AttemptRecord)]
      /\ Len(attempts'[s]) = Len(attempts[s])
      /\ DOMAIN attempts'[s] = DOMAIN attempts[s]
      /\ attempts'[s][n] = a
      /\ \A m \in DOMAIN attempts[s] : m # n => attempts'[s][m] = attempts[s][m]
      /\ \A t \in Service : t # s => attempts'[t] = attempts[t]
  BY <1>2, <1>3, AttemptChanges, Zenon
<1>7. /\ lifecycle' \in [Service -> LifecycleRecord] /\ lifecycle'[s] = l
      /\ \A t \in Service : t # s => lifecycle'[t] = lifecycle[t]
  BY <1>4, <1>5, LifecycleChanges, Zenon
<1>8. RuntimeTypeOK' /\ ServiceMoves(s)
  BY <1>1, <1>6, <1>7, Zenon DEF RuntimeIInv, RuntimeTypeOK, ServiceMoves
<1>9. ~lifecycle[s].isInitialized
  BY <1>1, ServiceFields, Zenon DEF SuccessFinal
<1>10. GoesOn(s)
  BY <1>1, <1>2, <1>6, <1>9, Zenon DEF GoesOn
<1>11. /\ n = lifecycle[s].initialization /\ n = Len(attempts[s]) /\ n # 0
       /\ \A m \in DOMAIN attempts[s] :
            m # n => attempts[s][m].phase = "completed" /\ ~attempts[s][m].succeeds
  BY <1>1, Current, Zenon
<1>12. AttemptsInTurn(s)'
  <2>1. \A m \in DOMAIN attempts'[s] : attempts'[s][m].phase # "completed" <=> m = n
    BY <1>2, <1>6, <1>11, Zenon
  <2>2. lifecycle[s].pendingConfiguration = f
    BY <1>11, ServiceFields, Zenon DEF AttemptsInTurn
  <2>. QED BY <1>2, <1>4, <1>6, <1>7, <1>11, <2>1, <2>2, Zenon DEF AttemptsInTurn
<1>13. SuccessFinal(s)'
  <2>1. \A m \in DOMAIN attempts'[s] :
          attempts'[s][m].succeeds => m = n /\ attempts[s][n].succeeds
    BY <1>2, <1>6, <1>11, Zenon
  <2>2. attempts[s][n].succeeds => native[s] = f
    BY ServiceFields, Zenon DEF SuccessFinal
  <2>3. l.isInitialized => attempts[s][n].succeeds
    BY <1>4, <1>9, Zenon
  <2>4. \A m \in DOMAIN attempts'[s] : attempts'[s][m].phase \in {"recorded", "completed"}
    BY <1>2, <1>6, <1>11, Zenon
  <2>. QED BY <1>1, <1>2, <1>4, <1>6, <1>7, <1>11, <2>1, <2>2, <2>3, <2>4, Zenon
           DEF SuccessFinal
<1>. QED BY <1>1, <1>8, <1>10, <1>12, <1>13, ServiceStep, Zenon

LEMMA CompleteInv ==
  ASSUME RuntimeIInv, NEW s \in Service, NEW n \in DOMAIN attempts[s],
         Runtime!WhenComplete(s, n)
  PROVE  RuntimeIInv'
<1>. DEFINE a == [attempts[s][n] EXCEPT !.phase = "completed"]
            f == attempts[s][n].configuration
            l == [lifecycle[s] EXCEPT !.initialization = 0, !.pendingConfiguration = None]
<1>1. attempts[s][n].phase = "recorded" /\ UNCHANGED <<native, caller>>
  BY Zenon DEF Runtime!WhenComplete
<1>2. a \in AttemptRecord /\ a.phase = "completed" /\ a.configuration = f
      /\ a.succeeds = attempts[s][n].succeeds
  <2>1. attempts[s][n] \in AttemptRecord
    BY ServiceFields, Zenon
  <2>. QED BY <2>1, Zenon DEF AttemptRecord
<1>3. attempts' = [attempts EXCEPT ![s] = [attempts[s] EXCEPT ![n] = a]]
  BY Zenon DEF Runtime!WhenComplete
<1>4. l \in LifecycleRecord /\ l.initialization = 0
      /\ l.isInitialized = lifecycle[s].isInitialized
      /\ l.configuration = lifecycle[s].configuration
  <2>1. 0 \in Nat
    OBVIOUS
  <2>. QED BY <2>1, ServiceFields, Zenon DEF LifecycleRecord
<1>5. /\ n = lifecycle[s].initialization /\ n = Len(attempts[s]) /\ n # 0
      /\ \A m \in DOMAIN attempts[s] :
           m # n => attempts[s][m].phase = "completed" /\ ~attempts[s][m].succeeds
  BY <1>1, Current, Zenon
<1>6. lifecycle' = [lifecycle EXCEPT ![s] = l]
  BY <1>5, Zenon DEF Runtime!WhenComplete
<1>. HIDE DEF a, l
<1>7. /\ attempts' \in [Service -> Seq(AttemptRecord)]
      /\ Len(attempts'[s]) = Len(attempts[s])
      /\ DOMAIN attempts'[s] = DOMAIN attempts[s]
      /\ attempts'[s][n] = a
      /\ \A m \in DOMAIN attempts[s] : m # n => attempts'[s][m] = attempts[s][m]
      /\ \A t \in Service : t # s => attempts'[t] = attempts[t]
  BY <1>2, <1>3, AttemptChanges, Zenon
<1>8. /\ lifecycle' \in [Service -> LifecycleRecord] /\ lifecycle'[s] = l
      /\ \A t \in Service : t # s => lifecycle'[t] = lifecycle[t]
  BY <1>4, <1>6, LifecycleChanges, Zenon
<1>9. RuntimeTypeOK' /\ ServiceMoves(s)
  BY <1>1, <1>7, <1>8, Zenon DEF RuntimeIInv, RuntimeTypeOK, ServiceMoves
<1>10. GoesOn(s)
  BY <1>2, <1>4, <1>7, <1>8, Zenon DEF GoesOn
<1>11. \A m \in DOMAIN attempts'[s] : attempts'[s][m].phase = "completed" /\ m # 0
  <2>1. \A m \in DOMAIN attempts[s] : m # 0
    BY ServiceFields
  <2>. QED BY <1>2, <1>5, <1>7, <2>1, Zenon
<1>12. AttemptsInTurn(s)'
  BY <1>4, <1>8, <1>11, Zenon DEF AttemptsInTurn
<1>13. SuccessFinal(s)'
  <2>1. \A m \in DOMAIN attempts'[s] :
          attempts'[s][m].succeeds => m = n /\ attempts[s][n].succeeds
    BY <1>2, <1>5, <1>7, Zenon
  <2>2. attempts[s][n].succeeds =>
          native[s] = f /\ lifecycle[s].isInitialized /\ lifecycle[s].configuration = f
    BY <1>1, ServiceFields, Zenon DEF SuccessFinal
  <2>3. lifecycle[s].isInitialized => native[s] = lifecycle[s].configuration
    BY ServiceFields, Zenon DEF SuccessFinal
  <2>. QED BY <1>1, <1>2, <1>4, <1>5, <1>7, <1>8, <1>11, <2>1, <2>2, <2>3, Zenon
           DEF SuccessFinal
<1>. QED BY <1>1, <1>9, <1>10, <1>12, <1>13, ServiceStep, Zenon

-----------------------------------------------------------------------------

LEMMA RuntimeInit ==
  ASSUME Runtime!ConstantsAssumption, Runtime!Init
  PROVE  RuntimeIInv
<1>1. lifecycle \in [Service -> LifecycleRecord]
      /\ \A s \in Service : lifecycle[s].initialization = 0 /\ ~lifecycle[s].isInitialized
  <2>1. 0 \in Nat
    OBVIOUS
  <2>. QED BY <2>1, Zenon DEF Runtime!Init, LifecycleRecord
<1>2. attempts \in [Service -> Seq(AttemptRecord)]
      /\ \A s \in Service : attempts[s] = <<>>
  BY DEF Runtime!Init
<1>3. native \in [Service -> Asked \cup {None}]
  BY DEF Runtime!Init, Asked
<1>4. caller \in [Caller -> RuntimeCallRecord]
      /\ \A c \in Caller : caller[c].pc = "idle" /\ caller[c].outcome = "none"
  <2>1. 0 \in Nat
    OBVIOUS
  <2>. QED BY <2>1, Zenon DEF Runtime!Init, RuntimeCallRecord, Asked,
              Runtime!ConstantsAssumption
<1>5. \A s \in Service : DOMAIN attempts[s] = {}
  BY <1>2
<1>6. ASSUME NEW s \in Service
      PROVE  AttemptsInTurn(s) /\ SuccessFinal(s)
  BY <1>1, <1>5, Zenon DEF AttemptsInTurn, SuccessFinal
<1>7. \A c \in Caller : Told(caller[c])
  BY <1>4, Zenon DEF Told
<1>. QED BY <1>1, <1>2, <1>3, <1>4, <1>6, <1>7, Zenon DEF RuntimeIInv, RuntimeTypeOK

LEMMA RuntimeNext ==
  ASSUME RuntimeIInv, [Runtime!Next]_(Runtime!vars)
  PROVE  RuntimeIInv'
<1>1. CASE UNCHANGED Runtime!vars
  <2>1. UNCHANGED <<lifecycle, attempts, native>> /\ caller' = caller
    BY <1>1, Zenon DEF Runtime!vars
  <2>2. RuntimeTypeOK'
    BY <2>1, Zenon DEF RuntimeIInv, RuntimeTypeOK
  <2>3. \A s \in Service : AttemptsInTurn(s)'
    BY <2>1, Zenon DEF RuntimeIInv, AttemptsInTurn
  <2>4. \A s \in Service : SuccessFinal(s)'
    BY <2>1, Zenon DEF RuntimeIInv, SuccessFinal
  <2>5. \A c \in Caller : Told(caller[c])'
    BY <2>1, Zenon DEF RuntimeIInv, Told
  <2>. QED BY <2>2, <2>3, <2>4, <2>5, Zenon DEF RuntimeIInv
<1>2. CASE Runtime!Next
  BY <1>2, AgainInv, DeliverInv, FirstInv, AnswersInv, ThenInv, CompleteInv, Zenon
     DEF Runtime!Next
<1>. QED BY <1>1, <1>2, Zenon

LEMMA RuntimeShares ==
  ASSUME RuntimeIInv
  PROVE  Runtime!InitializationShared
<1>1. ASSUME NEW c \in Caller
      PROVE  /\ caller[c].outcome = "ok" => native[caller[c].service] = caller[c].asked
             /\ caller[c].outcome = "failed" =>
                  lifecycle[caller[c].service].initialization # caller[c].attempt
  <2>1. Told(caller[c]) /\ caller[c].service \in Service
    BY Zenon DEF RuntimeIInv, RuntimeTypeOK, RuntimeCallRecord
  <2>. QED BY <2>1, Zenon DEF RuntimeIInv, Told, AttemptsInTurn, SuccessFinal
<1>2. ASSUME NEW s \in Service, NEW m \in Runtime!Unfinished(s), NEW n \in Runtime!Unfinished(s)
      PROVE  m = n
  BY ServiceFields, Zenon DEF Runtime!Unfinished, AttemptsInTurn
<1>3. ASSUME NEW s \in Service, NEW m \in DOMAIN attempts[s], NEW n \in DOMAIN attempts[s],
             attempts[s][m].succeeds
      PROVE  n <= m
  <2>1. m = Len(attempts[s])
    BY <1>3, ServiceFields, Zenon DEF SuccessFinal
  <2>. QED BY <2>1, ServiceFields
<1>4. \A s \in Service :
         /\ \A m, n \in Runtime!Unfinished(s) : m = n
         /\ \A m, n \in DOMAIN attempts[s] : attempts[s][m].succeeds => n <= m
  BY <1>2, <1>3, Zenon
<1>. QED BY <1>1, <1>4, Zenon DEF Runtime!InitializationShared

\* Whatever number of calls initialize the services of the process at once:
\* attempts never overlap, none follows a success, a caller told of success finds
\* the native side as it asked for.
THEOREM AttemptsAreShared == Runtime!Spec => []InitializationShared
<1>1. Runtime!Init => RuntimeIInv
  BY ProcessAssumption, RuntimeInit, Zenon
<1>2. RuntimeIInv /\ [Runtime!Next]_(Runtime!vars) => RuntimeIInv'
  BY RuntimeNext, Zenon
<1>3. RuntimeIInv => InitializationShared
  BY RuntimeShares, Zenon DEF InitializationShared
<1>. QED BY <1>1, <1>2, <1>3, PTL DEF Runtime!Spec

=============================================================================
