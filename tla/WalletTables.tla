---------------------------- MODULE WalletTables ----------------------------
(***************************************************************************)
(* Creating and opening wallets over the process-wide cache of precomputed *)
(* tables.  Every wallet holds the cache's shared reference (an Arc), an   *)
(* upgrade replaces the tables behind it, and a double-checked lock keeps  *)
(* two loads from overlapping.                                             *)
(*                                                                         *)
(* `entry` is CACHED_TABLES, `loader` the PRECOMPUTED_TABLES_LOAD_LOCK.    *)
(* An Arc is a member of Arc; `content` is the L1 size of the tables       *)
(* behind it.  call[c] is a create, open or update call and, once that has *)
(* succeeded, the wallet it opened.                                        *)
(***************************************************************************)
EXTENDS Naturals, FiniteSets

CONSTANTS
  Call,        \* overlapping calls, and the wallets they open
  Arc,         \* shared references
  NoArc,       \* absence of one
  NoCall,      \* nobody holds the load lock
  L1Low, L1Medium, L1Full,      \* the sizes of the named table types
  CustomFirst, CustomLast,      \* custom sizes: 16 and 32
  Custom,      \* custom sizes that callers ask for
  Input        \* the inputs of the calls

ASSUME ConstantsAssumption ==
  /\ NoArc \notin Arc
  /\ NoCall \notin Call
  /\ {L1Low, L1Medium, L1Full, CustomFirst, CustomLast} \subseteq Nat \ {0}
  /\ L1Low < L1Medium /\ L1Medium < L1Full
  /\ Custom \subseteq Nat
  /\ Input \subseteq
       [op : {"create", "open", "update"}, seed : BOOLEAN, key : BOOLEAN,
        path : BOOLEAN,
        type : [name : {"l1Low", "l1Medium", "l1Full"}, size : {0}]
                 \cup [name : {"custom"}, size : Custom]]

VARIABLES
  entry,     \* the cached Arc and the size it is known by
  content,   \* the size of the tables behind every Arc, 0 if there is none
  loader,    \* who holds the load lock
  call       \* every call

vars == <<entry, content, loader, call>>

NoEntry == [arc |-> NoArc, l1_size |-> 0]

Idle(outcome) == [pc |-> "idle", op |-> "open", requested |-> 0,
                  arc |-> NoArc, outcome |-> outcome]

Init ==
  /\ entry = NoEntry
  /\ content = [a \in Arc |-> 0]
  /\ loader = NoCall
  /\ call = [c \in Call |-> Idle("none")]

At(c, pc) == call[c].pc = pc

Goto(c, pc, arc) == call' = [call EXCEPT ![c].pc = pc, ![c].arc = arc]
Return(c, outcome) == call' = [call EXCEPT ![c] = Idle(outcome)]

\* References other than the cache's own: strong_count - 1.
Holders(a) == {c \in Call : call[c].arc = a}

\* Whoever drops the last reference frees the tables.
Freed(a) == IF a # NoArc /\ a # entry.arc /\ Cardinality(Holders(a)) = 1
              THEN [content EXCEPT ![a] = 0] ELSE content

-----------------------------------------------------------------------------
(* Table types                                                             *)

\* to_l1_size, 0 for an error.
ToL1Size(t) ==
  CASE t.name = "l1Low" -> L1Low
    [] t.name = "l1Medium" -> L1Medium
    [] t.name = "l1Full" -> L1Full
    [] OTHER -> IF t.size < CustomFirst \/ t.size > CustomLast
                  THEN 0 ELSE t.size

\* precomputed_table_type_from_l1
TypeFromL1(size) ==
  CASE size = L1Low -> "l1Low"
    [] size = L1Medium -> "l1Medium"
    [] size = L1Full -> "l1Full"
    [] OTHER -> "custom"

-----------------------------------------------------------------------------
(* The cache                                                               *)

\* get_or_require_load
Lookup(requested) ==
  IF entry = NoEntry THEN "load"
  ELSE IF entry.l1_size >= requested THEN "share"
  ELSE IF entry.l1_size = L1Low THEN "load"
  ELSE "finalized"

\* Mutant: the upgraded tables get a reference of their own.
InstallUpgrade_NewArc(loaded, l1_size) ==
  /\ entry' = [arc |-> loaded, l1_size |-> l1_size]
  /\ UNCHANGED content

\* The value behind the cached reference is replaced, so that every wallet
\* sees the new tables; the loaded reference is consumed.
InstallUpgrade(loaded, l1_size) ==
  /\ entry' = [entry EXCEPT !.l1_size = l1_size]
  /\ content' = [content EXCEPT ![entry.arc] = l1_size, ![loaded] = 0]

MayUpgrade == entry.l1_size = L1Low

\* clear_if_unused
ClearIfUnused ==
  entry' = IF entry # NoEntry /\ Holders(entry.arc) # {} THEN entry ELSE NoEntry

-----------------------------------------------------------------------------
(* Calls                                                                   *)

\* A create or open call checks its recovery inputs, its path and the table
\* type in this order; an update only the type.
InputError(in) ==
  IF in.op = "create" /\ in.seed /\ in.key THEN "RecoveryConflict"
  ELSE IF in.op # "update" /\ ~in.path THEN "PathInvalid"
  ELSE IF ToL1Size(in.type) = 0 THEN "TypeInvalid"
  ELSE "ok"

\* An update loads in any case (materialize_precomputed_tables).
Begin(c, in) ==
  /\ At(c, "idle")
  /\ IF InputError(in) # "ok"
       THEN Return(c, InputError(in))
       ELSE call' = [call EXCEPT ![c] =
              [pc |-> IF in.op = "update" THEN "waiting" ELSE "looking",
               op |-> in.op, requested |-> ToL1Size(in.type), arc |-> NoArc,
               outcome |-> "none"]]
  /\ UNCHANGED <<entry, content, loader>>

\* The look at the cache before the load lock ...
FirstLook(c) ==
  /\ At(c, "looking")
  /\ CASE Lookup(call[c].requested) = "share" -> Goto(c, "opening", entry.arc)
       [] Lookup(call[c].requested) = "load" -> Goto(c, "waiting", NoArc)
       [] OTHER -> Return(c, "Finalized")
  /\ UNCHANGED <<entry, content, loader>>

AcquireLoad(c) ==
  /\ At(c, "waiting") /\ loader = NoCall
  /\ loader' = c
  /\ Goto(c, IF call[c].op = "update" THEN "loading" ELSE "lookingAgain", NoArc)
  /\ UNCHANGED <<entry, content>>

\* ... and the one under it.
SecondLook(c) ==
  /\ At(c, "lookingAgain")
  /\ CASE Lookup(call[c].requested) = "share" ->
            Goto(c, "opening", entry.arc) /\ loader' = NoCall
       [] Lookup(call[c].requested) = "load" ->
            Goto(c, "loading", NoArc) /\ UNCHANGED loader
       [] OTHER -> Return(c, "Finalized") /\ loader' = NoCall
  /\ UNCHANGED <<entry, content>>

\* External: read_or_generate_precomputed_tables yields tables of the requested
\* size behind a reference of their own, or fails.
Load(c) ==
  /\ At(c, "loading")
  /\ \/ /\ Return(c, "LoadFailed")
        /\ loader' = NoCall
        /\ UNCHANGED content
     \/ \E a \in Arc :
          /\ content[a] = 0
          /\ content' = [content EXCEPT ![a] = call[c].requested]
          /\ Goto(c, "loaded", a)
          /\ UNCHANGED loader
  /\ UNCHANGED entry

\* The call got its tables: an update drops them again.
Obtained(c, arc) ==
  IF call[c].op = "update" THEN Return(c, "ok") ELSE Goto(c, "opening", arc)

\* install, and the release of the load lock.
Install(c) ==
  LET loaded == call[c].arc
      requested == call[c].requested
  IN
  /\ At(c, "loaded")
  /\ loader' = NoCall
  /\ \/ /\ entry = NoEntry
        /\ entry' = [arc |-> loaded, l1_size |-> requested]
        /\ Obtained(c, loaded)
        /\ UNCHANGED content
     \/ /\ entry # NoEntry /\ entry.l1_size >= requested
        /\ Obtained(c, entry.arc)
        /\ content' = [content EXCEPT ![loaded] = 0]
        /\ UNCHANGED entry
     \/ /\ entry # NoEntry /\ entry.l1_size < requested /\ ~MayUpgrade
        /\ Return(c, "Finalized")
        /\ content' = [content EXCEPT ![loaded] = 0]
        /\ UNCHANGED entry
     \/ /\ entry # NoEntry /\ entry.l1_size < requested /\ MayUpgrade
        /\ InstallUpgrade(loaded, requested)
        /\ Obtained(c, entry'.arc)

\* Wallet::create or Wallet::open with the tables.
OpenWallet(c) ==
  /\ At(c, "opening")
  /\ \/ Goto(c, "wallet", call[c].arc) /\ UNCHANGED content
     \/ Return(c, "WalletFailed") /\ content' = Freed(call[c].arc)
  /\ UNCHANGED <<entry, loader>>

DropWallet(c) ==
  /\ At(c, "wallet")
  /\ Return(c, "dropped")
  /\ content' = Freed(call[c].arc)
  /\ UNCHANGED <<entry, loader>>

\* The future of a call is dropped at one of its awaits.
DropFuture(c) ==
  /\ call[c].pc \in {"waiting", "loading", "opening"}
  /\ Return(c, "dropped")
  /\ loader' = IF loader = c THEN NoCall ELSE loader
  /\ content' = Freed(call[c].arc)
  /\ UNCHANGED entry

\* clear_cached_tables; the cache may hold the last reference.
ClearTables ==
  /\ ClearIfUnused
  /\ content' = IF entry' = NoEntry /\ entry # NoEntry /\ Holders(entry.arc) = {}
                  THEN [content EXCEPT ![entry.arc] = 0] ELSE content
  /\ UNCHANGED <<loader, call>>

\* get_current_precomputed_tables_type
CurrentType(c) ==
  /\ At(c, "idle")
  /\ Return(c, IF entry = NoEntry THEN "NotInitialized"
               ELSE TypeFromL1(entry.l1_size))
  /\ UNCHANGED <<entry, content, loader>>

Next ==
  \/ \E c \in Call :
       \/ \E in \in Input : Begin(c, in)
       \/ FirstLook(c) \/ AcquireLoad(c) \/ SecondLook(c) \/ Load(c)
       \/ Install(c) \/ OpenWallet(c) \/ DropWallet(c) \/ DropFuture(c)
       \/ CurrentType(c)
  \/ ClearTables

Spec == Init /\ [][Next]_vars

-----------------------------------------------------------------------------
(* Properties                                                              *)

Holding(c) == call[c].pc \in {"opening", "wallet"}

\* "Upgrades replace its inner value so all current and future wallets observe
\* the new tables without reopening": whoever has obtained tables holds the
\* very reference the cache has, and the tables behind it are the ones the
\* cache claims, large enough for what was asked.
TablesShared ==
  /\ entry # NoEntry => content[entry.arc] = entry.l1_size
  /\ \A c \in Call : Holding(c) =>
       /\ call[c].arc = entry.arc
       /\ content[call[c].arc] >= call[c].requested

\* "refusing a second upgrade": the tables of an open wallet never shrink or
\* disappear, and they grow only from the smallest named size.
UpgradesOnce ==
  \A c \in Call : At(c, "wallet") /\ content'[call[c].arc] # content[call[c].arc] =>
    \/ call'[c].pc # "wallet"
    \/ /\ content[call[c].arc] = L1Low
       /\ content'[call[c].arc] > L1Low

\* Every step leaves the wallets sharing the tables of the cache, and the tables
\* change under an open wallet once at most.
TablesSound == [][TablesShared' /\ UpgradesOnce]_vars

\* "prevents two callers from reading or generating tables in parallel", and
\* no call loads what a call before it has just installed.
LoadsExclude ==
  \A c \in Call :
    call[c].pc \in {"lookingAgain", "loading", "loaded"} => loader = c

=============================================================================
