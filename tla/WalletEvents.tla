---------------------------- MODULE WalletEvents ----------------------------
(***************************************************************************)
(* The events of a wallet: one subscription from the native channel to its *)
(* Dart listener (EventSubscription), and the native cursors of business   *)
(* events with their disclosures (BusinessEvents).  Each has its own       *)
(* abstraction of the broadcast channel, so they share no variable.        *)
(***************************************************************************)
EXTENDS EventSubscription

CONSTANTS
  Subscription, Reader, NoReader, Event, NoPayload, MaxGeneration,
  CursorCapacity, CursorSequence, CursorEvents   \* bounds of BusinessEvents

VARIABLES channel, closed, generation, sub, reader, shown

businessVars == <<channel, closed, generation, sub, reader, shown>>

Cursors ==
  INSTANCE BusinessEvents WITH
    Capacity <- CursorCapacity, MaxSequence <- CursorSequence, MaxEvents <- CursorEvents

ASSUME CursorAssumption == Cursors!ConstantsAssumption

\* BusinessEvents' property of the projection of a frame's extra data.
DisclosureKept == Cursors!DisclosureKept

=============================================================================
