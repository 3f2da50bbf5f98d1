------------------------ MODULE MCEventSubscription -------------------------
(***************************************************************************)
(* The two models of event delivery for TLC: a runtime subscription from   *)
(* the native channel to its Dart listener, and the native cursors of      *)
(* business events.  They share no state, so a behaviour runs one of them, *)
(* its focus, and leaves the other where it starts.                        *)
(***************************************************************************)
EXTENDS WalletEvents

VARIABLE focus   \* the model that runs

-----------------------------------------------------------------------------
(* BusinessEvents: two transfers, one with a payload and one without extra *)
(* data; a blob whose decryption failed; an event the stream skips.        *)

Payload == [kind |-> "U64", content |-> "p"]
Extra(payload) == [flag |-> "Private", data |-> payload]
Transfer(extra) == [detail |-> "t", extra |-> extra]

BusinessEvent ==
  {[type |-> "NewTransaction",
    tx |-> [hash |-> "h1", topoheight |-> 1,
            entry |-> [type |-> "Outgoing", detail |-> "d", data |-> <<>>,
                       transfers |-> <<Transfer(<<Extra(Payload)>>), Transfer(<<>>)>>]]],
   [type |-> "NewPendingTransaction",
    tx |-> [hash |-> "h2", topoheight |-> 2,
            entry |-> [type |-> "IncomingBlob", detail |-> "d", transfers |-> <<>>,
                       data |-> <<[flag |-> "Failed", data |-> NoPayload]>>]]],
   [type |-> "Unreported"]}

\* BusinessEvents' property of cancel_internal and a next_event in flight.
CancelWakes == Cursors!CancelWakes

-----------------------------------------------------------------------------

RunInit == focus \in {"subscription", "cursors"} /\ Init /\ Cursors!Init

RunNext ==
  \/ focus = "subscription" /\ Next /\ UNCHANGED <<focus, businessVars>>
  \/ focus = "cursors" /\ Cursors!Next /\ UNCHANGED <<focus, vars>>

\* The fairness of each model, while it runs.
RunSpec ==
  /\ RunInit /\ [][RunNext]_<<focus, vars, businessVars>>
  /\ WF_vars(focus = "subscription" /\ NativeStep)
  /\ WF_vars(focus = "subscription" /\ PumpStep)
  /\ WF_vars(focus = "subscription" /\ CancelJoins)
  /\ \A r \in Reader : WF_businessVars(focus = "cursors" /\ Cursors!Read(r))
  /\ \A s \in Subscription :
       WF_businessVars(focus = "cursors" /\ Cursors!CancelSignal(s))
=============================================================================
