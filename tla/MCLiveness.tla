----------------------------- MODULE MCLiveness -----------------------------
(***************************************************************************)
(* What eventually happens, for TLC.  Four components whose calls must     *)
(* return: the prepared slot, the connection, the XSWD dispatcher and the  *)
(* closing of a wallet handle.  None of them waits for another, so a       *)
(* behaviour runs one, its focus, and leaves the others where they start;  *)
(* the fairness of each is asked of it while it runs.                      *)
(***************************************************************************)
EXTENDS Naturals

CONSTANTS c1, c2, h1, NoHash, a1, r1, r2, b1, NoOne

VARIABLES
  focus,                                                \* the model that runs
  state, next_generation, active_preparation, call, online, unconfirmed, issued,
  retired, atBegin, accepted, ambiguous,                \* PreparedTransactions
  current, closed, attempts, attempt, worker, caller, active, activeLock,
  handler, running, socket, fence, abandoned,           \* WalletConnection
  channel, open, sent, held, stopping, pc, prefer, work, callback, ready,
  deferred, burst, observed, sessions, nextRef, reply, revoked, owed, told,
  overtaken,                                            \* XswdDispatcher
  terminal, closeState, disposed, registered, generation, sub, closer,
  failures                                              \* WalletHandle

preparedVars == <<state, next_generation, active_preparation, call, online,
                  unconfirmed, issued, retired, atBegin, accepted, ambiguous>>
connectionVars == <<current, closed, attempts, attempt, worker, caller, active,
                    activeLock, handler, running, socket, fence, abandoned>>
xswdVars == <<channel, open, sent, held, stopping, pc, prefer, work, callback,
              ready, deferred, burst, observed, sessions, nextRef, reply, revoked,
              owed, told, overtaken>>
handleVars == <<terminal, closeState, disposed, registered, generation, sub,
                closer, failures>>

Subscriptions == {r1, r2, b1}

Prepared ==
  INSTANCE PreparedTransactions WITH
    Call <- {c1, c2}, Hash <- {h1}, MaxGeneration <- 1

Connection ==
  INSTANCE WalletConnection WITH Caller <- {c1, c2}, MaxAttempt <- 1

Dispatcher ==
  INSTANCE XswdDispatcher WITH
    active <- callback, App <- {a1}, MaxDeferred <- 1, MaxBurst <- 1, MaxRef <- 2,
    MaxEvents <- 3

\* Two subscriptions of runtime events and one of business events.
Handle ==
  INSTANCE WalletHandle WITH
    closed <- closeState, Subscription <- Subscriptions, Business <- {b1},
    MaxGeneration <- 2, MaxCancelFailures <- 2

ASSUME HandleAssumption == Handle!ConstantsAssumption

-----------------------------------------------------------------------------

RunInit ==
  /\ focus \in {"prepared", "connection", "xswd", "handle"}
  /\ Prepared!Init /\ Connection!Init /\ Dispatcher!Init /\ Handle!Init
  /\ focus # "xswd" => nextRef = 1

RunNext ==
  \/ /\ focus = "prepared" /\ Prepared!Next
     /\ UNCHANGED <<focus, connectionVars, xswdVars, handleVars>>
  \/ /\ focus = "connection" /\ Connection!Next
     /\ UNCHANGED <<focus, preparedVars, xswdVars, handleVars>>
  \/ /\ focus = "xswd" /\ Dispatcher!Next
     /\ UNCHANGED <<focus, preparedVars, connectionVars, handleVars>>
  \/ /\ focus = "handle" /\ Handle!Next
     /\ UNCHANGED <<focus, preparedVars, connectionVars, xswdVars>>

RunSpec ==
  /\ RunInit
  /\ [][RunNext]_<<focus, preparedVars, connectionVars, xswdVars, handleVars>>
  /\ \A c \in {c1, c2} :
       /\ WF_preparedVars(focus = "prepared" /\ Prepared!Continue(c) /\ Prepared!Retire)
       /\ WF_connectionVars(focus = "connection" /\ Connection!Step(c))
  /\ WF_connectionVars(focus = "connection" /\ Connection!WorkerStep(1))
  /\ WF_xswdVars(focus = "xswd" /\ Dispatcher!Dispatch)
  /\ WF_xswdVars(focus = "xswd" /\ Dispatcher!DartCompletes)
  /\ WF_handleVars(focus = "handle" /\ \E s \in Subscriptions : Handle!CloseCancels(s))
  /\ WF_handleVars(focus = "handle" /\ Handle!CloseResumes)
  /\ WF_handleVars(focus = "handle" /\ Handle!CloseBusiness)
  /\ WF_handleVars(focus = "handle" /\ Handle!CloseNative)
  /\ \A s \in Subscriptions :
       WF_handleVars(focus = "handle" /\ sub[s].native /\ Handle!PumpEnds(s))

-----------------------------------------------------------------------------

\* PreparedTransactions' property that a call which holds the slot gives it up.
SlotReleased == Prepared!SlotReleased

\* WalletConnection's property that connect, cancel and disconnect return.
EveryCallReturns == Connection!EveryCallReturns

\* XswdDispatcher's property that a request it took is answered.
RequestsAnswered == Dispatcher!RequestsAnswered

\* WalletHandle's property that close() returns.
CloseSettles == Handle!CloseSettles
=============================================================================
