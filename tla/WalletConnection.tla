-------------------------- MODULE WalletConnection --------------------------
(***************************************************************************)
(* Connecting a wallet to a daemon: overlapping online_mode, offline_mode  *)
(* and close calls, and the supervised worker that every connection        *)
(* attempt spawns.                                                         *)
(*                                                                         *)
(* `current` and `closed` are WalletConnectionAttemptState, `attempt[a]`   *)
(* holds the flags, the activation mutex and the published daemon API of a *)
(* WalletConnectionAttempt together with the three oneshot channels        *)
(* between the caller and its worker (and, as history, what the call that  *)
(* made it answers once it has joined the worker), and `active` is         *)
(* active_connection.                                                      *)
(* Calls and workers run on a multi-threaded runtime: every await, mutex   *)
(* and atomic access is a step of its own.  The wallet library is external *)
(* and reduced to its network handler: which attempt's API it runs on, and *)
(* whether it is running.                                                  *)
(***************************************************************************)
EXTENDS Naturals
LOCAL INSTANCE TLC

CONSTANTS
  Caller,       \* concurrent bridge calls
  MaxAttempt    \* bound on the connection attempts of a behaviour

ASSUME MaxAttemptAssumption == MaxAttempt \in Nat

VARIABLES
  current,      \* attempt registered in the wallet, 0 for None
  closed,       \* close has been requested
  attempts,     \* attempts created so far
  attempt,      \* state of every attempt
  worker,       \* control point of every attempt's worker
  caller,       \* control point and locals of every call
  active,       \* attempt whose API is the active connection, 0 for None
  activeLock,   \* whether a call holds the active_connection mutex
  handler,      \* external: attempt whose API the wallet runs on, 0 for None
  running,      \* external: the handler is running
  socket,       \* external: attempts whose daemon WebSocket is open
  fence,        \* history: attempts older than a completed offline or close
  abandoned     \* history: attempts whose connection a dropped call had taken out

vars == <<current, closed, attempts, attempt, worker, caller, active,
          activeLock, handler, running, socket, fence, abandoned>>

wallet == <<handler, running, socket>>

None == 0
Attempt == 1 .. MaxAttempt

NewAttempt == [cancelled |-> FALSE, completed |-> FALSE, activation |-> FALSE,
               api |-> FALSE, result |-> "open", accepted |-> "open",
               finalized |-> "open", outcome |-> "none"]

IdleCaller == [pc |-> "idle", own |-> None, target |-> None,
               terminal |-> FALSE, timedOut |-> FALSE, fence |-> 0]

Init ==
  /\ current = None
  /\ closed = FALSE
  /\ attempts = 0
  /\ attempt = [a \in Attempt |-> NewAttempt]
  /\ worker = [a \in Attempt |-> "none"]
  /\ caller = [c \in Caller |-> IdleCaller]
  /\ active = None
  /\ activeLock = FALSE
  /\ handler = None
  /\ running = FALSE
  /\ socket = {}
  /\ fence = 0
  /\ abandoned = {}

At(c, pc) == caller[c].pc = pc
Own(c) == attempt[caller[c].own]

Goto(c, pc) == caller' = [caller EXCEPT ![c].pc = pc]

\* Which answer a call gives is left out, except to a call that has joined its
\* worker: see JoinWorker.
Return(c) == caller' = [caller EXCEPT ![c] = IdleCaller]

\* The call still owns its attempt guard and drops it on the way out.
DropGuardAndReturn(c) == Goto(c, "dropGuard")

\* External: Wallet::is_online and Wallet::set_offline_mode.
IsOnline == handler # None /\ running
SetOfflineMode == handler' = None /\ running' = FALSE

\* Mutant: the socket is not closed.
Disconnected_Forgotten(a) == socket

\* The sockets left open by disconnect_daemon_api.
Disconnected(a) == socket \ {a}

-----------------------------------------------------------------------------
(* online_mode, up to the worker                                           *)

\* Mutant: an attempt is registered over the current one.
CanAcquire_IgnoresCurrent == ~closed

\* ConnectionAttemptGuard::acquire registers the attempt when this holds.
CanAcquire == ~closed /\ current = None

\* The identity of a new attempt.
FreshAttempt == attempts + 1

\* The attempt is registered, or the call is refused at once: cancelled after
\* close, in progress before.
AcquireAttempt(c) ==
  /\ At(c, "idle")
  /\ attempts < MaxAttempt
  /\ \/ /\ CanAcquire
        /\ attempts' = attempts + 1
        /\ current' = FreshAttempt
        /\ caller' = [caller EXCEPT ![c].pc = "isOnline",
                                    ![c].own = FreshAttempt]
     \/ ~CanAcquire /\ UNCHANGED <<attempts, current, caller>>
  /\ UNCHANGED <<closed, attempt, worker, active, activeLock, wallet, fence, abandoned>>

CheckOffline(c) ==
  /\ At(c, "isOnline")
  /\ IF IsOnline THEN DropGuardAndReturn(c)
                 ELSE Goto(c, "takeStale")
  /\ UNCHANGED <<current, closed, attempts, attempt, worker, active,
                 activeLock, wallet, fence, abandoned>>

\* The mutex stays locked while a stale connection is cleaned up.
TakeStale(c) ==
  /\ At(c, "takeStale")
  /\ ~activeLock
  /\ active' = None
  /\ activeLock' = (active # None)
  /\ caller' = [caller EXCEPT
       ![c].pc = IF active = None THEN "spawn" ELSE "cleanStale",
       ![c].target = active]
  /\ UNCHANGED <<current, closed, attempts, attempt, worker, wallet, fence, abandoned>>

DisconnectStale(c) ==
  /\ At(c, "cleanStale")
  /\ socket' = Disconnected(caller[c].target)
  /\ Goto(c, "staleOffline")
  /\ UNCHANGED <<current, closed, attempts, attempt, worker, active,
                 activeLock, handler, running, fence, abandoned>>

StaleOffline(c) ==
  /\ At(c, "staleOffline")
  /\ SetOfflineMode
  /\ activeLock' = FALSE
  /\ \/ Goto(c, "spawn")
     \/ DropGuardAndReturn(c)
  /\ UNCHANGED <<current, closed, attempts, attempt, worker, active, socket,
                 fence, abandoned>>

\* The guard moves into the worker.
SpawnWorker(c) ==
  /\ At(c, "spawn")
  /\ \/ /\ Own(c).cancelled
        /\ DropGuardAndReturn(c)
        /\ UNCHANGED worker
     \/ /\ ~Own(c).cancelled
        /\ worker' = [worker EXCEPT ![caller[c].own] = "connecting"]
        /\ Goto(c, "awaitResult")
  /\ UNCHANGED <<current, closed, attempts, attempt, active, activeLock,
                 wallet, fence, abandoned>>

\* Drop of ConnectionAttemptGuard in two steps: publish the completion, then
\* clear the registration if it is still this attempt's.
Released(a) == IF current = a THEN None ELSE current

DropOwnGuard(c) ==
  /\ At(c, "dropGuard")
  /\ attempt' = [attempt EXCEPT ![caller[c].own].completed = TRUE]
  /\ Goto(c, "clearCurrent")
  /\ UNCHANGED <<current, closed, attempts, worker, active, activeLock,
                 wallet, fence, abandoned>>

ClearOwnCurrent(c) ==
  /\ At(c, "clearCurrent")
  /\ current' = Released(caller[c].own)
  /\ Return(c)
  /\ UNCHANGED <<closed, attempts, attempt, worker, active, activeLock,
                 wallet, fence, abandoned>>

-----------------------------------------------------------------------------
(* online_mode, waiting for its worker                                     *)

ReceiveResult(c) ==
  LET a == caller[c].own IN
  /\ At(c, "awaitResult")
  /\ \/ /\ attempt[a].result = "err"
        /\ Return(c)
        /\ UNCHANGED attempt
     \/ /\ attempt[a].result = "ok"
        /\ attempt' = [attempt EXCEPT
             ![a].accepted = "sent",
             ![a].finalized = IF attempt[a].cancelled THEN "closed" ELSE @]
        /\ Goto(c, IF attempt[a].cancelled THEN "joinCancelled"
                                           ELSE "lockActive")
  /\ UNCHANGED <<current, closed, attempts, worker, active, activeLock,
                 wallet, fence, abandoned>>

InstallActive(c) ==
  LET a == caller[c].own IN
  /\ At(c, "lockActive")
  /\ ~activeLock
  /\ \/ /\ attempt[a].cancelled
        /\ attempt' = [attempt EXCEPT ![a].finalized = "closed"]
        /\ Goto(c, "joinCancelled")
        /\ UNCHANGED active
     \/ /\ ~attempt[a].cancelled
        /\ active' = a
        /\ attempt' = [attempt EXCEPT ![a].finalized = "sent"]
        /\ Goto(c, "joinOk")
  /\ UNCHANGED <<current, closed, attempts, worker, activeLock, wallet, fence, abandoned>>

JoinWorker(c) ==
  LET result == IF At(c, "joinOk") /\ ~Own(c).cancelled
                  THEN "Ok" ELSE "Cancelled"
  IN
  /\ At(c, "joinCancelled") \/ At(c, "joinOk")
  /\ Own(c).completed
  /\ Return(c)
  /\ attempt' = [attempt EXCEPT ![caller[c].own].outcome = result]
  /\ UNCHANGED <<current, closed, attempts, worker, active, activeLock,
                 wallet, fence, abandoned>>

\* Mutant: the acknowledgements are kept while joining the worker.
ReleaseAcknowledgements_Kept(r) == [r EXCEPT !.result = "closed"]

\* The result receiver is gone and both acknowledgement senders are dropped.
ReleaseAcknowledgements(r) ==
  [r EXCEPT !.result = "closed", !.accepted = "closed", !.finalized = "closed"]

\* The timeout wins, possibly against a result already delivered; the call
\* then runs cancel_connection_attempt(false).
ConnectTimeout(c) ==
  LET a == caller[c].own IN
  /\ At(c, "awaitResult")
  /\ attempt' = [attempt EXCEPT ![a] = ReleaseAcknowledgements(@)]
  /\ caller' = [caller EXCEPT ![c].pc = "cancelRead", ![c].timedOut = TRUE]
  /\ UNCHANGED <<current, closed, attempts, worker, active, activeLock,
                 wallet, fence, abandoned>>

-----------------------------------------------------------------------------
(* cancel_connection_attempt, offline_mode and close                       *)

BeginShutdown(c, terminal) ==
  /\ At(c, "idle")
  /\ caller' = [caller EXCEPT
       ![c] = [IdleCaller EXCEPT !.pc = "cancelRead",
                                 !.terminal = terminal]]
  /\ UNCHANGED <<current, closed, attempts, attempt, worker, active,
                 activeLock, wallet, fence, abandoned>>

\* Where the call goes once the attempt, if any, is out of the way.
AfterCancel(c) == IF caller[c].timedOut THEN "timedOut"
                                                  ELSE "takeActive"

\* Mutant: an attempt in progress is overlooked.
CancelTarget_None == None

\* The attempt cancel_current finds registered.
CancelTarget == current

\* cancel_current reads the registered attempt under the lock ...
CancelRead(c) ==
  /\ At(c, "cancelRead")
  /\ closed' = (closed \/ caller[c].terminal)
  /\ caller' = [caller EXCEPT
       ![c].pc = IF CancelTarget = None THEN AfterCancel(c) ELSE "cancelMark",
       ![c].target = CancelTarget,
       ![c].fence = attempts,
       ![c].terminal = FALSE]
  /\ UNCHANGED <<current, attempts, attempt, worker, active, activeLock,
                 wallet, fence, abandoned>>

\* ... and sets its flag after releasing it.
CancelMark(c) ==
  /\ At(c, "cancelMark")
  /\ attempt' = [attempt EXCEPT ![caller[c].target].cancelled = TRUE]
  /\ Goto(c, "cancelApi")
  /\ UNCHANGED <<current, closed, attempts, worker, active, activeLock,
                 wallet, fence, abandoned>>

CancelApi(c) ==
  /\ At(c, "cancelApi")
  /\ socket' = IF attempt[caller[c].target].api
                 THEN Disconnected(caller[c].target) ELSE socket
  /\ Goto(c, "cancelBarrier")
  /\ UNCHANGED <<current, closed, attempts, attempt, worker, active,
                 activeLock, handler, running, fence, abandoned>>

\* The activation mutex is taken and dropped at once.
CancelBarrier(c) ==
  /\ At(c, "cancelBarrier")
  /\ ~attempt[caller[c].target].activation
  /\ Goto(c, "cancelJoin")
  /\ UNCHANGED <<current, closed, attempts, attempt, worker, active,
                 activeLock, wallet, fence, abandoned>>

\* wait_completed.
CancelJoin(c) ==
  /\ At(c, "cancelJoin")
  /\ attempt[caller[c].target].completed
  /\ Goto(c, AfterCancel(c))
  /\ UNCHANGED <<current, closed, attempts, attempt, worker, active,
                 activeLock, wallet, fence, abandoned>>

ReturnTimeout(c) ==
  /\ At(c, "timedOut")
  /\ Return(c)
  /\ UNCHANGED <<current, closed, attempts, attempt, worker, active,
                 activeLock, wallet, fence, abandoned>>

TakeActive(c) ==
  /\ At(c, "takeActive")
  /\ ~activeLock
  /\ active' = None
  /\ caller' = [caller EXCEPT
       ![c].pc = IF active = None THEN "setOffline" ELSE "disconnect",
       ![c].target = active]
  /\ UNCHANGED <<current, closed, attempts, attempt, worker, activeLock,
                 wallet, fence, abandoned>>

DisconnectActive(c) ==
  /\ At(c, "disconnect")
  /\ socket' = Disconnected(caller[c].target)
  /\ Goto(c, "setOffline")
  /\ UNCHANGED <<current, closed, attempts, attempt, worker, active,
                 activeLock, handler, running, fence, abandoned>>

\* Wallet::set_offline_mode, or Wallet::close.  The handler is gone even when
\* an unexpected error of its shutdown is reported.
FinishShutdown(c) ==
  /\ At(c, "setOffline")
  /\ SetOfflineMode
  /\ Return(c)
  /\ fence' = IF caller[c].fence > fence THEN caller[c].fence ELSE fence
  /\ UNCHANGED <<current, closed, attempts, attempt, worker, active,
                 activeLock, socket, abandoned>>

-----------------------------------------------------------------------------
(* Dropped futures                                                         *)

\* A call dropped between taking the active connection out and the end of its
\* shutdown takes it along.
Abandoned(c) == abandoned \cup ({caller[c].target} \ {None})

\* set_offline_mode has removed the handler by then, or has not.
MayBeOffline(c, pc) == \/ UNCHANGED <<handler, running>>
                       \/ At(c, pc) /\ SetOfflineMode

\* online_mode is dropped before it has a worker: the mutex of the active
\* connection, if it holds it, and then the guard are released.
DropGuardedFuture(c) ==
  LET cleaning == caller[c].pc \in {"cleanStale", "staleOffline"} IN
  /\ caller[c].pc \in {"isOnline", "takeStale", "cleanStale", "staleOffline"}
  /\ activeLock' = (activeLock /\ ~cleaning)
  /\ abandoned' = IF cleaning THEN Abandoned(c) ELSE abandoned
  /\ MayBeOffline(c, "staleOffline")
  /\ DropGuardAndReturn(c)
  /\ UNCHANGED <<current, closed, attempts, attempt, worker, active, socket, fence>>

\* online_mode is dropped while it waits for its worker: its ends of the
\* channels close, and nothing else is undone.
DropOnlineFuture(c) ==
  LET a == caller[c].own IN
  /\ caller[c].pc \in {"awaitResult", "lockActive", "joinCancelled", "joinOk"}
  /\ attempt' = [attempt EXCEPT
       ![a].result = "closed",
       ![a].accepted = IF @ = "sent" THEN @ ELSE "closed",
       ![a].finalized = IF @ = "sent" THEN @ ELSE "closed"]
  /\ Return(c)
  /\ UNCHANGED <<current, closed, attempts, worker, active, activeLock,
                 wallet, fence, abandoned>>

\* A call is dropped in cancel_connection_attempt, which a timed-out
\* online_mode runs too, or later in offline_mode or close.
DropShutdownFuture(c) ==
  LET taken == caller[c].pc \in {"disconnect", "setOffline"} IN
  /\ taken \/ caller[c].pc \in {"cancelApi", "cancelBarrier", "cancelJoin", "takeActive"}
  /\ abandoned' = IF taken THEN Abandoned(c) ELSE abandoned
  /\ MayBeOffline(c, "setOffline")
  /\ Return(c)
  /\ UNCHANGED <<current, closed, attempts, attempt, worker, active, activeLock,
                 socket, fence>>

DropFuture(c) == DropGuardedFuture(c) \/ DropOnlineFuture(c) \/ DropShutdownFuture(c)

-----------------------------------------------------------------------------
(* The worker of an attempt: connect_wallet and the handshake              *)

WorkerAt(a, pc) == worker[a] = pc
WorkerGoto(a, pc) == worker' = [worker EXCEPT ![a] = pc]

others == <<current, closed, attempts, caller, active, activeLock, fence, abandoned>>

\* DaemonAPI::with opens the socket and then fails or yields the API, which is
\* published before the first cancellation check.
WorkerConnect(a) ==
  /\ WorkerAt(a, "connecting")
  /\ \/ /\ WorkerGoto(a, "dropFailed")
        /\ UNCHANGED <<attempt, socket>>
     \/ /\ socket' = socket \cup {a}
        /\ WorkerGoto(a, "publish")
        /\ UNCHANGED attempt
  /\ UNCHANGED <<others, handler, running>>

WorkerPublish(a) ==
  /\ WorkerAt(a, "publish")
  /\ attempt' = [attempt EXCEPT ![a].api = TRUE]
  /\ WorkerGoto(a, "preflight")
  /\ UNCHANGED <<others, wallet>>

\* The cancellation checks, get_info and the network comparison; each failure
\* disconnects the API.
WorkerPreflight(a) ==
  /\ WorkerAt(a, "preflight")
  /\ \/ /\ ~attempt[a].cancelled
        /\ WorkerGoto(a, "lockActivation")
        /\ UNCHANGED socket
     \/ /\ socket' = Disconnected(a)
        /\ WorkerGoto(a, "dropFailed")
  /\ UNCHANGED <<others, attempt, handler, running>>

\* The last cancellation check before activation, under the mutex.
WorkerLockActivation(a) ==
  /\ WorkerAt(a, "lockActivation")
  /\ ~attempt[a].activation
  /\ \/ /\ ~attempt[a].cancelled
        /\ attempt' = [attempt EXCEPT ![a].activation = TRUE]
        /\ WorkerGoto(a, "activating")
        /\ UNCHANGED socket
     \/ /\ attempt[a].cancelled
        /\ socket' = Disconnected(a)
        /\ WorkerGoto(a, "dropFailed")
        /\ UNCHANGED attempt
  /\ UNCHANGED <<others, handler, running>>

\* Wallet::set_online_mode_with_api: installs a running handler, or fails;
\* the mutex is released with the scope, a cancelled worker rolls back first.
WorkerActivate(a) ==
  /\ WorkerAt(a, "activating")
  /\ \/ /\ ~IsOnline
        /\ handler' = a
        /\ running' = TRUE
        /\ WorkerGoto(a, "activated")
        /\ UNCHANGED <<attempt, socket>>
     \/ /\ socket' = Disconnected(a)
        /\ attempt' = [attempt EXCEPT ![a].activation = FALSE]
        /\ WorkerGoto(a, "dropFailed")
        /\ UNCHANGED <<handler, running>>
  /\ UNCHANGED others

WorkerActivated(a) ==
  /\ WorkerAt(a, "activated")
  /\ \/ /\ attempt[a].cancelled
        /\ WorkerGoto(a, "rollbackLocked")
        /\ UNCHANGED attempt
     \/ /\ ~attempt[a].cancelled
        /\ attempt' = [attempt EXCEPT ![a].activation = FALSE]
        /\ WorkerGoto(a, "deliver")
  /\ UNCHANGED <<others, wallet>>

\* The API is sent to the caller, unless it is gone.
WorkerDeliver(a) ==
  /\ WorkerAt(a, "deliver")
  /\ \/ /\ attempt[a].result = "open"
        /\ attempt' = [attempt EXCEPT ![a].result = "ok"]
        /\ WorkerGoto(a, "awaitAccepted")
     \/ /\ attempt[a].result = "closed"
        /\ WorkerGoto(a, "rollback")
        /\ UNCHANGED attempt
  /\ UNCHANGED <<others, wallet>>

\* A oneshot receiver resolved to Ok.
Acknowledged(signal) == signal = "sent"

\* await_connection_acknowledgements, then the last look at the flag.
WorkerAwaitAccepted(a) ==
  /\ WorkerAt(a, "awaitAccepted")
  /\ attempt[a].accepted # "open"
  /\ WorkerGoto(a, IF Acknowledged(attempt[a].accepted)
                     THEN "awaitFinalized" ELSE "rollback")
  /\ UNCHANGED <<others, attempt, wallet>>

WorkerAwaitFinalized(a) ==
  /\ WorkerAt(a, "awaitFinalized")
  /\ attempt[a].finalized # "open"
  /\ WorkerGoto(a, IF Acknowledged(attempt[a].finalized) /\ ~attempt[a].cancelled
                     THEN "drop" ELSE "rollback")
  /\ UNCHANGED <<others, attempt, wallet>>

\* rollback_connection: close the socket, then stop the handler, whoever
\* installed it.  Inside the activation scope the mutex is released after.
WorkerRollbackSocket(a) ==
  /\ \/ WorkerAt(a, "rollback") /\ WorkerGoto(a, "rollbackHandler")
     \/ WorkerAt(a, "rollbackLocked") /\ WorkerGoto(a, "rollbackHandlerLocked")
  /\ socket' = Disconnected(a)
  /\ UNCHANGED <<others, attempt, handler, running>>

WorkerRollbackHandler(a) ==
  /\ \/ /\ WorkerAt(a, "rollbackHandler")
        /\ WorkerGoto(a, "drop")
        /\ UNCHANGED attempt
     \/ /\ WorkerAt(a, "rollbackHandlerLocked")
        /\ WorkerGoto(a, "dropFailed")
        /\ attempt' = [attempt EXCEPT ![a].activation = FALSE]
  /\ SetOfflineMode
  /\ UNCHANGED <<others, socket>>

\* Drop of the guard: completion, then registration, then, on failure, the
\* error is sent.
WorkerComplete(a) ==
  /\ \/ WorkerAt(a, "drop") /\ WorkerGoto(a, "clear")
     \/ WorkerAt(a, "dropFailed") /\ WorkerGoto(a, "clearFailed")
  /\ attempt' = [attempt EXCEPT ![a].completed = TRUE]
  /\ UNCHANGED <<others, wallet>>

WorkerClear(a) ==
  /\ \/ WorkerAt(a, "clear") /\ WorkerGoto(a, "done")
     \/ WorkerAt(a, "clearFailed") /\ WorkerGoto(a, "fail")
  /\ current' = Released(a)
  /\ UNCHANGED <<closed, attempts, attempt, caller, active, activeLock,
                 wallet, fence, abandoned>>

WorkerFail(a) ==
  /\ WorkerAt(a, "fail")
  /\ WorkerGoto(a, "done")
  /\ attempt' = [attempt EXCEPT ![a].result =
                   IF @ = "open" THEN "err" ELSE @]
  /\ UNCHANGED <<others, wallet>>

-----------------------------------------------------------------------------

\* External: the handler stops on its own (daemon lost), or an upstream
\* reconnection brings it back while its socket was not closed on purpose.
HandlerFlaps ==
  /\ handler # None
  /\ running' = ~running
  /\ running' => handler \in socket
  /\ UNCHANGED <<current, closed, attempts, attempt, worker, caller, active,
                 activeLock, handler, socket, fence, abandoned>>

Step(c) ==
  \/ CheckOffline(c) \/ TakeStale(c) \/ DisconnectStale(c) \/ StaleOffline(c)
  \/ SpawnWorker(c) \/ DropOwnGuard(c) \/ ClearOwnCurrent(c)
  \/ ReceiveResult(c) \/ InstallActive(c) \/ JoinWorker(c)
  \/ ConnectTimeout(c)
  \/ CancelRead(c) \/ CancelMark(c) \/ CancelApi(c) \/ CancelBarrier(c)
  \/ CancelJoin(c) \/ ReturnTimeout(c)
  \/ TakeActive(c) \/ DisconnectActive(c) \/ FinishShutdown(c)

WorkerStep(a) ==
  \/ WorkerConnect(a) \/ WorkerPublish(a) \/ WorkerPreflight(a)
  \/ WorkerLockActivation(a) \/ WorkerActivate(a) \/ WorkerActivated(a)
  \/ WorkerDeliver(a) \/ WorkerAwaitAccepted(a)
  \/ WorkerAwaitFinalized(a)
  \/ WorkerRollbackSocket(a) \/ WorkerRollbackHandler(a)
  \/ WorkerComplete(a) \/ WorkerClear(a) \/ WorkerFail(a)

Next ==
  \/ \E c \in Caller :
       \/ AcquireAttempt(c)
       \/ \E terminal \in BOOLEAN : BeginShutdown(c, terminal)
       \/ Step(c)
       \/ DropFuture(c)
  \/ \E a \in Attempt : WorkerStep(a)
  \/ HandlerFlaps

Spec == Init /\ [][Next]_vars

\* The runtime polls every started call and every worker; the connect timeout
\* bounds awaitResult, and the daemon client's own timeout bounds the worker.
\* Nothing ever has to drop a future.
FairSpec ==
  /\ Spec
  /\ \A c \in Caller : WF_vars(Step(c))
  /\ \A a \in Attempt : WF_vars(WorkerStep(a))

\* The callers are interchangeable.
CallerSymmetry == Permutations(Caller)

-----------------------------------------------------------------------------
(* Properties                                                              *)

CallerLocation ==
  {"idle", "isOnline", "takeStale", "cleanStale", "staleOffline", "spawn",
   "dropGuard", "clearCurrent", "awaitResult", "lockActive", "joinCancelled",
   "joinOk", "cancelRead", "cancelMark", "cancelApi", "cancelBarrier",
   "cancelJoin", "timedOut", "takeActive", "disconnect", "setOffline"}

WorkerLocation ==
  {"none", "connecting", "publish", "preflight", "lockActivation",
   "activating", "activated", "deliver", "awaitAccepted", "awaitFinalized",
   "rollback", "rollbackLocked", "rollbackHandler", "rollbackHandlerLocked",
   "drop", "dropFailed", "clear", "clearFailed", "fail", "done"}

AttemptOrNone == 0 .. MaxAttempt

AttemptRecord == [cancelled : BOOLEAN, completed : BOOLEAN, activation : BOOLEAN,
                  api : BOOLEAN, result : {"open", "ok", "err", "closed"},
                  accepted : {"open", "sent", "closed"},
                  finalized : {"open", "sent", "closed"},
                  outcome : {"none", "Ok", "Cancelled"}]

CallerRecord == [pc : CallerLocation, own : AttemptOrNone, target : AttemptOrNone,
                 terminal : BOOLEAN, timedOut : BOOLEAN, fence : AttemptOrNone]

\* The fields have the types of the Rust declarations.
TypeOK ==
  /\ current \in AttemptOrNone
  /\ closed \in BOOLEAN
  /\ attempts \in AttemptOrNone
  /\ attempt \in [Attempt -> AttemptRecord]
  /\ worker \in [Attempt -> WorkerLocation]
  /\ caller \in [Caller -> CallerRecord]
  /\ active \in AttemptOrNone
  /\ activeLock \in BOOLEAN
  /\ handler \in AttemptOrNone
  /\ running \in BOOLEAN
  /\ socket \subseteq Attempt
  /\ fence \in AttemptOrNone
  /\ abandoned \subseteq Attempt

\* A worker that still has to drop its guard, and a call that still holds one.
Unfinished(a) == worker[a] \notin {"none", "clear", "clearFailed", "fail", "done"}
HoldsGuard(c) == caller[c].pc \in {"isOnline", "takeStale", "cleanStale",
                                   "staleOffline", "spawn", "dropGuard"}

\* ConnectionAttemptGuard excludes overlap: whoever holds a guard is the
\* registered attempt, so no two attempts connect, activate or roll back at
\* the same time, and a late rollback stops the handler of its own attempt only.
AttemptsExclude ==
  /\ TypeOK
  /\ \A a \in Attempt : Unfinished(a) => current = a /\ ~attempt[a].completed
  /\ \A c \in Caller : HoldsGuard(c) =>
       /\ current = caller[c].own
       /\ ~Unfinished(current)
  /\ \A c, d \in Caller : HoldsGuard(c) /\ HoldsGuard(d) => c = d
  /\ \A a \in Attempt :
       worker[a] \in {"rollbackHandler", "rollbackHandlerLocked"}
         => handler \in {None, a}

\* Once offline_mode or close has completed, no attempt that existed when it
\* began can put the wallet online again ("the cancelled worker can no longer
\* install a handler after offline/close has applied its postcondition").
OfflineFence == handler # None => handler > fence

Quiescent ==
  /\ \A c \in Caller : At(c, "idle")
  /\ \A a \in Attempt : worker[a] \in {"none", "done"}

\* When everything has settled, the only daemon socket left open is the one
\* of the active connection, which a later offline_mode can still reach, and
\* the wallet does not run on an API that nobody remembers; a connection is
\* lost only with the future of a call that was shutting it down ("dropping its
\* shutdown future can lose the only join handle").
NothingLeaks ==
  Quiescent => /\ socket \subseteq {active} \cup abandoned
               /\ handler # None => handler \in {active} \cup abandoned


\* When offline_mode or close has fenced off every attempt and no call is in
\* progress, the next online_mode is not refused because of an old attempt:
\* "a completed call is a reliable rotation and close barrier".
RotationBarrier ==
  (\A c \in Caller : At(c, "idle")) /\ fence = attempts => current = None

\* Every online_mode, offline_mode and close call returns: neither side of
\* the handshake waits for the other forever.
EveryCallReturns == \A c \in Caller : ~At(c, "idle") ~> At(c, "idle")
=============================================================================
