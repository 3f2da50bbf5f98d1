---------------------------- MODULE WalletHandle ----------------------------
(***************************************************************************)
(* The Dart wallet handle: closing it while event subscriptions are being  *)
(* opened, listened to and cancelled.  Dart runs one callback at a time;   *)
(* an `await` separates two steps, and bridge answers arrive in any order. *)
(*                                                                         *)
(* sub[s] is one subscription object from the call that opens it to the    *)
(* release of its native handle; EventSubscription models what it          *)
(* delivers.  What close() does to prepared transactions and to XSWD       *)
(* sessions touches none of this state (XswdSessions models the latter).   *)
(***************************************************************************)
EXTENDS Naturals, FiniteSets

CONSTANTS
  Subscription,       \* subscriptions the application may open
  Business,           \* those of subscribeBusinessEvents
  NoOne,              \* no subscription
  MaxGeneration,      \* u64::MAX, the last generation of a subscription
  MaxCancelFailures   \* bound on failures of the bridge's cancel

ConstantsAssumption ==
  /\ Business \subseteq Subscription
  /\ NoOne \notin Subscription
  /\ MaxGeneration \in Nat /\ MaxCancelFailures \in Nat

VARIABLES
  terminal,     \* _terminal
  closed,       \* _closeFuture: none, pending, done or failed
  disposed,     \* _disposedByWrapper
  registered,   \* _runtimeEventSubscriptions and _businessEventSubscriptions
  generation,   \* runtime_event_generation and business_event_generation
  sub,          \* every subscription
  closer,       \* the running _cancelSubscriptionsAndClose
  failures      \* failures of the bridge's cancel so far

vars == <<terminal, closed, disposed, registered, generation, sub, closer,
          failures>>

handle == <<terminal, closed, disposed>>

Kind(s) == IF s \in Business THEN "business" ELSE "runtime"

\* opening: the call awaits the bridge; opened: the native cursor exists and
\* its answer is on the way; refusing: the handle was closed meanwhile and the
\* call awaits the cancellation; live: the application has it; orphan: refused,
\* but its cancellation failed; final: the native handle is released.
Fresh == [pc |-> "none", generation |-> 0, requested |-> FALSE, native |-> FALSE,
          pump |-> FALSE]

NoCloser == [phase |-> "none", todo |-> {}, on |-> NoOne, failed |-> FALSE]

Init ==
  /\ terminal = FALSE /\ closed = "none" /\ disposed = FALSE
  /\ registered = {}
  /\ generation = [k \in {"runtime", "business"} |-> 0]
  /\ sub = [s \in Subscription |-> Fresh]
  /\ closer = NoCloser
  /\ failures = 0

At(s, pc) == sub[s].pc = pc
Active == ~terminal /\ ~disposed     \* _ensureActive

-----------------------------------------------------------------------------
(* Opening                                                                 *)

Subscribe(s) ==
  /\ At(s, "none") /\ Active
  /\ sub' = [sub EXCEPT ![s].pc = "opening"]
  /\ UNCHANGED <<handle, registered, generation, closer, failures>>

\* next_runtime_event_generation; 0 if the counter is exhausted.
NextGeneration(k) == IF generation[k] = MaxGeneration THEN 0 ELSE generation[k] + 1

\* The native half of the call.
NativeSubscribe(s) ==
  LET g == NextGeneration(Kind(s)) IN
  /\ At(s, "opening")
  /\ IF g = 0
       THEN /\ sub' = [sub EXCEPT ![s].pc = "final"]
            /\ UNCHANGED generation
       ELSE /\ sub' = [sub EXCEPT ![s].pc = "opened", ![s].generation = g]
            /\ generation' = [generation EXCEPT ![Kind(s)] = g]
  /\ UNCHANGED <<handle, registered, closer, failures>>

\* The bridge's cancel of one subscription: skipped if it succeeded before.
CancelSucceeds(s) == UNCHANGED failures
CancelFails(s) ==
  /\ ~sub[s].native
  /\ failures < MaxCancelFailures
  /\ failures' = failures + 1

\* Mutant: the handle is not checked again after the await.
Refused_Never == FALSE

Refused == terminal \/ disposed

\* The answer of the bridge: an object that cannot be built is cancelled and
\* disposed of, one that comes too late is cancelled, any other is registered.
Opened(s) ==
  /\ At(s, "opened")
  /\ \/ /\ sub' = [sub EXCEPT ![s].pc = "final"]
        /\ UNCHANGED <<registered, failures>>
     \/ /\ Refused /\ CancelSucceeds(s)
        /\ sub' = [sub EXCEPT ![s].pc = "final", ![s].requested = TRUE, ![s].native = TRUE]
        /\ UNCHANGED registered
     \/ /\ Refused /\ CancelFails(s)
        /\ sub' = [sub EXCEPT ![s].pc = "orphan", ![s].requested = TRUE]
        /\ UNCHANGED registered
     \/ /\ ~Refused
        /\ sub' = [sub EXCEPT ![s].pc = "live"]
        /\ registered' = registered \cup {s}
        /\ UNCHANGED failures
  /\ UNCHANGED <<handle, generation, closer>>

-----------------------------------------------------------------------------
(* Listening and cancelling                                                *)

\* _finalize
Finalize(s, native) ==
  /\ sub' = [sub EXCEPT ![s].pc = "final", ![s].requested = TRUE,
                        ![s].native = native, ![s].pump = FALSE]
  /\ registered' = registered \ {s}

\* _onListen: a pump started after a failed cancellation ends at once, and its
\* own attempt to cancel may fail like any other.
Listen(s) ==
  /\ At(s, "live") /\ ~sub[s].pump
  /\ \/ /\ ~sub[s].requested
        /\ sub' = [sub EXCEPT ![s].pump = TRUE]
        /\ UNCHANGED <<registered, failures>>
     \/ sub[s].requested /\ CancelSucceeds(s) /\ Finalize(s, TRUE)
     \/ sub[s].requested /\ CancelFails(s) /\ Finalize(s, FALSE)
  /\ UNCHANGED <<handle, generation, closer>>

\* The pump ends: the stream has ended or failed, or a read returned and finds
\* the cancellation requested.  A cancelled native read returns.
PumpEnds(s) ==
  /\ At(s, "live") /\ sub[s].pump
  /\ \/ CancelSucceeds(s) /\ Finalize(s, TRUE)
     \/ CancelFails(s) /\ Finalize(s, FALSE)
  /\ UNCHANGED <<handle, generation, closer>>

\* Mutant: the native read is not woken.
CancelReturns_NoWake(s) ==
  /\ CancelSucceeds(s)
  /\ IF sub[s].pump
       THEN /\ sub' = [sub EXCEPT ![s].requested = TRUE]
            /\ UNCHANGED registered
       ELSE Finalize(s, TRUE)

\* cancel() of a live subscription up to its first await: without a pump it is
\* finalized at once, with one the caller waits for the pump.
CancelReturns(s) ==
  /\ CancelSucceeds(s)
  /\ IF sub[s].pump
       THEN /\ sub' = [sub EXCEPT ![s].requested = TRUE, ![s].native = TRUE]
            /\ UNCHANGED registered
       ELSE Finalize(s, TRUE)

CancelThrows(s) ==
  /\ CancelFails(s)
  /\ sub' = [sub EXCEPT ![s].requested = TRUE]
  /\ UNCHANGED registered

\* The application cancels; once a cancellation got through, another one only
\* waits for it.
Cancel(s) ==
  /\ At(s, "live") /\ ~sub[s].native
  /\ CancelReturns(s) \/ CancelThrows(s)
  /\ UNCHANGED <<handle, generation, closer>>

-----------------------------------------------------------------------------
(* close() and dispose()                                                   *)

Snapshot(kind) == {s \in registered : Kind(s) = kind}

\* A second call returns the future of the first.
Close ==
  /\ closed = "none" /\ Active
  /\ terminal' = TRUE
  /\ closed' = "pending"
  /\ closer' = [phase |-> "runtime", todo |-> Snapshot("runtime"), on |-> NoOne,
                failed |-> FALSE]
  /\ UNCHANGED <<disposed, registered, generation, sub, failures>>

\* One cancellation of the loops; a failure is kept and the loop goes on.
CloseCancels(s) ==
  /\ closer.on = NoOne /\ s \in closer.todo
  /\ \/ /\ At(s, "live") /\ CancelReturns(s)
        /\ closer' = [closer EXCEPT !.todo = @ \ {s}, !.on = s]
     \/ /\ At(s, "live") /\ CancelThrows(s)
        /\ closer' = [closer EXCEPT !.todo = @ \ {s}, !.failed = TRUE]
     \/ /\ At(s, "final")
        /\ closer' = [closer EXCEPT !.todo = @ \ {s}]
        /\ UNCHANGED <<sub, registered, failures>>
  /\ UNCHANGED <<handle, generation>>

\* The awaited cancellation completes once the subscription is finalized.
CloseResumes ==
  /\ closer.on # NoOne /\ At(closer.on, "final")
  /\ closer' = [closer EXCEPT !.on = NoOne]
  /\ UNCHANGED <<handle, registered, generation, sub, failures>>

\* The business subscriptions are listed after the runtime ones are cancelled.
CloseBusiness ==
  /\ closer.phase = "runtime" /\ closer.todo = {} /\ closer.on = NoOne
  /\ closer' = [closer EXCEPT !.phase = "business", !.todo = Snapshot("business")]
  /\ UNCHANGED <<handle, registered, generation, sub, failures>>

\* The native close, which is called in any case and may fail, and its answer.
CloseNative ==
  /\ closer.phase = "business" /\ closer.todo = {} /\ closer.on = NoOne
  /\ \E fails \in BOOLEAN :
       closed' = IF closer.failed \/ fails THEN "failed" ELSE "done"
  /\ closer' = NoCloser
  /\ UNCHANGED <<terminal, disposed, registered, generation, sub, failures>>

\* dispose(): refused before close() and while it runs.
Dispose ==
  /\ closed \in {"done", "failed"} /\ ~disposed
  /\ disposed' = TRUE
  /\ UNCHANGED <<terminal, closed, registered, generation, sub, closer, failures>>

Next ==
  \/ \E s \in Subscription :
       \/ Subscribe(s) \/ NativeSubscribe(s) \/ Opened(s)
       \/ Listen(s) \/ PumpEnds(s) \/ Cancel(s) \/ CloseCancels(s)
  \/ Close \/ CloseResumes \/ CloseBusiness \/ CloseNative \/ Dispose

Spec == Init /\ [][Next]_vars

\* The Dart event loop runs every continuation; a native read ends once it is
\* cancelled, and the native close returns.
FairSpec ==
  /\ Spec
  /\ WF_vars(\E s \in Subscription : CloseCancels(s))
  /\ WF_vars(CloseResumes) /\ WF_vars(CloseBusiness) /\ WF_vars(CloseNative)
  /\ \A s \in Subscription : WF_vars(sub[s].native /\ PumpEnds(s))

-----------------------------------------------------------------------------
(* Properties                                                              *)

\* What close() promises about subscriptions: once its future has completed
\* without an error, no subscription that the application has is running and
\* none is left registered, whether it was opened before, while or after; and
\* no two subscriptions of a kind ever share a generation, so that a frame of
\* an old one is never taken for one of a new one.
ClosedQuiets ==
  /\ closed = "done" =>
       registered = {} /\ \A s \in Subscription : ~At(s, "live")
  /\ \A s, t \in Subscription :
       s # t /\ Kind(s) = Kind(t) /\ sub[s].generation # 0 =>
         sub[s].generation # sub[t].generation

\* close() returns although listeners run, bridge calls fail and subscriptions
\* are opened meanwhile.
CloseSettles == closed = "pending" ~> closed \in {"done", "failed"}

=============================================================================
