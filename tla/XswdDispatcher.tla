--------------------------- MODULE XswdDispatcher ---------------------------
(***************************************************************************)
(* The XSWD handler of a wallet: one task that receives the events of all  *)
(* application sessions, runs one Dart callback at a time, defers what     *)
(* arrives meanwhile in a bounded queue, and keeps the registry of session *)
(* references through which Dart names a session.                          *)
(*                                                                         *)
(* `active`, `deferred`, `burst` and `observed` are the locals of          *)
(* dispatcher::run, `work` is the event it is handling across an await,    *)
(* `sessions` and `nextRef` are the XswdSessionRegistry, which calls from  *)
(* Dart share.  The queue and the active callback hold event records: a    *)
(* request is a decision for the user, a cancel or disconnect record in    *)
(* them is its notification.  The XSWD server and relayer are external: an *)
(* application sends any events in any order.                              *)
(***************************************************************************)
EXTENDS Naturals, Sequences, Functions

CONSTANTS
  App,          \* application states (Arc<AppState>)
  MaxDeferred,  \* MAX_DEFERRED_XSWD_EVENTS
  MaxBurst,     \* MAX_XSWD_RECEIVE_BURST
  MaxRef,       \* u64::MAX, the end of the session references
  MaxEvents     \* bound on the events of a behaviour

BoundsAssumption ==
  /\ MaxDeferred \in Nat \ {0}
  /\ MaxBurst \in Nat \ {0}
  /\ MaxRef \in Nat \ {0}
  /\ MaxEvents \in Nat

VARIABLES
  channel,    \* the unbounded event channel
  open,       \* its senders still exist
  sent,       \* events sent so far
  held,       \* external: applications the server or relayer holds
  stopping,   \* control point of stop_xswd
  pc,         \* control point of the dispatcher
  prefer,     \* the branch its select polls first
  work,       \* the event it is handling
  active,     \* the Dart callback in progress
  ready,      \* that callback has completed
  deferred,   \* events that wait for it
  burst,      \* events received since it was last polled first
  observed,   \* applications seen in events
  sessions,   \* the session registry
  nextRef,    \* NEXT_XSWD_SESSION_REFERENCE
  reply,      \* history: answer to every request
  revoked,    \* history: applications the dispatcher has invalidated
  owed,       \* history: notifications Dart has to get
  told,       \* history: notifications Dart got
  overtaken   \* history: events received since the callback completed

vars == <<channel, open, sent, held, stopping, pc, prefer, work, active, ready,
          deferred, burst, observed, sessions, nextRef, reply, revoked, owed,
          told, overtaken>>

task == <<pc, prefer, work, active, ready, deferred, burst, observed>>
history == <<reply, revoked, owed, told, overtaken>>

\* RequestPermission and PrefetchPermissions take the same path: "permission".
Decision == {"application", "permission"}
Lifecycle == {"cancel", "disconnect"}

Event == [kind : Decision \cup Lifecycle, app : App, id : 1 .. MaxEvents,
          admission : BOOLEAN]
NoEvent == [kind |-> "none"]

SessionEntry == [ref : 1 .. MaxRef, app : App, active : BOOLEAN]

\* The reference counter is shared by all wallets of the process, so it
\* starts anywhere.
Init ==
  /\ channel = <<>>
  /\ open = TRUE
  /\ sent = 0
  /\ held = App
  /\ stopping = "no"
  /\ pc = "loop"
  /\ prefer = "event"
  /\ work = NoEvent
  /\ active = NoEvent
  /\ ready = FALSE
  /\ deferred = <<>>
  /\ burst = 0
  /\ observed = <<>>
  /\ sessions = {}
  /\ nextRef \in 1 .. MaxRef
  /\ reply = [i \in 1 .. MaxEvents |-> "none"]
  /\ revoked = {}
  /\ owed = {}
  /\ told = {}
  /\ overtaken = 0

\* What Vec::retain and filter leave of s: the elements that are in S, in their
\* order; h are the places they had.
Retained(s, S) ==
  {r \in UNION {[1 .. n -> Range(s)] : n \in 0 .. Len(s)} :
     \E h \in [DOMAIN r -> DOMAIN s] :
       /\ \A i, j \in DOMAIN r : i < j => h[i] < h[j]
       /\ Range(h) = {i \in DOMAIN s : s[i] \in S}
       /\ \A i \in DOMAIN r : r[i] = s[h[i]]}

\* VecDeque::remove of the k-th element.
Removed(s, k) == [i \in 1 .. Len(s) - 1 |-> IF i < k THEN s[i] ELSE s[i + 1]]

IsDecision(e) == e.kind \in Decision
IsDecisionFor(e, a) == IsDecision(e) /\ e.app = a
About(e, a) == e # NoEvent /\ e.app = a

-----------------------------------------------------------------------------
(* The session registry                                                    *)

\* Some strong reference to the application's state exists.
Alive(a) ==
  \/ a \in held
  \/ About(work, a) \/ About(active, a)
  \/ \E e \in Range(channel) \cup Range(deferred) : e.app = a

RemoveDead == {s \in sessions : Alive(s.app)}

Of(a) == {s \in RemoveDead : s.app = a}

Exhausted == nextRef = MaxRef

\* project: the reference of an application, a fresh active one if it has none.
Projects(a) == Of(a) # {} \/ ~Exhausted

Project(a) ==
  IF Of(a) = {} /\ ~Exhausted
    THEN /\ sessions' = RemoveDead \cup
                          {[ref |-> nextRef, app |-> a, active |-> TRUE]}
         /\ nextRef' = nextRef + 1
    ELSE /\ sessions' = RemoveDead
         /\ UNCHANGED nextRef

\* register: the same, and the reference has to be active.
Registers(a) == Projects(a) /\ \A s \in Of(a) : s.active

\* Mutant: an application that was never seen leaves no trace.
Invalidate_OnlyKnown(apps) ==
  /\ sessions' = {[s EXCEPT !.active = s.active /\ s.app \notin Range(apps)] :
                    s \in RemoveDead}
  /\ UNCHANGED nextRef

\* invalidate_state, for one or several applications: their references become
\* inactive, and an application without one gets one that is inactive.
Invalidate(apps) ==
  \E unseen \in Retained(apps, {a \in App : Of(a) = {}}) :
    /\ sessions' = {[s EXCEPT !.active = s.active /\ s.app \notin Range(apps)] :
                      s \in RemoveDead}
                   \cup {[ref |-> nextRef + i - 1, app |-> unseen[i],
                          active |-> FALSE] :
                            i \in {j \in DOMAIN unseen : nextRef + j - 1 < MaxRef}}
    /\ nextRef' = IF nextRef + Len(unseen) < MaxRef
                    THEN nextRef + Len(unseen) ELSE MaxRef

\* clear: every known reference becomes inactive.
Clear ==
  /\ sessions' = {[s EXCEPT !.active = FALSE] : s \in RemoveDead}
  /\ UNCHANGED nextRef

-----------------------------------------------------------------------------
(* External: applications, their server, and Dart                          *)

Send(kind, a) ==
  /\ open /\ a \in held /\ sent < MaxEvents
  /\ sent' = sent + 1
  /\ channel' = Append(channel, [kind |-> kind, app |-> a, id |-> sent + 1,
                                 admission |-> FALSE])
  /\ reply' = [reply EXCEPT ![sent + 1] =
                 IF kind = "disconnect" THEN "no reply" ELSE "none"]
  /\ UNCHANGED <<open, held, stopping, task, sessions, nextRef, revoked, owed,
                 told, overtaken>>

\* The server or relayer drops its reference to an application.
Release(a) ==
  /\ a \in held
  /\ held' = held \ {a}
  /\ UNCHANGED <<channel, open, sent, stopping, task, sessions, nextRef,
                 history>>

\* The stopped server and relayer drop the last sender.
CloseChannel ==
  /\ open /\ stopping # "no"
  /\ open' = FALSE
  /\ UNCHANGED <<channel, sent, held, stopping, task, sessions, nextRef,
                 history>>

\* The Dart future of the active callback completes.
DartCompletes ==
  /\ active # NoEvent /\ ~ready
  /\ ready' = TRUE
  /\ overtaken' = 0
  /\ UNCHANGED <<channel, open, sent, held, stopping, pc, prefer, work, active,
                 deferred, burst, observed, sessions, nextRef, reply, revoked,
                 owed, told>>

-----------------------------------------------------------------------------
(* Calls from Dart that use the registry                                   *)

\* One application of get_application_permissions, which holds the lock of the
\* server or relayer it lists.
ListApplication(a) ==
  /\ stopping = "no" /\ a \in held
  /\ Project(a)
  /\ UNCHANGED <<channel, open, sent, held, stopping, task, history>>

\* stop_xswd takes the server and the relayer, and later clears the registry.
StopTakes ==
  /\ stopping = "no"
  /\ stopping' = "taken"
  /\ UNCHANGED <<channel, open, sent, held, task, sessions, nextRef, history>>

StopClears ==
  /\ stopping = "taken"
  /\ stopping' = "done"
  /\ Clear
  /\ UNCHANGED <<channel, open, sent, held, task, history>>

-----------------------------------------------------------------------------
(* The dispatcher                                                          *)

Ids(S) == {e.id : e \in S}

Answer(ids, r) ==
  reply' = [i \in DOMAIN reply |-> IF i \in ids THEN r ELSE reply[i]]

\* Only decisions carry a reply once they are in the queue or active.
DecisionsIn(S) == {e \in S : e # NoEvent /\ IsDecision(e)}

\* start / into_active: the Dart callback begins.
Start(e) ==
  /\ active' = e
  /\ ready' = FALSE
  /\ burst' = 0
  /\ overtaken' = 0
  /\ told' = IF IsDecision(e) THEN told
             ELSE told \cup {[kind |-> e.kind, app |-> e.app,
                              admission |-> e.admission]}

\* The observed applications that still exist.
Outlived == Retained(observed, {a \in App : Alive(a)})

\* track_xswd_state: applications that exist, in the order first seen.
Track(a) ==
  \E seen \in Outlived :
    observed' = IF a \in Range(seen) THEN seen ELSE Append(seen, a)

\* With no callback active the oldest deferred event is next: a decision is
\* prepared, a notification starts.
TakeDeferred ==
  /\ pc = "loop" /\ active = NoEvent /\ deferred # <<>>
  /\ deferred' = Tail(deferred)
  /\ IF IsDecision(Head(deferred))
       THEN /\ work' = Head(deferred)
            /\ pc' = "prepare"
            /\ UNCHANGED <<active, ready, burst, overtaken, told>>
       ELSE /\ Start(Head(deferred))
            /\ UNCHANGED <<work, pc>>
  /\ UNCHANGED <<channel, open, sent, held, stopping, prefer, observed,
                 sessions, nextRef, reply, revoked, owed>>

\* prepare_xswd_event on a decision, up to the registry: the payload of a
\* permission or prefetch request may be refused, the session may be invalid.
PrepareRefused ==
  /\ pc = "prepare"
  /\ \/ /\ work.kind = "permission"
        /\ UNCHANGED <<sessions, nextRef>>
     \/ /\ ~Registers(work.app)
        /\ Project(work.app)
  /\ Answer({work.id}, "failed")
  /\ work' = NoEvent
  /\ pc' = "loop"
  /\ UNCHANGED <<channel, open, sent, held, stopping, prefer, active, ready,
                 deferred, burst, observed, revoked, owed, told, overtaken>>

PrepareRegisters ==
  /\ pc = "prepare"
  /\ Registers(work.app)
  /\ Project(work.app)
  /\ pc' = "start"
  /\ UNCHANGED <<channel, open, sent, held, stopping, prefer, work, active,
                 ready, deferred, burst, observed, history>>

\* The application's permissions have been read: the user is asked.
StartDecision ==
  /\ pc = "start"
  /\ Start(work)
  /\ work' = NoEvent
  /\ pc' = "loop"
  /\ UNCHANGED <<channel, open, sent, held, stopping, prefer, deferred,
                 observed, sessions, nextRef, reply, revoked, owed>>

\* Mutant: the callback never goes first.
PollsFirst_AlwaysEvents == prefer' = "event" /\ UNCHANGED burst

\* The branch that the next select polls first: after MaxBurst events it is
\* the callback.
PollsFirst ==
  IF burst >= MaxBurst
    THEN prefer' = "callback" /\ burst' = 0
    ELSE prefer' = "event" /\ UNCHANGED burst

EnterSelect ==
  /\ pc = "loop" /\ active # NoEvent
  /\ PollsFirst
  /\ pc' = "select"
  /\ UNCHANGED <<channel, open, sent, held, stopping, work, active, ready,
                 deferred, observed, sessions, nextRef, history>>

\* receiver.recv() is what the dispatcher polls, and wins.
Receiving ==
  \/ pc = "loop" /\ active = NoEvent /\ deferred = <<>>
  \/ pc = "select" /\ (prefer = "event" \/ ~ready)

\* The callback's outcome, a decision, timeout or exception, is the answer.
SelectCallback ==
  /\ pc = "select" /\ ready
  /\ prefer = "callback" \/ (channel = <<>> /\ open)
  /\ Answer(Ids(DecisionsIn({active})), "outcome")
  /\ active' = NoEvent
  /\ ready' = FALSE
  /\ burst' = 0
  /\ pc' = "loop"
  /\ UNCHANGED <<channel, open, sent, held, stopping, prefer, work, deferred,
                 observed, sessions, nextRef, revoked, owed, told, overtaken>>

Receive(e) ==
  /\ Receiving
  /\ channel # <<>> /\ e = Head(channel)
  /\ channel' = Tail(channel)
  /\ Track(e.app)
  /\ overtaken' = IF ready THEN overtaken + 1 ELSE 0
  /\ burst' = IF active = NoEvent THEN burst ELSE burst + 1
  /\ UNCHANGED <<open, sent, held, stopping, prefer, active, ready, sessions,
                 nextRef, revoked, owed, told>>

\* A decision is prepared, or deferred while a callback is active, or refused
\* when the queue is full (defer_xswd_decision).
ReceiveDecision ==
  \E e \in Range(channel) :
    /\ IsDecision(e)
    /\ Receive(e)
    /\ \/ /\ active = NoEvent
          /\ work' = e
          /\ pc' = "prepare"
          /\ UNCHANGED <<deferred, reply>>
       \/ /\ active # NoEvent /\ Len(deferred) < MaxDeferred
          /\ deferred' = Append(deferred, e)
          /\ pc' = "loop"
          /\ UNCHANGED <<work, reply>>
       \/ /\ active # NoEvent /\ Len(deferred) >= MaxDeferred
          /\ Answer({e.id}, "failed")
          /\ pc' = "loop"
          /\ UNCHANGED <<work, deferred>>

\* A cancellation or disconnection first cancels the application's deferred
\* decisions (cancel_deferred_xswd_decisions).
ReceiveLifecycle ==
  \E e \in Range(channel) :
    LET mine == {d \in Range(deferred) : IsDecisionFor(d, e.app)}
        admissions == {d \in mine \cup DecisionsIn({active}) :
                         d.app = e.app /\ d.kind = "application"}
    IN /\ ~IsDecision(e)
       /\ Receive(e)
       /\ deferred' \in Retained(deferred, Range(deferred) \ mine)
       /\ Answer(Ids(mine), "failed")
       /\ work' = [e EXCEPT !.admission = e.kind = "cancel" /\ admissions # {}]
       /\ pc' = "revoke"

\* A disconnection, and a cancellation that took an admission with it.
Revokes(e) == e.kind = "disconnect" \/ e.admission

\* Mutant: the decision in progress survives.
CancelsActive_Never(a) == FALSE

CancelsActive(a) == active # NoEvent /\ IsDecisionFor(active, a)

\* The session is invalidated, the active decision cancelled and the request
\* acknowledged, with no await in between.
Revoke ==
  /\ pc = "revoke"
  /\ IF Revokes(work)
       THEN /\ Invalidate(<<work.app>>)
            /\ revoked' = revoked \cup {work.app}
       ELSE UNCHANGED <<sessions, nextRef, revoked>>
  /\ owed' = IF Revokes(work) /\ Projects(work.app)
               THEN owed \cup {[kind |-> work.kind, app |-> work.app,
                                admission |-> work.admission]}
               ELSE owed
  /\ LET acknowledged == IF work.kind = "cancel" THEN {work.id} ELSE {}
         cancelled == IF CancelsActive(work.app) THEN {active.id} ELSE {}
     IN reply' = [i \in DOMAIN reply |->
                    CASE i \in acknowledged -> "acknowledged"
                      [] i \in cancelled -> "failed"
                      [] OTHER -> reply[i]]
  /\ IF CancelsActive(work.app)
       THEN active' = NoEvent /\ ready' = FALSE
       ELSE UNCHANGED <<active, ready>>
  /\ pc' = "notify"
  /\ UNCHANGED <<channel, open, sent, held, stopping, prefer, work, deferred,
                 burst, observed, told, overtaken>>

\* Mutant: at saturation the new disconnection is dropped.
DeferDisconnect_Drops(n) ==
  /\ IF Len(deferred) < MaxDeferred
       THEN deferred' = Append(deferred, n)
       ELSE UNCHANGED deferred
  /\ work' = NoEvent
  /\ pc' = "loop"
  /\ UNCHANGED reply

\* defer_xswd_disconnect: a disconnection already active or queued is not
\* repeated.  With a full queue the first decision in it makes room; if there
\* is none the oldest notification is taken out, to start at once.
DeferDisconnect(n) ==
  LET same == {d \in Range(deferred) \cup {active} :
                 d.kind = "disconnect" /\ d.app = n.app}
      decisions == {i \in DOMAIN deferred : IsDecision(deferred[i])}
  IN \/ /\ same # {}
        /\ work' = NoEvent /\ pc' = "loop"
        /\ UNCHANGED <<deferred, reply>>
     \/ /\ same = {} /\ Len(deferred) < MaxDeferred
        /\ deferred' = Append(deferred, n)
        /\ work' = NoEvent /\ pc' = "loop"
        /\ UNCHANGED reply
     \/ \E first \in decisions :
          /\ same = {} /\ Len(deferred) >= MaxDeferred
          /\ \A i \in decisions : first <= i
          /\ deferred' = Append(Removed(deferred, first), n)
          /\ Answer({deferred[first].id}, "failed")
          /\ work' = NoEvent /\ pc' = "loop"
     \/ /\ same = {} /\ Len(deferred) >= MaxDeferred /\ decisions = {}
        /\ deferred' = Append(Tail(deferred), n)
        /\ work' = Head(deferred) /\ pc' = "overload"
        /\ UNCHANGED reply

\* A notification of a cancelled request waits its turn, or is abandoned when
\* the queue is full.
DeferCancel(n) ==
  /\ deferred' = IF Len(deferred) < MaxDeferred
                   THEN Append(deferred, n) ELSE deferred
  /\ work' = NoEvent
  /\ pc' = "loop"
  /\ UNCHANGED reply

\* The notification is prepared, which needs a session reference, and starts,
\* or is deferred while another callback is active.
Notify ==
  /\ pc = "notify"
  /\ Project(work.app)
  /\ \/ /\ ~Projects(work.app)
        /\ work' = NoEvent /\ pc' = "loop"
        /\ UNCHANGED <<active, ready, deferred, burst, reply, overtaken, told>>
     \/ /\ Projects(work.app) /\ active = NoEvent
        /\ Start(work)
        /\ work' = NoEvent /\ pc' = "loop"
        /\ UNCHANGED <<deferred, reply>>
     \/ /\ Projects(work.app) /\ active # NoEvent
        /\ \/ work.kind = "disconnect" /\ DeferDisconnect(work)
           \/ work.kind = "cancel" /\ DeferCancel(work)
        /\ UNCHANGED <<active, ready, burst, overtaken, told>>
  /\ UNCHANGED <<channel, open, sent, held, stopping, prefer, observed,
                 revoked, owed>>

FailActive == Answer(Ids(DecisionsIn({active})), "failed")

\* The saturated queue's oldest notification replaces the active callback.
\* An admission that is lost this way loses its session.
Overload ==
  /\ pc = "overload"
  /\ IF active.kind = "application"
       THEN /\ Invalidate(<<active.app>>)
            /\ revoked' = revoked \cup {active.app}
       ELSE UNCHANGED <<sessions, nextRef, revoked>>
  /\ FailActive
  /\ Start(work)
  /\ work' = NoEvent
  /\ pc' = "loop"
  /\ UNCHANGED <<channel, open, sent, held, stopping, prefer, deferred,
                 observed, owed>>

\* Mutant: the queue is dropped with the handler.
Remaining_ActiveOnly == {active}

Remaining == Range(deferred) \cup {active}

\* The channel has closed: everything is failed, what the handler has seen and
\* still exists is invalidated (invalidate_observed_xswd_states), and it ends.
ReceiveClosed ==
  /\ Receiving
  /\ channel = <<>> /\ ~open
  /\ \E states \in Outlived :
       /\ Invalidate(states)
       /\ revoked' = revoked \cup Range(states)
  /\ Answer(Ids(DecisionsIn(Remaining)), "failed")
  /\ active' = NoEvent
  /\ ready' = FALSE
  /\ deferred' = <<>>
  /\ pc' = "ended"
  /\ UNCHANGED <<channel, open, sent, held, stopping, prefer, work, burst,
                 observed, owed, told, overtaken>>

Dispatch ==
  \/ TakeDeferred \/ PrepareRefused \/ PrepareRegisters \/ StartDecision
  \/ EnterSelect \/ SelectCallback \/ ReceiveDecision \/ ReceiveLifecycle
  \/ Revoke \/ Notify \/ Overload \/ ReceiveClosed

Next ==
  \/ \E a \in App : \E kind \in Decision \cup Lifecycle : Send(kind, a)
  \/ \E a \in App : Release(a)
  \/ CloseChannel
  \/ DartCompletes
  \/ \E a \in App : ListApplication(a)
  \/ StopTakes
  \/ StopClears
  \/ Dispatch

Spec == Init /\ [][Next]_vars

\* The runtime keeps polling the handler task, and a Dart callback always
\* completes: the adapter answers for a handler that does not in time.
FairSpec == Spec /\ WF_vars(Dispatch) /\ WF_vars(DartCompletes)

-----------------------------------------------------------------------------
(* Properties                                                              *)

TypeOK ==
  /\ channel \in Seq(Event)
  /\ open \in BOOLEAN
  /\ sent \in 0 .. MaxEvents
  /\ held \subseteq App
  /\ stopping \in {"no", "taken", "done"}
  /\ pc \in {"loop", "prepare", "start", "select", "revoke", "notify",
             "overload", "ended"}
  /\ prefer \in {"event", "callback"}
  /\ work \in Event \cup {NoEvent}
  /\ active \in Event \cup {NoEvent}
  /\ ready \in BOOLEAN /\ (ready => active # NoEvent)
  /\ deferred \in Seq(Event) /\ Len(deferred) <= MaxDeferred
  /\ burst \in 0 .. MaxBurst
  /\ observed \in Seq(App)
  /\ sessions \subseteq SessionEntry
  /\ nextRef \in 1 .. MaxRef

\* A request that has left the channel is answered, or waits as the event at
\* work, in the queue or as the active callback: no path of the handler, a full
\* queue, a saturated one or its end included, forgets a caller that awaits its
\* oneshot reply.  While the handler runs, Dart learns of every disconnection
\* and every cancelled admission, however full the queue: the notification has
\* started, is queued or is being prepared.  Only an application that got no
\* reference because they ran out is excused.
NothingForgotten ==
  /\ TypeOK
  /\ \A i \in 1 .. sent :
       reply[i] = "none" =>
         i \in Ids(Range(channel) \cup Range(deferred)
                   \cup ({work, active} \ {NoEvent}))
  /\ pc # "ended" =>
       \A n \in owed :
         \/ n \in told
         \/ \E e \in Range(deferred) \cup ({work} \ {NoEvent}) :
              n = [kind |-> e.kind, app |-> e.app, admission |-> e.admission]

\* "so a later projection cannot mint fresh authority": after the handler has
\* invalidated an application, by a disconnection, a cancelled or overloaded
\* admission or its own end, no reference to it is active, whatever is listed
\* or requested later; and after stop_xswd and the end of the handler no
\* reference is, although the handler may register an application after the
\* registry was cleared.
NoFreshAuthority ==
  /\ \A s \in sessions : s.app \in revoked => ~s.active
  /\ stopping = "done" /\ pc = "ended" => \A s \in RemoveDead : ~s.active

\* The user is not asked, and cannot answer, for an application that the
\* handler has invalidated.
NoDecisionAfterRevocation ==
  active # NoEvent /\ IsDecision(active) => active.app \notin revoked

\* A completed callback is not starved by a stream of events: at most MaxBurst
\* are received before its outcome is taken.
CallbackNotStarved == overtaken <= MaxBurst

\* Every request is eventually answered.
RequestsAnswered ==
  \A i \in 1 .. MaxEvents :
    (i <= sent /\ reply[i] = "none") ~> (reply[i] # "none")

=============================================================================
