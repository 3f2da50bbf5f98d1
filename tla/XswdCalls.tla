------------------------------ MODULE XswdCalls ------------------------------
(***************************************************************************)
(* The XSWD calls of a wallet: start and stop, relayed applications, the   *)
(* permissions of a session and its end.  Every call takes the locks of    *)
(* the local server and of the relayer one after the other, never both,    *)
(* and the Dart adapter keeps start and stop apart from admission and      *)
(* close.  The dispatcher behind the callbacks works on its own time: a    *)
(* request for admission waits for it, and so does the end of a session.   *)
(* Its queues are those of XswdDispatcher.                                 *)
(*                                                                         *)
(* A session is one connection (an Arc<AppState>); several sessions may    *)
(* have the same application id.  A session reference is issued once and   *)
(* stands for its session.  The locks are not variables: a call does all   *)
(* it does under one of them in a step.                                    *)
(***************************************************************************)
EXTENDS Naturals, FiniteSets

CONSTANTS
  Session,
  AppId,        \* the application id of every session
  Permission,   \* permission names
  Update,       \* updates callers ask for: policies by permission name
  Prefixed,     \* names that start with "wallet."
  Call,
  NoSession

VARIABLES
  server,    \* the local server runs
  relayer,   \* the relayer exists
  handler,   \* a handler consumes the events of their channel; after a stop the
             \* old one may still run when the next is started
  session,   \* every session's connection: its state and whether it is relayed
  registry,  \* the reference of every session: "none", "active" or "inactive"
  requests,  \* the sessions whose RequestApplication no handler has reached
  perms,     \* every session's permissions
  call,      \* the calls in progress
  lifecycle, \* the adapter's flag: start or stop in progress
  ops,       \* the adapter's set of application ids being added or closed
  granted,   \* history: permissions the user allowed, of which session
  stopped,   \* history: stop returned, and nothing was started since
  late       \* history: the waiting requests that had no reference when stop
             \* cleared the registry

vars == <<server, relayer, handler, session, registry, requests, perms, call,
          lifecycle, ops, granted, stopped, late>>
xswd == <<server, relayer, handler>>
references == <<registry, requests>>
adapter == <<lifecycle, ops>>
history == <<granted, stopped, late>>

Idle == [op |-> "none", pc |-> "idle", target |-> NoSession]
Outcome == {"Accept", "Reject", "AlwaysAccept", "AlwaysReject",
            "InvalidPayload", "Timeout", "Exception"}

Init ==
  /\ server = FALSE /\ relayer = FALSE /\ handler = FALSE
  /\ session = [s \in Session |-> [state |-> "new", is_relayer |-> FALSE]]
  /\ registry = [s \in Session |-> "none"]
  /\ perms = [s \in Session |-> [p \in Permission |-> "Ask"]]
  /\ call = [c \in Call |-> Idle]
  /\ lifecycle = FALSE /\ ops = {}
  /\ requests = {}
  /\ granted = {} /\ stopped = FALSE /\ late = {}

Goto(c, pc) == call' = [call EXCEPT ![c].pc = pc]
Return(c) == call' = [call EXCEPT ![c] = Idle]
At(c, op, pc) == call[c].op = op /\ call[c].pc = pc

\* External: a connection is in its server's or relayer's map until it is gone.
\* One that was refused or whose socket was closed is still there for a while.
Connected(s) == session[s].state \in {"admitting", "live", "closing"}
Of(is_relayer) == {s \in Session : Connected(s) /\ session[s].is_relayer = is_relayer}

-----------------------------------------------------------------------------
(* The adapter                                                             *)

\* Mutant: start and stop do not look at the application operations.
MayRunLifecycle_Always == ~lifecycle

\* _runXswdLifecycleOperation and _runXswdApplicationOperation
MayRunLifecycle == ~lifecycle /\ ops = {}
MayRunApplication(id) == ~lifecycle /\ id \notin ops

BeginLifecycle(c, op) ==
  /\ call[c] = Idle /\ MayRunLifecycle
  /\ lifecycle' = TRUE
  /\ call' = [call EXCEPT ![c] = [op |-> op, pc |-> "begun", target |-> NoSession]]
  /\ stopped' = FALSE /\ late' = {}
  /\ UNCHANGED <<xswd, session, references, perms, ops, granted>>

BeginApplication(c, op, s) ==
  /\ call[c] = Idle /\ MayRunApplication(AppId[s])
  /\ ops' = ops \cup {AppId[s]}
  /\ call' = [call EXCEPT ![c] = [op |-> op, pc |-> "begun", target |-> s]]
  /\ stopped' = (stopped /\ op = "close")
  /\ late' = IF op = "close" THEN late ELSE {}
  /\ UNCHANGED <<xswd, session, references, perms, lifecycle, granted>>

EndApplication(c) ==
  /\ Return(c)
  /\ ops' = ops \ {AppId[call[c].target]}
  /\ UNCHANGED <<lifecycle, history>>

-----------------------------------------------------------------------------
(* Starting and stopping                                                   *)

\* start_xswd: a server that already runs is no error; limits that do not
\* validate and a server that does not start are.
StartXswd(c) ==
  /\ At(c, "start", "begun")
  /\ \/ server' = TRUE /\ handler' = TRUE
     \/ UNCHANGED <<server, handler>>
  /\ Return(c) /\ lifecycle' = FALSE
  /\ UNCHANGED <<relayer, session, references, perms, ops, history>>

\* External: a connection ends, and is in no map any more.
Disconnected(S) ==
  session' = [s \in Session |->
    IF s \in S THEN [state |-> "gone", is_relayer |-> FALSE] ELSE session[s]]

\* stop_xswd: the server is taken out, then stopped.
StopServer(c) ==
  /\ At(c, "stop", "begun")
  /\ server' = FALSE /\ Goto(c, "serverTaken")
  /\ UNCHANGED <<relayer, handler, session, references, perms, adapter, history>>

StopServerEnds(c) ==
  /\ At(c, "stop", "serverTaken")
  /\ Disconnected(Of(FALSE)) /\ Goto(c, "serverStopped")
  /\ UNCHANGED <<xswd, references, perms, adapter, history>>

StopRelayer(c) ==
  /\ At(c, "stop", "serverStopped")
  /\ relayer' = FALSE /\ Goto(c, "relayerTaken")
  /\ UNCHANGED <<server, handler, session, references, perms, adapter, history>>

StopRelayerEnds(c) ==
  /\ At(c, "stop", "relayerTaken")
  /\ Disconnected(Of(TRUE)) /\ Goto(c, "relayerClosed")
  /\ UNCHANGED <<xswd, references, perms, adapter, history>>

\* The registry is cleared; the handler may still have events to take.
StopClears(c) ==
  /\ At(c, "stop", "relayerClosed")
  /\ registry' = [s \in Session |-> IF registry[s] = "none" THEN "none" ELSE "inactive"]
  /\ Return(c) /\ lifecycle' = FALSE /\ stopped' = TRUE
  /\ late' = {s \in requests : registry[s] = "none"}
  /\ UNCHANGED <<xswd, session, requests, perms, ops, granted>>

-----------------------------------------------------------------------------
(* The dispatcher and the registry                                         *)

\* project: a state that has no reference gets one, and it is active.
Project(S) ==
  registry' = [s \in Session |->
    IF s \in S /\ registry[s] = "none" THEN "active" ELSE registry[s]]

\* External: the application is told no, and its connection closes.
Refused(s) ==
  session' = IF session[s].state = "admitting"
    THEN [session EXCEPT ![s].state = "closing"] ELSE session

\* prepare_xswd_event: the handler reaches an application's request, registers
\* it and asks the user; an inactive reference is an error.
Register(s) ==
  /\ handler /\ s \in requests
  /\ requests' = requests \ {s}
  /\ \/ registry[s] # "inactive" /\ Project({s}) /\ UNCHANGED session
     \/ registry[s] = "inactive" /\ Refused(s) /\ UNCHANGED registry
  /\ UNCHANGED <<xswd, perms, call, adapter, history>>

\* defer_xswd_decision and defer_xswd_disconnect: a request is refused because
\* the queue is full; one that is with the user already, because the queue has
\* no room for an end, and its reference is revoked.
RefuseAdmission(s) ==
  /\ handler
  /\ \/ s \in requests /\ UNCHANGED registry
     \/ /\ s \notin requests /\ session[s].state = "admitting"
        /\ registry' = [registry EXCEPT ![s] = "inactive"]
  /\ Refused(s) /\ requests' = requests \ {s}
  /\ UNCHANGED <<xswd, perms, call, adapter, history>>

\* AppDisconnect: the handler reaches the end of a session and cancels what it
\* asked for; a reference without a state resolves no more than an inactive one.
Invalidate(s) ==
  /\ handler /\ session[s].state = "gone"
  /\ registry' = [registry EXCEPT ![s] = "inactive"]
  /\ requests' = requests \ {s}
  /\ UNCHANGED <<xswd, session, perms, call, adapter, history>>

\* The channel has no senders left: what was observed is invalidated, what
\* waited is failed.
HandlerEnds ==
  /\ handler /\ ~server /\ ~relayer
  /\ \A s \in Session : ~Connected(s)
  /\ \A c \in Call : call[c].pc \notin {"serverTaken", "relayerTaken"}
  /\ handler' = FALSE /\ requests' = {}
  /\ registry' = [s \in Session |->
       IF session[s].state = "new" THEN registry[s] ELSE "inactive"]
  /\ UNCHANGED <<server, relayer, session, perms, call, adapter, history>>

\* get_application_permissions: each list is read under its lock, and every
\* session in it is projected.
List(is_relayer) ==
  /\ IF is_relayer THEN relayer ELSE server
  /\ Project(Of(is_relayer))
  /\ UNCHANGED <<xswd, session, requests, perms, call, adapter, history>>

-----------------------------------------------------------------------------
(* Applications                                                            *)

\* add_xswd_relayer: limits and encryption key are checked, the relayer is
\* initialised and its handler spawned before the application is added.
AddRelayerInit(c) ==
  /\ At(c, "add", "begun")
  /\ \/ /\ relayer' = TRUE /\ handler' = TRUE
        /\ Goto(c, "initialised") /\ UNCHANGED <<ops, lifecycle, history>>
     \/ UNCHANGED <<relayer, handler>> /\ EndApplication(c)
  /\ UNCHANGED <<server, session, references, perms>>

\* External: a session connects and sends its request for admission.
Connects(s, is_relayer) ==
  /\ session[s].state = "new"
  /\ session' = [session EXCEPT ![s] = [state |-> "admitting", is_relayer |-> is_relayer]]
  /\ requests' = requests \cup {s}

\* The relayed application connects, or the relayer refuses it.
AddRelayerConnects(c) ==
  /\ At(c, "add", "initialised")
  /\ \/ /\ relayer /\ Connects(call[c].target, TRUE)
        /\ Goto(c, "added") /\ UNCHANGED <<ops, lifecycle, history>>
     \/ UNCHANGED <<session, requests>> /\ EndApplication(c)
  /\ UNCHANGED <<xswd, registry, perms>>

\* add_xswd_relayer returns when the application has its answer.
AddRelayerEnds(c) ==
  /\ At(c, "add", "added") /\ session[call[c].target].state # "admitting"
  /\ EndApplication(c)
  /\ UNCHANGED <<xswd, session, references, perms>>

\* External: an application connects to the local server.
ConnectLocal(s) ==
  /\ server /\ Connects(s, FALSE)
  /\ UNCHANGED <<xswd, registry, perms, call, adapter, history>>

\* External: the peer goes away, or the loop of a closed socket ends.
PeerCloses(s) ==
  /\ Connected(s)
  /\ Disconnected({s})
  /\ UNCHANGED <<xswd, references, perms, call, adapter, history>>

\* resolve
Resolves(s) == registry[s] = "active"

\* Mutant: the live session is looked up by its application id.
Same_ById(s, target) == AppId[s] = AppId[target]

\* Arc::ptr_eq
Same(s, target) == s = target

Found(target, is_relayer) == {s \in Of(is_relayer) : Same(s, target)}

\* close_application_session: the reference is resolved ...
CloseResolves(c) ==
  /\ At(c, "close", "begun")
  /\ \/ /\ Resolves(call[c].target)
        /\ Goto(c, "server") /\ UNCHANGED <<ops, lifecycle, history>>
     \/ ~Resolves(call[c].target) /\ EndApplication(c)
  /\ UNCHANGED <<xswd, session, references, perms>>

\* ... under the lock of the server a session of its own is asked to close, or
\* fails to; the server's loop removes it ...
CloseLocal(c) ==
  /\ At(c, "close", "server")
  /\ LET found == IF server THEN Found(call[c].target, FALSE) ELSE {} IN
     \/ /\ found # {}
        /\ \/ session' = [s \in Session |->
                IF s \in found THEN [session[s] EXCEPT !.state = "closing"] ELSE session[s]]
           \/ UNCHANGED session
        /\ EndApplication(c)
     \/ /\ found = {}
        /\ Goto(c, "relayer") /\ UNCHANGED <<session, ops, lifecycle, history>>
  /\ UNCHANGED <<xswd, references, perms>>

\* ... the relayer is cloned under its lock and the session looked for ...
CloseRelayed(c) ==
  /\ At(c, "close", "relayer")
  /\ LET found == IF relayer THEN Found(call[c].target, TRUE) ELSE {} IN
     \/ found # {} /\ Goto(c, "closing") /\ UNCHANGED <<ops, lifecycle, history>>
     \/ found = {} /\ EndApplication(c)
  /\ UNCHANGED <<xswd, session, references, perms>>

\* ... and is closed from both ends without the lock.
CloseRelayedEnds(c) ==
  /\ At(c, "close", "closing")
  /\ Disconnected({call[c].target})
  /\ EndApplication(c)
  /\ UNCHANGED <<xswd, references, perms>>

-----------------------------------------------------------------------------
(* Permissions                                                             *)

\* permission_from_policy
PermissionFromPolicy(policy) ==
  CASE policy = "Accept" -> "Allow" [] policy = "Reject" -> "Reject" [] OTHER -> "Ask"

\* apply_permission_updates: every name is checked before any is changed.
ApplyPermissionUpdates(current, updates) ==
  IF DOMAIN updates \subseteq DOMAIN current \ Prefixed
    THEN [p \in DOMAIN current |->
            IF p \in DOMAIN updates THEN PermissionFromPolicy(updates[p]) ELSE current[p]]
    ELSE current

\* modify_application_permissions: the reference is resolved ...
BeginModify(c, s, updates) ==
  /\ call[c] = Idle
  /\ Resolves(s)
  /\ call' = [call EXCEPT ![c] = [op |-> "modify", pc |-> "server", target |-> s,
                                  updates |-> updates]]
  /\ granted' = granted \cup {<<s, p>> : p \in {q \in DOMAIN updates : updates[q] = "Accept"}}
  /\ UNCHANGED <<xswd, session, references, perms, adapter, stopped, late>>

Modifies(c, found) ==
  /\ perms' = [s \in Session |-> IF s \in found
                 THEN ApplyPermissionUpdates(perms[s], call[c].updates) ELSE perms[s]]
  /\ Return(c)

\* ... the session is looked for under the lock of the server ...
ModifyLocal(c) ==
  /\ At(c, "modify", "server")
  /\ LET found == IF server THEN Found(call[c].target, FALSE) ELSE {} IN
     IF found # {} THEN Modifies(c, found) ELSE Goto(c, "relayer") /\ UNCHANGED perms
  /\ UNCHANGED <<xswd, session, references, adapter, history>>

\* ... and then of the relayer.
ModifyRelayed(c) ==
  /\ At(c, "modify", "relayer")
  /\ Modifies(c, IF relayer THEN Found(call[c].target, TRUE) ELSE {})
  /\ UNCHANGED <<xswd, session, references, adapter, history>>

\* permission_result_from_outcome; a failure has a static code.
PermissionResult(outcome) ==
  IF outcome \in {"Accept", "Reject", "AlwaysAccept", "AlwaysReject"} THEN outcome
  ELSE "error"

\* The user's own consent.
Accepts(outcome) == outcome \in {"Accept", "AlwaysAccept"}

\* The answer to an application request that is with the user.
DecideApplication(s, outcome) ==
  /\ handler /\ session[s].state = "admitting" /\ s \notin requests
  /\ IF PermissionResult(outcome) \in {"Accept", "AlwaysAccept"}
       THEN session' = [session EXCEPT ![s].state = "live"]
       ELSE Refused(s)
  /\ UNCHANGED <<xswd, references, perms, call, adapter, history>>

\* The answer to a permission request; upstream remembers an "always".
DecidePermission(s, p, outcome) ==
  /\ handler /\ session[s].state = "live"
  /\ perms' = [perms EXCEPT ![s][p] =
       CASE PermissionResult(outcome) = "AlwaysAccept" -> "Allow"
         [] PermissionResult(outcome) = "AlwaysReject" -> "Reject"
         [] OTHER -> @]
  /\ granted' = IF Accepts(outcome) THEN granted \cup {<<s, p>>} ELSE granted
  /\ UNCHANGED <<xswd, session, references, call, adapter, stopped, late>>

\* handle_prefetch_permissions_outcome: all that were asked for, or none.
PrefetchResult(outcome, asked) ==
  IF PermissionResult(outcome) \in {"Accept", "AlwaysAccept"} THEN asked ELSE {}

DecidePrefetch(s, asked, outcome) ==
  /\ handler /\ session[s].state = "live"
  /\ perms' = [perms EXCEPT ![s] = [p \in Permission |->
       IF p \in PrefetchResult(outcome, asked) THEN "Allow" ELSE @[p]]]
  /\ granted' = IF Accepts(outcome) THEN granted \cup {<<s, p>> : p \in asked} ELSE granted
  /\ UNCHANGED <<xswd, session, references, call, adapter, stopped, late>>

Next ==
  \/ \E c \in Call : BeginLifecycle(c, "start") \/ BeginLifecycle(c, "stop")
  \/ \E c \in Call, s \in Session :
       BeginApplication(c, "add", s)
         \/ (registry[s] # "none" /\ BeginApplication(c, "close", s))
  \/ \E c \in Call : StartXswd(c)
  \/ \E c \in Call : StopServer(c) \/ StopServerEnds(c) \/ StopRelayer(c)
                       \/ StopRelayerEnds(c) \/ StopClears(c)
  \/ \E c \in Call : AddRelayerInit(c) \/ AddRelayerConnects(c) \/ AddRelayerEnds(c)
  \/ \E s \in Session : ConnectLocal(s) \/ PeerCloses(s)
  \/ \E c \in Call : CloseResolves(c) \/ CloseLocal(c) \/ CloseRelayed(c)
                       \/ CloseRelayedEnds(c)
  \/ \E s \in Session : Register(s) \/ RefuseAdmission(s) \/ Invalidate(s)
  \/ HandlerEnds
  \/ \E is_relayer \in BOOLEAN : List(is_relayer)
  \/ \E c \in Call, s \in Session, u \in Update : BeginModify(c, s, u)
  \/ \E c \in Call : ModifyLocal(c) \/ ModifyRelayed(c)
  \/ \E s \in Session, o \in Outcome : DecideApplication(s, o)
  \/ \E s \in Session, p \in Permission, o \in Outcome : DecidePermission(s, p, o)
  \/ \E s \in Session, asked \in SUBSET Permission, o \in Outcome :
       DecidePrefetch(s, asked, o)

Spec == Init /\ [][Next]_vars

-----------------------------------------------------------------------------
(* Properties                                                              *)

\* A session's reference works, or its request waits for one.
Referable(s) == registry[s] = "active" \/ (registry[s] = "none" /\ s \in requests)

\* A session has a permission only if the user allowed it for that very
\* session: not for another one with its application id, not through a callback
\* that timed out, threw or could not read its payload, and not through an
\* update whose session went away while it waited for a lock.
AuthorityGranted ==
  \A s \in Session, p \in Permission : perms[s][p] = "Allow" => <<s, p>> \in granted

\* Once stop has returned nothing is connected until something is started, and
\* no reference has authority but those of requests that were still waiting for
\* one when stop cleared the registry; these lose it with their handler.  Outside
\* a stop a connected session has a handler, and one that may go on has a
\* reference that works, so that it can be closed, or a request that waits for
\* one.
StopComplete ==
  /\ stopped =>
       /\ ~server /\ ~relayer
       /\ \A s \in Session :
            ~Connected(s) /\ (registry[s] = "active" => handler /\ s \in late)
  /\ (\A c \in Call : call[c].op # "stop") =>
       \A s \in Session :
         /\ Connected(s) => handler
         /\ session[s].state \in {"admitting", "live"} => Referable(s)

=============================================================================
