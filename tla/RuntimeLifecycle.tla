-------------------------- MODULE RuntimeLifecycle ---------------------------
(***************************************************************************)
(* The initializations of the process: the bridge, the configuration of    *)
(* xelis_common, the crypto provider and the Rust logger, each guarded by  *)
(* a RuntimeLifecycle or, for the logger, a ConfiguredRuntimeLifecycle on  *)
(* the Dart side.                                                          *)
(*                                                                         *)
(* An attempt is a chain of futures: the initializer, the `then` that      *)
(* records its success, the `whenComplete` that forgets the attempt, and   *)
(* the callers that share it.  Dart runs each in a microtask of its own,   *)
(* and other calls come in between.  The native side outlives the isolate: *)
(* after a restart of the application it may be initialized already.       *)
(***************************************************************************)
EXTENDS Sequences, Naturals

CONSTANTS
  Caller,
  Service,          \* of "bridge", "config", "crypto" and "logger"
  Configuration,    \* configurations of the logger
  Unit,             \* what the other services are initialized with
  None,             \* not configured
  MaxAttempts       \* bound on the attempts of a service

ConstantsAssumption == "bridge" \in Service

VARIABLES
  lifecycle,  \* the fields of the lifecycle of each service
  attempts,   \* the attempts made, and how far each has come
  native,     \* what the native side of a service is initialized with
  caller      \* the call each caller makes

vars == <<lifecycle, attempts, native, caller>>

Requests(s) == IF s = "logger" THEN Configuration ELSE {Unit}

Init ==
  /\ lifecycle = [s \in Service |->
       [initialization |-> 0, pendingConfiguration |-> None,
        configuration |-> None, isInitialized |-> FALSE]]
  /\ attempts = [s \in Service |-> <<>>]
  /\ native \in {n \in [Service -> {None, Unit} \cup Configuration] :
                   /\ \A s \in Service : n[s] \in Requests(s) \cup {None}
                   /\ n["bridge"] = None}
  /\ caller = [c \in Caller |-> [pc |-> "idle", service |-> "bridge",
                                 asked |-> Unit, attempt |-> 0,
                                 outcome |-> "none"]]

-----------------------------------------------------------------------------
(* The calls                                                               *)

Returns(c, s, f, n, out) ==
  caller' = [caller EXCEPT ![c] = [pc |-> "idle", service |-> s, asked |-> f,
                                   attempt |-> n, outcome |-> out]]

Waits(c, s, f, n) ==
  caller' = [caller EXCEPT ![c] = [pc |-> "waiting", service |-> s, asked |-> f,
                                   attempt |-> n, outcome |-> "none"]]

\* _ensureInitialized throws before the lifecycle is reached.
EnsureInitialized(s) == s # "bridge" => lifecycle["bridge"].isInitialized

\* Mutant: whoever comes during an attempt shares it.
Joins_Any(s, f) == TRUE

\* An attempt is shared by those who ask for its configuration.
Joins(s, f) == lifecycle[s].pendingConfiguration = f

\* Nothing is attempted: the answer is ready, or the attempt of another call
\* is shared.
InitializeAgain(c, s, f) ==
  LET l == lifecycle[s] IN
  /\ caller[c].pc = "idle"
  /\ \/ ~EnsureInitialized(s) /\ Returns(c, s, f, 0, "StateError")
     \/ /\ EnsureInitialized(s) /\ l.isInitialized
        /\ Returns(c, s, f, 0, IF l.configuration = f THEN "ok" ELSE "StateError")
     \/ /\ EnsureInitialized(s) /\ ~l.isInitialized /\ l.initialization # 0
        /\ IF Joins(s, f) THEN Waits(c, s, f, l.initialization)
                          ELSE Returns(c, s, f, 0, "StateError")
  /\ UNCHANGED <<lifecycle, attempts, native>>

\* Future.sync starts the initializer at once.
InitializeFirst(c, s, f) ==
  LET n == Len(attempts[s]) + 1 IN
  /\ caller[c].pc = "idle" /\ EnsureInitialized(s)
  /\ ~lifecycle[s].isInitialized /\ lifecycle[s].initialization = 0
  /\ n <= MaxAttempts
  /\ attempts' = [attempts EXCEPT ![s] =
                    Append(@, [phase |-> "running", configuration |-> f,
                               succeeds |-> FALSE])]
  /\ lifecycle' = [lifecycle EXCEPT ![s].initialization = n,
                                    ![s].pendingConfiguration = f]
  /\ Waits(c, s, f, n)
  /\ UNCHANGED native

-----------------------------------------------------------------------------
(* The attempt                                                             *)

\* What the native initializer accepts: a crypto provider is installed once
\* (outside the web), a logger once or again in the same way.
Accepted(s, f) ==
  CASE s = "crypto" -> native[s] = None
    [] s = "logger" -> native[s] \in {None, f}
    [] OTHER -> TRUE

\* The initializer answers; it may fail, with no effect, for other reasons.
NativeAnswers(s, n) ==
  LET f == attempts[s][n].configuration IN
  /\ attempts[s][n].phase = "running"
  /\ \E ok \in {FALSE, Accepted(s, f)} :
       /\ attempts' = [attempts EXCEPT ![s][n].phase = "answered",
                                       ![s][n].succeeds = ok]
       /\ native' = [native EXCEPT ![s] = IF ok THEN f ELSE @]
  /\ UNCHANGED <<lifecycle, caller>>

\* then: the success is recorded, a failure passes through.
Then(s, n) ==
  /\ attempts[s][n].phase = "answered"
  /\ attempts' = [attempts EXCEPT ![s][n].phase = "recorded"]
  /\ lifecycle' = IF attempts[s][n].succeeds
                    THEN [lifecycle EXCEPT
                            ![s].isInitialized = TRUE,
                            ![s].configuration = attempts[s][n].configuration]
                    ELSE lifecycle
  /\ UNCHANGED <<native, caller>>

\* whenComplete: the attempt is forgotten; the logger's forgets only itself.
WhenComplete(s, n) ==
  /\ attempts[s][n].phase = "recorded"
  /\ attempts' = [attempts EXCEPT ![s][n].phase = "completed"]
  /\ lifecycle' = IF s = "logger" /\ lifecycle[s].initialization # n
                    THEN lifecycle
                    ELSE [lifecycle EXCEPT ![s].initialization = 0,
                                           ![s].pendingConfiguration = None]
  /\ UNCHANGED <<native, caller>>

\* The callers that share the attempt resume one after the other.
Deliver(c) ==
  LET s == caller[c].service
      n == caller[c].attempt
  IN
  /\ caller[c].pc = "waiting" /\ attempts[s][n].phase = "completed"
  /\ Returns(c, s, caller[c].asked, n,
             IF attempts[s][n].succeeds THEN "ok" ELSE "failed")
  /\ UNCHANGED <<lifecycle, attempts, native>>

Next ==
  \/ \E c \in Caller :
       \/ Deliver(c)
       \/ \E s \in Service : \E f \in Requests(s) :
            InitializeAgain(c, s, f) \/ InitializeFirst(c, s, f)
  \/ \E s \in Service : \E n \in DOMAIN attempts[s] :
       NativeAnswers(s, n) \/ Then(s, n) \/ WhenComplete(s, n)

Spec == Init /\ [][Next]_vars

-----------------------------------------------------------------------------
(* Properties                                                              *)

Unfinished(s) == {n \in DOMAIN attempts[s] : attempts[s][n].phase # "completed"}

\* "Concurrent calls using the same configuration share one attempt. A failed
\* attempt can be retried, while a conflicting configuration is rejected":
\* whoever is told of success gets the native side as asked for, attempts never
\* overlap and none follows a success, and whoever is told of a failure does
\* not find the failed attempt again.
InitializationShared ==
  /\ \A c \in Caller :
       /\ caller[c].outcome = "ok" => native[caller[c].service] = caller[c].asked
       /\ caller[c].outcome = "failed" =>
            lifecycle[caller[c].service].initialization # caller[c].attempt
  /\ \A s \in Service :
       /\ \A m, n \in Unfinished(s) : m = n
       /\ \A m, n \in DOMAIN attempts[s] : attempts[s][m].succeeds => n <= m

=============================================================================
