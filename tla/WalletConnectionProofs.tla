----------------------- MODULE WalletConnectionProofs -----------------------
(***************************************************************************)
(* Connection attempts exclude each other, offline is final for the        *)
(* attempts before it and nothing stays open unnoticed, for any number of  *)
(* overlapping calls and of attempts.                                      *)
(*                                                                         *)
(* None of the three invariants is inductive.  Exclusion needs to know     *)
(* whose registration `current` is (Registered); the fence needs to know   *)
(* what a call has already waited for on its way through                   *)
(* cancel_connection_attempt (FencedOff); and that nothing leaks needs to  *)
(* know, of every open socket and of the handler, who will close it next:  *)
(* the worker, the active connection or a call that has taken it and was   *)
(* not dropped since (Covered), which in turn depends on how far the       *)
(* worker and the call that waits for it can be apart (Handshake).         *)
(*                                                                         *)
(* The lemmas first say what an action does to the records it updates, as  *)
(* facts about their fields; the steps are then proved from those.         *)
(***************************************************************************)
EXTENDS WalletConnection, TLAPS

\* A leaf that takes the provers longer than their five seconds may take thirty.
USE SMTT(30), ZenonT(30)

-----------------------------------------------------------------------------
(* The inductive invariant                                                 *)

\* A worker that has the registration of its attempt, a call that has it, a
\* call that waits for the worker it spawned, one that waits for the attempt it
\* cancelled, and one that has waited.
Running(a) == worker[a] \notin {"none", "fail", "done"}
Guarded(c) == HoldsGuard(c) \/ At(c, "clearCurrent")
Awaiting(c) == caller[c].pc \in {"awaitResult", "lockActive", "joinCancelled", "joinOk"}
Cancelling(c) ==
  caller[c].pc \in {"cancelMark", "cancelApi", "cancelBarrier", "cancelJoin"}
Fenced(c) == caller[c].pc \in {"takeActive", "disconnect", "setOffline"}

\* An attempt that can still put the wallet online.
Alive(a) == Unfinished(a) \/ \E d \in Caller : HoldsGuard(d) /\ caller[d].own = a

\* Attempts are numbered as they are created, and nobody knows a later one.
Numbered ==
  /\ current <= attempts /\ active <= attempts /\ fence <= attempts
  /\ \A a \in Attempt : a > attempts => worker[a] = "none" /\ attempt[a] = NewAttempt
  /\ \A c \in Caller : /\ caller[c].own <= attempts
                       /\ caller[c].target <= attempts
                       /\ caller[c].fence <= attempts

\* The registration belongs to one worker, or to one call before it spawns one.
Registered ==
  /\ \A a \in Attempt : Running(a) => current = a
  /\ \A a \in Attempt : Unfinished(a) => ~attempt[a].completed
  /\ \A c \in Caller : Guarded(c) =>
       /\ caller[c].own \in Attempt
       /\ current = caller[c].own
       /\ worker[caller[c].own] = "none"
  /\ \A c, d \in Caller : caller[c].own = caller[d].own /\ caller[c].own # None => c = d

\* How far a worker and the call that waits for it can be apart.
WorkerInStep(a) ==
  /\ worker[a] = "awaitFinalized" => attempt[a].accepted = "sent"
  /\ attempt[a].finalized = "sent" =>
       worker[a] \in {"awaitAccepted", "awaitFinalized", "rollback",
                      "rollbackHandler", "drop", "clear", "done"}

CallerInStep(c) ==
  /\ HoldsGuard(c) =>
       /\ ~Own(c).completed
       /\ Own(c).result = "open" /\ Own(c).accepted = "open" /\ Own(c).finalized = "open"
  /\ Awaiting(c) => caller[c].own \in Attempt /\ worker[caller[c].own] # "none"
  /\ At(c, "awaitResult") =>
       /\ Own(c).accepted = "open" /\ Own(c).finalized = "open"
       /\ Own(c).result = "ok" => worker[caller[c].own] = "awaitAccepted"
  /\ At(c, "lockActive") =>
       /\ Own(c).accepted = "sent" /\ Own(c).finalized = "open"
       /\ worker[caller[c].own] \in {"awaitAccepted", "awaitFinalized"}

Handshake ==
  /\ \A a \in Attempt : WorkerInStep(a)
  /\ \A c \in Caller : CallerInStep(c)

\* There is no active connection while an attempt works towards one.
ActiveFree ==
  /\ \A a \in Attempt : Unfinished(a) /\ attempt[a].finalized # "sent" => active = None
  /\ \A c \in Caller :
       caller[c].pc \in {"cleanStale", "staleOffline", "spawn"} => active = None

\* Who still has to close a socket, or to stop the handler: a worker, or a call
\* that has taken the active connection and was not dropped with it.
SocketOpen(a) ==
  worker[a] \in {"publish", "preflight", "lockActivation", "activating", "activated",
                 "deliver", "awaitAccepted", "awaitFinalized", "rollback",
                 "rollbackLocked"}
HandlerOpen(a) ==
  worker[a] \in {"activated", "deliver", "awaitAccepted", "awaitFinalized", "rollback",
                 "rollbackLocked", "rollbackHandler", "rollbackHandlerLocked"}
SocketTaken(c) == caller[c].pc \in {"cleanStale", "disconnect"}
HandlerTaken(c) ==
  caller[c].pc \in {"cleanStale", "staleOffline", "disconnect", "setOffline"}

SocketCover(a) ==
  \/ attempt[a].finalized # "sent" /\ SocketOpen(a)
  \/ a = active \/ a \in abandoned
  \/ \E c \in Caller : SocketTaken(c) /\ caller[c].target = a

HandlerCover(a) ==
  \/ attempt[a].finalized # "sent" /\ HandlerOpen(a)
  \/ a = active \/ a \in abandoned
  \/ \E c \in Caller : HandlerTaken(c) /\ caller[c].target = a

Covered ==
  /\ \A a \in socket : SocketCover(a)
  /\ handler # None => HandlerCover(handler)
  /\ \A a \in Attempt : HandlerOpen(a) => handler \in {None, a}

\* What call c has fenced off on its way through cancel_connection_attempt.
FencedOff(c) ==
  /\ Cancelling(c) =>
       /\ caller[c].target \in Attempt
       /\ \A a \in Attempt : a <= caller[c].fence /\ a # caller[c].target => ~Alive(a)
  /\ Fenced(c) => \A a \in Attempt : a <= caller[c].fence => ~Alive(a)

Fences ==
  /\ OfflineFence
  /\ \A a \in Attempt : a <= fence => ~Alive(a)
  /\ \A c \in Caller : FencedOff(c)

IInv ==
  /\ TypeOK /\ Numbered /\ Registered /\ Handshake /\ ActiveFree /\ Covered /\ Fences

-----------------------------------------------------------------------------
(* Kinds of steps                                                          *)

\* Only call c moves.
CallerMoves(c) ==
  /\ caller' \in [Caller -> CallerRecord]
  /\ \A d \in Caller \ {c} : caller'[d] = caller[d]

\* Call c goes to pc and keeps what it remembers.
Keeps(c, pc) ==
  /\ CallerMoves(c)
  /\ caller'[c].pc = pc /\ caller'[c].own = caller[c].own
  /\ caller'[c].target = caller[c].target /\ caller'[c].fence = caller[c].fence

\* Call c returns and forgets.
Forgets(c) ==
  /\ CallerMoves(c)
  /\ caller'[c].pc = "idle" /\ caller'[c].own = None
  /\ caller'[c].target = None /\ caller'[c].fence = 0

\* Only attempt a changes.
AttemptMoves(a) ==
  /\ attempt' \in [Attempt -> AttemptRecord]
  /\ \A b \in Attempt \ {a} : attempt'[b] = attempt[b]

\* What the handshake knows of an attempt does not change.
HandshakeKept(a) ==
  /\ attempt'[a].completed = attempt[a].completed
  /\ attempt'[a].result = attempt[a].result
  /\ attempt'[a].accepted = attempt[a].accepted
  /\ attempt'[a].finalized = attempt[a].finalized

AttemptsKept ==
  /\ attempt' \in [Attempt -> AttemptRecord]
  /\ \A a \in Attempt : HandshakeKept(a) /\ (a > attempts => attempt'[a] = attempt[a])

\* Only the worker of attempt a moves, to pc.
WorkerMoves(a, pc) ==
  /\ worker' \in [Attempt -> WorkerLocation]
  /\ \A b \in Attempt \ {a} : worker'[b] = worker[b]
  /\ worker'[a] = pc

LEMMA CallerTypes ==
  ASSUME TypeOK, NEW c \in Caller
  PROVE  /\ caller[c] \in CallerRecord
         /\ caller[c].pc \in CallerLocation
         /\ caller[c].own \in AttemptOrNone /\ caller[c].target \in AttemptOrNone
         /\ caller[c].fence \in AttemptOrNone
         /\ caller[c].terminal \in BOOLEAN /\ caller[c].timedOut \in BOOLEAN
BY Zenon DEF TypeOK, CallerRecord

LEMMA Bounds ==
  /\ Attempt \subseteq AttemptOrNone /\ AttemptOrNone \subseteq Nat
  /\ None \in AttemptOrNone /\ None \notin Attempt
  /\ \A n \in AttemptOrNone : n # None => n \in Attempt
  /\ \A n \in Attempt : n > 0
BY MaxAttemptAssumption DEF Attempt, AttemptOrNone, None

LEMMA GotoKeeps ==
  ASSUME TypeOK, NEW c \in Caller, NEW pc \in CallerLocation, Goto(c, pc)
  PROVE  Keeps(c, pc)
<1>. DEFINE new == [caller[c] EXCEPT !.pc = pc]
<1>1. /\ new \in CallerRecord /\ new.pc = pc /\ new.own = caller[c].own
      /\ new.target = caller[c].target /\ new.fence = caller[c].fence
  BY CallerTypes, Zenon DEF CallerRecord
<1>2. caller' = [caller EXCEPT ![c] = new]
  BY Zenon DEF Goto
<1>. HIDE DEF new
<1>. QED BY <1>1, <1>2, Zenon DEF TypeOK, Keeps, CallerMoves

LEMMA DropKeeps ==
  ASSUME TypeOK, NEW c \in Caller, DropGuardAndReturn(c)
  PROVE  Keeps(c, "dropGuard")
BY GotoKeeps, Zenon DEF DropGuardAndReturn, CallerLocation

LEMMA ReturnForgets ==
  ASSUME TypeOK, NEW c \in Caller, Return(c)
  PROVE  Forgets(c)
<1>1. /\ IdleCaller \in CallerRecord
      /\ IdleCaller.pc = "idle" /\ IdleCaller.own = None
      /\ IdleCaller.target = None /\ IdleCaller.fence = 0
  BY Bounds, Zenon DEF IdleCaller, CallerRecord, CallerLocation, None
<1>. QED BY <1>1, Zenon DEF TypeOK, Return, Forgets, CallerMoves

LEMMA WorkerGotoMoves ==
  ASSUME TypeOK, NEW a \in Attempt, NEW pc \in WorkerLocation, WorkerGoto(a, pc)
  PROVE  WorkerMoves(a, pc)
BY Zenon DEF TypeOK, WorkerGoto, WorkerMoves

\* Nothing the invariant says of attempts changes with the other flags.
LEMMA FlagsKept ==
  ASSUME TypeOK, NEW a \in Attempt, a <= attempts, NEW b \in BOOLEAN,
         NEW r \in {"none", "Ok", "Cancelled"},
         \/ UNCHANGED attempt
         \/ attempt' = [attempt EXCEPT ![a].cancelled = b]
         \/ attempt' = [attempt EXCEPT ![a].activation = b]
         \/ attempt' = [attempt EXCEPT ![a].api = b]
         \/ attempt' = [attempt EXCEPT ![a].outcome = r]
  PROVE  AttemptsKept
<1>1. attempts \in Nat /\ a \in Nat
  BY Bounds, Zenon DEF TypeOK
<1>2. CASE UNCHANGED attempt
  BY <1>2, Zenon DEF TypeOK, AttemptsKept, HandshakeKept
<1>3. ASSUME NEW new \in AttemptRecord, attempt' = [attempt EXCEPT ![a] = new],
             new.completed = attempt[a].completed, new.result = attempt[a].result,
             new.accepted = attempt[a].accepted, new.finalized = attempt[a].finalized
      PROVE  AttemptsKept
  BY <1>1, <1>3 DEF TypeOK, AttemptsKept, HandshakeKept
<1>4. CASE attempt' = [attempt EXCEPT ![a].cancelled = b]
  <2>. DEFINE new == [attempt[a] EXCEPT !.cancelled = b]
  <2>1. /\ new \in AttemptRecord
        /\ new.completed = attempt[a].completed /\ new.result = attempt[a].result
        /\ new.accepted = attempt[a].accepted /\ new.finalized = attempt[a].finalized
    BY DEF TypeOK, AttemptRecord
  <2>2. attempt' = [attempt EXCEPT ![a] = new]
    BY <1>4, Zenon
  <2>. HIDE DEF new
  <2>. QED BY <1>3, <2>1, <2>2, Zenon
<1>5. CASE attempt' = [attempt EXCEPT ![a].activation = b]
  <2>. DEFINE new == [attempt[a] EXCEPT !.activation = b]
  <2>1. /\ new \in AttemptRecord
        /\ new.completed = attempt[a].completed /\ new.result = attempt[a].result
        /\ new.accepted = attempt[a].accepted /\ new.finalized = attempt[a].finalized
    BY DEF TypeOK, AttemptRecord
  <2>2. attempt' = [attempt EXCEPT ![a] = new]
    BY <1>5, Zenon
  <2>. HIDE DEF new
  <2>. QED BY <1>3, <2>1, <2>2, Zenon
<1>6. CASE attempt' = [attempt EXCEPT ![a].api = b]
  <2>. DEFINE new == [attempt[a] EXCEPT !.api = b]
  <2>1. /\ new \in AttemptRecord
        /\ new.completed = attempt[a].completed /\ new.result = attempt[a].result
        /\ new.accepted = attempt[a].accepted /\ new.finalized = attempt[a].finalized
    BY DEF TypeOK, AttemptRecord
  <2>2. attempt' = [attempt EXCEPT ![a] = new]
    BY <1>6, Zenon
  <2>. HIDE DEF new
  <2>. QED BY <1>3, <2>1, <2>2, Zenon
<1>7. CASE attempt' = [attempt EXCEPT ![a].outcome = r]
  <2>. DEFINE new == [attempt[a] EXCEPT !.outcome = r]
  <2>1. /\ new \in AttemptRecord
        /\ new.completed = attempt[a].completed /\ new.result = attempt[a].result
        /\ new.accepted = attempt[a].accepted /\ new.finalized = attempt[a].finalized
    BY DEF TypeOK, AttemptRecord
  <2>2. attempt' = [attempt EXCEPT ![a] = new]
    BY <1>7, Zenon
  <2>. HIDE DEF new
  <2>. QED BY <1>3, <2>1, <2>2, Zenon
<1>. QED BY <1>2, <1>4, <1>5, <1>6, <1>7, Zenon

\* What completing an attempt, and closing its channels, makes of it.
LEMMA CompletedRecord ==
  ASSUME NEW r \in AttemptRecord, NEW b \in BOOLEAN
  PROVE  LET new == [r EXCEPT !.completed = b] IN
         /\ new \in AttemptRecord /\ new.completed = b /\ new.result = r.result
         /\ new.accepted = r.accepted /\ new.finalized = r.finalized
BY Zenon DEF AttemptRecord

LEMMA ReleasedRecord ==
  ASSUME NEW r \in AttemptRecord
  PROVE  LET new == ReleaseAcknowledgements(r) IN
         /\ new \in AttemptRecord /\ new.completed = r.completed /\ new.finalized = "closed"
BY Zenon DEF AttemptRecord, ReleaseAcknowledgements

\* An attempt that is alive is the registered one.
LEMMA AliveRegistered ==
  ASSUME Registered, NEW a \in Attempt, Alive(a)
  PROVE  current = a
BY Zenon DEF Registered, Alive, Running, Unfinished, Guarded

\* A completed attempt is not alive.
LEMMA CompletedDead ==
  ASSUME Registered, Handshake, NEW a \in Attempt, attempt[a].completed
  PROVE  ~Alive(a)
BY Zenon DEF Registered, Handshake, CallerInStep, Alive, Own

\* A step after which no attempt is alive that was not before.
LEMMA FencesStep ==
  ASSUME IInv, UNCHANGED caller \/ \E c \in Caller : CallerMoves(c) /\ FencedOff(c)',
         \A a \in Attempt : Alive(a)' => Alive(a),
         fence' = fence, OfflineFence'
  PROVE  Fences'
<1>1. \A a \in Attempt : a <= fence' => ~Alive(a)'
  BY Zenon DEF IInv, Fences
<1>2. ASSUME NEW d \in Caller, caller'[d] = caller[d]
      PROVE  FencedOff(d)'
  BY <1>2, Zenon DEF IInv, Fences, FencedOff, Cancelling, Fenced
<1>3. \A d \in Caller : FencedOff(d)'
  BY <1>2, Zenon DEF CallerMoves
<1>. QED BY <1>1, <1>3, Zenon DEF Fences

\* Registrations survive a step that registers nothing: workers stop and calls
\* give theirs up, or keep what they have.
LEMMA RegisteredStep ==
  ASSUME Registered,
         \A a \in Attempt : Running(a)' => current' = a,
         \A a \in Attempt : Unfinished(a)' => ~attempt'[a].completed,
         \A d \in Caller : caller'[d].own \in {None, caller[d].own},
         \A d \in Caller : Guarded(d)' =>
           /\ Guarded(d) /\ caller'[d].own = caller[d].own /\ current' = current
           /\ worker'[caller[d].own] = worker[caller[d].own]
  PROVE  Registered'
BY DEF Registered

\* A step of one call that touches neither the registration nor a worker, nor
\* the handshake of an attempt, and at most closes sockets; a connection it had
\* taken is closed, still taken or abandoned.
LEMMA AbandoningStep ==
  ASSUME IInv, NEW c \in Caller, CallerMoves(c), AttemptsKept,
         UNCHANGED <<current, attempts, worker, active, handler, fence>>,
         abandoned \subseteq abandoned', abandoned' \subseteq Attempt,
         closed' \in BOOLEAN, activeLock' \in BOOLEAN, running' \in BOOLEAN,
         socket' \subseteq socket,
         caller'[c].own \in {None, caller[c].own},
         caller'[c].target <= attempts, caller'[c].fence <= attempts,
         HoldsGuard(c)' => HoldsGuard(c) /\ caller'[c].own = caller[c].own,
         ~At(c, "clearCurrent")', ~Awaiting(c)',
         caller'[c].pc \in {"cleanStale", "staleOffline", "spawn"} => active = None,
         SocketTaken(c) => \/ caller[c].target \notin socket'
                           \/ caller[c].target \in abandoned' \cup {None},
         HandlerTaken(c) => \/ HandlerTaken(c)' /\ caller'[c].target = caller[c].target
                            \/ caller[c].target \in abandoned' \cup {None},
         FencedOff(c)'
  PROVE  IInv'
<1>1. TypeOK'
  BY Zenon DEF IInv, TypeOK, CallerMoves, AttemptsKept
<1>2. Numbered'
  BY Bounds DEF IInv, TypeOK, Numbered, CallerMoves, AttemptsKept, None
<1>3. Registered'
  <2>1. \A d \in Caller : /\ caller'[d].own \in {None, caller[d].own}
                          /\ Guarded(d)' => Guarded(d) /\ caller'[d].own = caller[d].own
    BY Zenon DEF CallerMoves, Guarded, HoldsGuard, At
  <2>2. \A a \in Attempt : /\ Running(a)' => current' = a
                           /\ Unfinished(a)' => ~attempt'[a].completed
    BY Zenon DEF IInv, Registered, Running, Unfinished, AttemptsKept, HandshakeKept
  <2>. QED BY <2>1, <2>2, RegisteredStep, Zenon DEF IInv
<1>4. Handshake'
  <2>1. ASSUME NEW a \in Attempt PROVE WorkerInStep(a)'
    BY Zenon DEF IInv, Handshake, WorkerInStep, AttemptsKept, HandshakeKept
  <2>2. ASSUME NEW d \in Caller, d # c PROVE CallerInStep(d)'
    BY <2>2 DEF IInv, TypeOK, Registered, Guarded, Handshake, CallerInStep, Own, Awaiting,
                HoldsGuard, At, CallerMoves, AttemptsKept, HandshakeKept
  <2>3. CallerInStep(c)'
    BY DEF IInv, Registered, Guarded, Handshake, CallerInStep, Own, Awaiting, HoldsGuard, At,
           AttemptsKept, HandshakeKept
  <2>. QED BY <2>1, <2>2, <2>3, Zenon DEF Handshake
<1>5. ActiveFree'
  BY Zenon DEF IInv, ActiveFree, Unfinished, CallerMoves, AttemptsKept, HandshakeKept
<1>6. Covered'
  <2>1. ASSUME NEW a \in socket' PROVE SocketCover(a)'
    <3>1. a \in socket /\ a \in Attempt /\ SocketCover(a)
      BY Zenon DEF IInv, TypeOK, Covered
    <3>2. ASSUME NEW d \in Caller, SocketTaken(d), caller[d].target = a
          PROVE  (SocketTaken(d)' /\ caller'[d].target = a) \/ a \in abandoned'
      BY <3>1, <3>2, Bounds, Zenon DEF CallerMoves, SocketTaken
    <3>. QED BY <3>1, <3>2, Zenon DEF SocketCover, SocketOpen, AttemptsKept, HandshakeKept
  <2>2. ASSUME handler # None PROVE HandlerCover(handler)'
    <3>1. ASSUME NEW d \in Caller, HandlerTaken(d), caller[d].target = handler
          PROVE  (HandlerTaken(d)' /\ caller'[d].target = handler) \/ handler \in abandoned'
      BY <2>2, <3>1, Zenon DEF CallerMoves, HandlerTaken
    <3>2. handler \in Attempt /\ HandlerCover(handler)
      BY <2>2, Bounds, Zenon DEF IInv, TypeOK, Covered
    <3>. QED BY <3>1, <3>2, Zenon DEF HandlerCover, HandlerOpen, AttemptsKept, HandshakeKept
  <2>. QED BY <2>1, <2>2, Zenon DEF IInv, Covered, HandlerOpen, HandlerCover
<1>7. Fences'
  <2>1. \A a \in Attempt : Alive(a)' => Alive(a)
    BY Zenon DEF Alive, Unfinished, CallerMoves, HoldsGuard
  <2>2. OfflineFence'
    BY Zenon DEF IInv, Fences, OfflineFence
  <2>. QED BY <2>1, <2>2, FencesStep, Zenon
<1>. QED BY <1>1, <1>2, <1>3, <1>4, <1>5, <1>6, <1>7, Zenon DEF IInv

\* The same when nothing is abandoned.
LEMMA CallerStep ==
  ASSUME IInv, NEW c \in Caller, CallerMoves(c), AttemptsKept,
         UNCHANGED <<current, attempts, worker, active, handler, fence, abandoned>>,
         closed' \in BOOLEAN, activeLock' \in BOOLEAN, running' \in BOOLEAN,
         socket' \subseteq socket,
         caller'[c].own \in {None, caller[c].own},
         caller'[c].target <= attempts, caller'[c].fence <= attempts,
         HoldsGuard(c)' => HoldsGuard(c) /\ caller'[c].own = caller[c].own,
         ~At(c, "clearCurrent")', ~Awaiting(c)',
         caller'[c].pc \in {"cleanStale", "staleOffline", "spawn"} => active = None,
         SocketTaken(c) => caller[c].target \notin socket',
         HandlerTaken(c) => HandlerTaken(c)' /\ caller'[c].target = caller[c].target,
         FencedOff(c)'
  PROVE  IInv'
<1>1. abandoned \subseteq abandoned' /\ abandoned' \subseteq Attempt
  BY Zenon DEF IInv, TypeOK
<1>. QED BY <1>1, AbandoningStep, Zenon

\* A step of a call that waits for its worker and closes or answers channels.
LEMMA ChannelStep ==
  ASSUME IInv, NEW c \in Caller, NEW a \in Attempt, a = caller[c].own, Awaiting(c),
         CallerMoves(c), AttemptMoves(a),
         UNCHANGED <<current, closed, attempts, worker, active, activeLock, handler,
                     running, socket, fence, abandoned>>,
         attempt'[a].completed = attempt[a].completed,
         attempt'[a].finalized = "sent" <=> attempt[a].finalized = "sent",
         worker[a] = "awaitFinalized" => attempt'[a].accepted = "sent",
         caller'[c].own \in {None, a},
         caller'[c].target <= attempts, caller'[c].fence <= attempts,
         ~Guarded(c)', ~SocketTaken(c)', ~HandlerTaken(c)', ~Cancelling(c)', ~Fenced(c)',
         CallerInStep(c)'
  PROVE  IInv'
<1>1. TypeOK'
  BY Zenon DEF IInv, TypeOK, CallerMoves, AttemptMoves
<1>2. Numbered'
  <2>1. a <= attempts
    BY Zenon DEF IInv, Numbered
  <2>. QED BY <2>1, Bounds DEF IInv, TypeOK, Numbered, CallerMoves, AttemptMoves, None
<1>3. Registered'
  <2>1. \A d \in Caller : /\ caller'[d].own \in {None, caller[d].own}
                          /\ Guarded(d)' => Guarded(d) /\ caller'[d].own = caller[d].own
    BY Zenon DEF CallerMoves, Guarded, HoldsGuard, At
  <2>2. \A b \in Attempt : /\ Running(b)' => current' = b
                           /\ Unfinished(b)' => ~attempt'[b].completed
    BY Zenon DEF IInv, Registered, Running, Unfinished, AttemptMoves
  <2>. QED BY <2>1, <2>2, RegisteredStep, Zenon DEF IInv
<1>4. Handshake'
  <2>1. ASSUME NEW b \in Attempt PROVE WorkerInStep(b)'
    BY Zenon DEF IInv, Handshake, WorkerInStep, AttemptMoves
  <2>2. ASSUME NEW d \in Caller, d # c PROVE CallerInStep(d)'
    <3>1. caller'[d] = caller[d] /\ (caller[d].own \in Attempt => caller[d].own # a)
      BY <2>2, Bounds, Zenon DEF IInv, Registered, CallerMoves
    <3>2. CallerInStep(d) /\ (HoldsGuard(d) => caller[d].own \in Attempt)
      BY Zenon DEF IInv, Handshake, Registered, Guarded
    <3>. QED BY <3>1, <3>2 DEF CallerInStep, Own, Awaiting, HoldsGuard, At, AttemptMoves
  <2>. QED BY <2>1, <2>2, Zenon DEF Handshake
<1>5. ActiveFree'
  BY Zenon DEF IInv, ActiveFree, Unfinished, CallerMoves, AttemptMoves, Guarded, HoldsGuard
<1>6. Covered'
  <2>1. \A d \in Caller : (SocketTaken(d) \/ HandlerTaken(d)) => d # c
    BY Zenon DEF Awaiting, SocketTaken, HandlerTaken
  <2>2. \A d \in Caller : /\ SocketTaken(d) => SocketTaken(d)'
                          /\ HandlerTaken(d) => HandlerTaken(d)'
                          /\ SocketTaken(d) \/ HandlerTaken(d) =>
                               caller'[d].target = caller[d].target
    BY <2>1, Zenon DEF CallerMoves, SocketTaken, HandlerTaken
  <2>3. ASSUME NEW b \in socket PROVE SocketCover(b)'
    <3>1. b \in Attempt /\ SocketCover(b)
      BY Zenon DEF IInv, TypeOK, Covered
    <3>2. attempt'[b].finalized = "sent" <=> attempt[b].finalized = "sent"
      BY <3>1, Zenon DEF AttemptMoves
    <3>. QED BY <2>2, <3>1, <3>2, Zenon DEF SocketCover, SocketOpen
  <2>4. ASSUME handler # None PROVE HandlerCover(handler)'
    <3>1. handler \in Attempt /\ HandlerCover(handler)
      BY <2>4, Bounds, Zenon DEF IInv, TypeOK, Covered
    <3>2. attempt'[handler].finalized = "sent" <=> attempt[handler].finalized = "sent"
      BY <3>1, Zenon DEF AttemptMoves
    <3>. QED BY <2>2, <3>1, <3>2, Zenon DEF HandlerCover, HandlerOpen
  <2>. QED BY <2>3, <2>4, Zenon DEF IInv, Covered, HandlerOpen, HandlerCover
<1>7. Fences'
  <2>1. \A b \in Attempt : Alive(b)' => Alive(b)
    BY Zenon DEF Alive, Unfinished, CallerMoves, HoldsGuard, Guarded
  <2>2. OfflineFence' /\ FencedOff(c)'
    BY Zenon DEF IInv, Fences, OfflineFence, FencedOff
  <2>. QED BY <2>1, <2>2, FencesStep, Zenon
<1>. QED BY <1>1, <1>2, <1>3, <1>4, <1>5, <1>6, <1>7, Zenon DEF IInv

\* A step of a worker that keeps its guard.
LEMMA WorkingStep ==
  ASSUME IInv, NEW a \in Attempt, NEW pc \in WorkerLocation, WorkerMoves(a, pc),
         Unfinished(a), Unfinished(a)', AttemptMoves(a),
         attempt'[a].completed = attempt[a].completed,
         attempt'[a].finalized = attempt[a].finalized,
         UNCHANGED <<current, closed, attempts, caller, active, activeLock, fence, abandoned>>,
         running' \in BOOLEAN, Handshake',
         socket' \subseteq socket \cup {a},
         a \in socket' => \/ attempt[a].finalized # "sent" /\ SocketOpen(a)'
                          \/ a \in socket /\ attempt[a].finalized = "sent"
                          \/ a \in socket /\ ~SocketOpen(a),
         handler' \in {None, handler, a},
         HandlerOpen(a)' => handler' \in {None, a},
         handler' = a => \/ attempt[a].finalized # "sent" /\ HandlerOpen(a)'
                         \/ handler = a /\ attempt[a].finalized = "sent"
                         \/ handler = a /\ ~HandlerOpen(a)
  PROVE  IInv'
<1>0. current = a /\ a <= attempts /\ a # None /\ attempts \in Nat /\ a \in Nat
  BY Bounds, Zenon DEF IInv, TypeOK, Registered, Running, Unfinished, Numbered
<1>1. TypeOK'
  BY Bounds, Zenon DEF IInv, TypeOK, WorkerMoves, AttemptMoves
<1>2. Numbered'
  <2>1. ~(a > attempts)
    BY <1>0
  <2>. QED BY <2>1, Zenon DEF IInv, Numbered, WorkerMoves, AttemptMoves
<1>3. Registered'
  BY <1>0, Zenon
     DEF IInv, TypeOK, Registered, Running, Unfinished, Guarded, HoldsGuard, At, WorkerMoves,
         AttemptMoves
<1>5. ActiveFree'
  BY Zenon DEF IInv, ActiveFree, Unfinished, WorkerMoves, AttemptMoves
<1>6. Covered'
  <2>1. ASSUME NEW b \in socket' PROVE SocketCover(b)'
    <3>1. CASE b = a /\ attempt[a].finalized # "sent" /\ SocketOpen(a)'
      BY <2>1, <3>1, Zenon DEF SocketCover
    <3>2. CASE b # a \/ (b \in socket /\ (attempt[a].finalized = "sent" \/ ~SocketOpen(a)))
      <4>1. b \in socket /\ b \in Attempt /\ SocketCover(b)
        BY <2>1, <3>2, Zenon DEF IInv, TypeOK, Covered
      <4>. QED BY <3>2, <4>1, Zenon
                  DEF SocketCover, SocketOpen, SocketTaken, WorkerMoves, AttemptMoves
    <3>3. CASE b = a
      BY <2>1, <3>1, <3>2, <3>3, Zenon
    <3>. QED BY <3>2, <3>3, Zenon
  <2>2. ASSUME handler' # None PROVE HandlerCover(handler)'
    <3>1. CASE handler' = a /\ attempt[a].finalized # "sent" /\ HandlerOpen(a)'
      BY <3>1, Zenon DEF HandlerCover
    <3>2. CASE handler' = a /\ handler = a /\ (attempt[a].finalized = "sent" \/ ~HandlerOpen(a))
      BY <1>0, <3>2, Zenon DEF IInv, Covered, HandlerCover, HandlerTaken
    <3>3. CASE handler' # a
      <4>1. handler' = handler /\ handler \in Attempt /\ HandlerCover(handler)
        BY <2>2, <3>3, Bounds, Zenon DEF IInv, TypeOK, Covered
      <4>. QED BY <3>3, <4>1, Zenon
                  DEF HandlerCover, HandlerOpen, HandlerTaken, WorkerMoves, AttemptMoves
    <3>. QED BY <3>1, <3>2, <3>3, Zenon
  <2>3. ASSUME NEW b \in Attempt, HandlerOpen(b)' PROVE handler' \in {None, b}
    <3>1. b # a => ~Running(b)
      BY <1>0, Zenon DEF IInv, Registered
    <3>. QED BY <2>3, <3>1, Zenon DEF HandlerOpen, Running, WorkerMoves
  <2>. QED BY <2>1, <2>2, <2>3, Zenon DEF Covered
<1>7. Fences'
  <2>1. \A b \in Attempt : Alive(b)' => Alive(b)
    BY Zenon DEF Alive, Unfinished, WorkerMoves, HoldsGuard
  <2>2. OfflineFence'
    <3>1. ~(a <= fence) /\ fence \in Nat
      BY Bounds, Zenon DEF IInv, TypeOK, Fences, Alive
    <3>. QED BY <1>0, <3>1 DEF IInv, Fences, OfflineFence, None
  <2>. QED BY <2>1, <2>2, FencesStep, Zenon
<1>. QED BY <1>1, <1>2, <1>3, <1>5, <1>6, <1>7, Zenon DEF IInv

LEMMA AttemptsUnchanged ==
  ASSUME TypeOK, UNCHANGED attempt
  PROVE  AttemptsKept
BY Zenon DEF TypeOK, AttemptsKept, HandshakeKept

LEMMA DisconnectedSubset == \A a : Disconnected(a) \subseteq socket /\ a \notin Disconnected(a)
BY Zenon DEF Disconnected

\* A call that does not move is as much in step with its worker as before.
LEMMA OthersInStep ==
  ASSUME IInv, NEW c \in Caller, NEW d \in Caller, d # c, CallerMoves(c),
         UNCHANGED <<attempt, worker>>
  PROVE  CallerInStep(d)'
<1>1. caller'[d] = caller[d]
  BY Zenon DEF CallerMoves
<1>2. CallerInStep(d)
  BY Zenon DEF IInv, Handshake
<1>. QED BY <1>1, <1>2, Zenon DEF CallerInStep, Own, Awaiting, HoldsGuard, At

LEMMA WorkersInStep ==
  ASSUME IInv, UNCHANGED <<attempt, worker>>
  PROVE  \A a \in Attempt : WorkerInStep(a)'
BY Zenon DEF IInv, Handshake, WorkerInStep

\* What a call remembers is known.
LEMMA Known ==
  ASSUME IInv, NEW c \in Caller
  PROVE  /\ caller[c].own <= attempts /\ caller[c].target <= attempts
         /\ caller[c].fence <= attempts /\ attempts \in Nat /\ None <= attempts
BY Bounds DEF IInv, TypeOK, Numbered, None

\* An attempt with a worker is known.
LEMMA Spawned ==
  ASSUME IInv, NEW a \in Attempt, worker[a] # "none"
  PROVE  a <= attempts /\ a \in Nat /\ attempts \in Nat /\ a # None
BY Bounds DEF IInv, TypeOK, Numbered

\* The invariant does not read whether the handler reports itself running.
LEMMA RunningUnread ==
  ASSUME IInv, running' \in BOOLEAN,
         UNCHANGED <<current, closed, attempts, attempt, worker, caller, active, activeLock,
                     handler, socket, fence, abandoned>>
  PROVE  IInv'
<1>1. TypeOK'
  BY Zenon DEF IInv, TypeOK
<1>2. Numbered' /\ ActiveFree'
  BY Zenon DEF IInv, Numbered, ActiveFree, Unfinished
<1>3. Registered'
  BY Zenon DEF IInv, Registered, Running, Unfinished, Guarded, HoldsGuard, At
<1>4. Handshake'
  BY Zenon DEF IInv, Handshake, WorkerInStep, CallerInStep, Own, Awaiting, HoldsGuard, At
<1>5. Covered'
  BY Zenon DEF IInv, Covered, SocketCover, SocketOpen, SocketTaken, HandlerCover, HandlerOpen,
               HandlerTaken
<1>6. Fences'
  BY Zenon DEF IInv, Fences, OfflineFence, FencedOff, Cancelling, Fenced, Alive, Unfinished,
               HoldsGuard
<1>. QED BY <1>1, <1>2, <1>3, <1>4, <1>5, <1>6, Zenon DEF IInv

-----------------------------------------------------------------------------
(* online_mode, up to the worker                                           *)

LEMMA AcquireAttemptInv ==
  ASSUME IInv, NEW c \in Caller, AcquireAttempt(c)
  PROVE  IInv'
<1>0. TypeOK /\ At(c, "idle")
  BY Zenon DEF IInv, AcquireAttempt
<1>1. CASE ~CanAcquire
  BY <1>0, <1>1, RunningUnread, Zenon DEF AcquireAttempt, TypeOK, wallet
<1>2. CASE CanAcquire
  <2>. DEFINE a == attempts + 1
  <2>1. /\ a \in Attempt /\ attempts \in Nat /\ a > attempts /\ a # None
        /\ attempt[a] = NewAttempt /\ worker[a] = "none" /\ current = None
    BY <1>2, Bounds, MaxAttemptAssumption
       DEF AcquireAttempt, CanAcquire, IInv, TypeOK, Numbered, Attempt, AttemptOrNone, None
  <2>2. /\ CallerMoves(c) /\ caller'[c].pc = "isOnline" /\ caller'[c].own = a
        /\ caller'[c].target = caller[c].target /\ caller'[c].fence = caller[c].fence
    <3>. DEFINE new == [caller[c] EXCEPT !.pc = "isOnline", !.own = a]
    <3>1. /\ new \in CallerRecord /\ new.pc = "isOnline" /\ new.own = a
          /\ new.target = caller[c].target /\ new.fence = caller[c].fence
      BY <1>0, <2>1, CallerTypes, Bounds, Zenon DEF CallerRecord, CallerLocation
    <3>2. caller' = [caller EXCEPT ![c] = new]
      BY <1>2, Zenon DEF AcquireAttempt, FreshAttempt
    <3>. HIDE DEF new
    <3>. QED BY <1>0, <3>1, <3>2, Zenon DEF TypeOK, CallerMoves
  <2>3. /\ attempts' = a /\ current' = a
        /\ UNCHANGED <<closed, attempt, worker, active, activeLock, wallet, fence, abandoned>>
    BY <1>2, Zenon DEF AcquireAttempt, FreshAttempt
  <2>. HIDE DEF a
  <2>4. TypeOK'
    BY <1>0, <2>1, <2>2, <2>3, Bounds, Zenon DEF TypeOK, CallerMoves, wallet
  <2>5. Numbered'
    <3>1. \A d \in Caller :
            /\ caller[d].own \in Nat /\ caller[d].target \in Nat /\ caller[d].fence \in Nat
            /\ caller[d].own <= attempts /\ caller[d].target <= attempts
            /\ caller[d].fence <= attempts
      BY <1>0, Known, CallerTypes, Bounds, Zenon
    <3>2. \A d \in Caller :
            caller'[d].own <= a /\ caller'[d].target <= a /\ caller'[d].fence <= a
      BY <2>1, <2>2, <3>1 DEF CallerMoves, a
    <3>3. current' <= a /\ active <= a /\ fence <= a
      BY <2>1, <2>3, <1>0, Bounds DEF IInv, TypeOK, Numbered, a
    <3>4. \A b \in Attempt : b > a => worker[b] = "none" /\ attempt[b] = NewAttempt
      <4>1. \A b \in Attempt : b > a => b > attempts
        BY <2>1, Bounds DEF a
      <4>. QED BY <4>1, Zenon DEF IInv, Numbered
    <3>. QED BY <2>3, <3>2, <3>3, <3>4, Zenon DEF Numbered
  <2>6. \A d \in Caller : ~Guarded(d) /\ caller[d].own # a
    <3>1. \A d \in Caller : ~Guarded(d)
      BY <2>1, Bounds, Zenon DEF IInv, Registered
    <3>2. ASSUME NEW d \in Caller PROVE caller[d].own # a
      <4>1. caller[d].own \in Nat /\ caller[d].own <= attempts
        BY <1>0, Known, CallerTypes, Bounds, Zenon
      <4>. QED BY <2>1, <4>1
    <3>. QED BY <3>1, <3>2, Zenon
  <2>7. \A b \in Attempt : ~Running(b)
    BY <2>1, Bounds, Zenon DEF IInv, Registered
  <2>8. Registered'
    BY <2>1, <2>2, <2>3, <2>6, <2>7 DEF IInv, Registered, Running, Unfinished, Guarded, HoldsGuard,
                                        At, CallerMoves
  <2>9. Handshake'
    <3>1. ASSUME NEW b \in Attempt PROVE WorkerInStep(b)'
      BY <2>3, Zenon DEF IInv, Handshake, WorkerInStep
    <3>2. ASSUME NEW d \in Caller, d # c PROVE CallerInStep(d)'
      BY <2>2, <2>3, <3>2
         DEF IInv, Handshake, CallerInStep, Own, Awaiting, HoldsGuard, At, CallerMoves
    <3>3. CallerInStep(c)'
      BY <2>1, <2>2, <2>3 DEF CallerInStep, Own, Awaiting, HoldsGuard, At, NewAttempt
    <3>. QED BY <3>1, <3>2, <3>3, Zenon DEF Handshake
  <2>10. ActiveFree'
    BY <2>2, <2>3, Zenon DEF IInv, ActiveFree, Unfinished, CallerMoves
  <2>11. Covered'
    <3>1. \A d \in Caller : SocketTaken(d) \/ HandlerTaken(d) => caller'[d] = caller[d]
      BY <1>0, <2>2, Zenon DEF CallerMoves, SocketTaken, HandlerTaken, At
    <3>2. ASSUME NEW b \in socket, SocketCover(b) PROVE SocketCover(b)'
      BY <2>3, <3>1, <3>2, Zenon DEF SocketCover, SocketOpen, SocketTaken
    <3>3. ASSUME HandlerCover(handler) PROVE HandlerCover(handler)'
      BY <2>3, <3>1, <3>3, Zenon DEF HandlerCover, HandlerOpen, HandlerTaken, wallet
    <3>. QED BY <2>3, <3>2, <3>3, Zenon DEF IInv, Covered, HandlerOpen, wallet
  <2>12. Fences'
    <3>1. \A b \in Attempt : Alive(b)' => b = a
      BY <2>2, <2>3, <2>6, <2>7, Zenon
         DEF Alive, Unfinished, Running, CallerMoves, HoldsGuard, Guarded
    <3>2. \A d \in Caller : caller'[d].fence \in Nat /\ caller'[d].fence < a
      <4>1. \A d \in Caller : caller[d].fence \in Nat /\ caller[d].fence <= attempts
        BY <1>0, Known, CallerTypes, Bounds, Zenon
      <4>. QED BY <2>1, <2>2, <4>1 DEF CallerMoves, a
    <3>3. fence < a
      BY <2>1, <1>0, Bounds DEF IInv, TypeOK, Numbered, a
    <3>4. ASSUME NEW d \in Caller PROVE FencedOff(d)'
      <4>1. FencedOff(d)
        BY Zenon DEF IInv, Fences
      <4>2. \A b \in Attempt : b <= caller'[d].fence => ~Alive(b)'
        BY <3>1, <3>2, <2>1, Bounds
      <4>3. Cancelling(d)' => caller'[d].target \in Attempt
        BY <4>1, <2>2, Zenon DEF FencedOff, Cancelling, CallerMoves
      <4>. QED BY <4>2, <4>3, Zenon DEF FencedOff
    <3>5. \A b \in Attempt : b <= fence' => ~Alive(b)'
      BY <3>1, <3>3, <2>1, <2>3, <1>0, Bounds DEF TypeOK
    <3>. QED BY <2>3, <3>4, <3>5, Zenon DEF IInv, Fences, OfflineFence, wallet
  <2>. QED BY <2>4, <2>5, <2>8, <2>9, <2>10, <2>11, <2>12, Zenon DEF IInv
<1>. QED BY <1>1, <1>2, Zenon

LEMMA CheckOfflineInv ==
  ASSUME IInv, NEW c \in Caller, CheckOffline(c)
  PROVE  IInv'
<1>1. Keeps(c, "dropGuard") \/ Keeps(c, "takeStale")
  BY GotoKeeps, DropKeeps, Zenon DEF IInv, CheckOffline, CallerLocation
<1>2. AttemptsKept
  BY AttemptsUnchanged, Zenon DEF IInv, CheckOffline
<1>. QED BY <1>1, <1>2, CallerStep, Known, Zenon
         DEF CheckOffline, IInv, TypeOK, Keeps, HoldsGuard, At, Awaiting, SocketTaken,
             HandlerTaken, FencedOff, Cancelling, Fenced, wallet

\* A call takes the active connection out, and now has to close it.
LEMMA TakenInv ==
  ASSUME IInv, NEW c \in Caller, CallerMoves(c),
         UNCHANGED <<current, closed, attempts, attempt, worker, wallet, fence, abandoned>>,
         active' = None, activeLock' \in BOOLEAN,
         ~SocketTaken(c), ~HandlerTaken(c), caller'[c].target = active,
         active # None => SocketTaken(c)' /\ HandlerTaken(c)',
         caller'[c].own = caller[c].own, caller'[c].fence = caller[c].fence,
         HoldsGuard(c)' <=> HoldsGuard(c), ~At(c, "clearCurrent")', ~Awaiting(c)',
         ~Cancelling(c)', Fenced(c)' => Fenced(c)
  PROVE  IInv'
<1>1. TypeOK'
  BY Bounds, Zenon DEF IInv, TypeOK, CallerMoves, wallet
<1>2. Numbered'
  BY Bounds, Known, Zenon DEF IInv, TypeOK, Numbered, CallerMoves
<1>3. Registered'
  <2>1. \A d \in Caller : /\ caller'[d].own = caller[d].own
                          /\ Guarded(d)' => Guarded(d)
    BY Zenon DEF CallerMoves, Guarded, HoldsGuard, At
  <2>. QED BY <2>1, RegisteredStep, Zenon DEF IInv, Registered, Running, Unfinished
<1>4. Handshake'
  <2>1. ASSUME NEW a \in Attempt PROVE WorkerInStep(a)'
    BY WorkersInStep, Zenon
  <2>2. ASSUME NEW d \in Caller, d # c PROVE CallerInStep(d)'
    BY <2>2, OthersInStep, Zenon
  <2>3. CallerInStep(c)'
    BY Zenon DEF IInv, Handshake, CallerInStep, Own, Awaiting, HoldsGuard, At
  <2>. QED BY <2>1, <2>2, <2>3, Zenon DEF Handshake
<1>5. ActiveFree'
  BY Zenon DEF ActiveFree
<1>6. Covered'
  <2>1. \A d \in Caller : SocketTaken(d) \/ HandlerTaken(d) => caller'[d] = caller[d]
    BY Zenon DEF CallerMoves
  <2>2. ASSUME NEW a \in socket PROVE SocketCover(a)'
    <3>1. SocketCover(a) /\ a # None
      BY Bounds, Zenon DEF IInv, TypeOK, Covered
    <3>2. CASE a = active
      BY <3>1, <3>2, Zenon DEF SocketCover
    <3>3. CASE a # active
      BY <2>1, <3>1, <3>3, Zenon DEF SocketCover, SocketOpen, SocketTaken
    <3>. QED BY <3>2, <3>3, Zenon
  <2>3. ASSUME handler # None PROVE HandlerCover(handler)'
    <3>1. HandlerCover(handler) /\ handler' = handler
      BY <2>3, Zenon DEF IInv, Covered, wallet
    <3>2. CASE handler = active
      BY <2>3, <3>1, <3>2, Zenon DEF HandlerCover
    <3>3. CASE handler # active
      BY <2>1, <3>1, <3>3, Zenon DEF HandlerCover, HandlerOpen, HandlerTaken
    <3>. QED BY <3>2, <3>3, Zenon
  <2>. QED BY <2>2, <2>3, Zenon DEF IInv, Covered, HandlerOpen, wallet
<1>7. Fences'
  <2>1. \A a \in Attempt : Alive(a)' <=> Alive(a)
    BY Zenon DEF Alive, Unfinished, CallerMoves, HoldsGuard
  <2>2. OfflineFence'
    BY Zenon DEF IInv, Fences, OfflineFence, wallet
  <2>3. FencedOff(c)'
    BY <2>1, Zenon DEF IInv, Fences, FencedOff
  <2>. QED BY <2>1, <2>2, <2>3, FencesStep, Zenon
<1>. QED BY <1>1, <1>2, <1>3, <1>4, <1>5, <1>6, <1>7, Zenon DEF IInv

\* Where a call goes that takes the active connection out.
LEMMA TakeMoves ==
  ASSUME IInv, NEW c \in Caller, NEW pc \in CallerLocation,
         caller' = [caller EXCEPT ![c].pc = pc, ![c].target = active]
  PROVE  /\ CallerMoves(c) /\ caller'[c].pc = pc /\ caller'[c].target = active
         /\ caller'[c].own = caller[c].own /\ caller'[c].fence = caller[c].fence
<1>. DEFINE new == [caller[c] EXCEPT !.pc = pc, !.target = active]
<1>1. /\ new \in CallerRecord /\ new.pc = pc /\ new.target = active
      /\ new.own = caller[c].own /\ new.fence = caller[c].fence
  BY CallerTypes, Zenon DEF IInv, TypeOK, CallerRecord
<1>2. caller' = [caller EXCEPT ![c] = new]
  BY Zenon
<1>. HIDE DEF new
<1>. QED BY <1>1, <1>2, Zenon DEF IInv, TypeOK, CallerMoves

LEMMA TakeStaleInv ==
  ASSUME IInv, NEW c \in Caller, TakeStale(c)
  PROVE  IInv'
<1>. DEFINE pc == IF active = None THEN "spawn" ELSE "cleanStale"
<1>1. pc \in CallerLocation /\ caller' = [caller EXCEPT ![c].pc = pc, ![c].target = active]
  BY Zenon DEF TakeStale, CallerLocation
<1>2. /\ CallerMoves(c) /\ caller'[c].pc = pc /\ caller'[c].target = active
      /\ caller'[c].own = caller[c].own /\ caller'[c].fence = caller[c].fence
  BY <1>1, TakeMoves, Zenon
<1>3. activeLock' \in BOOLEAN
  BY Zenon DEF TakeStale
<1>4. /\ At(c, "takeStale") /\ active' = None
      /\ UNCHANGED <<current, closed, attempts, attempt, worker, wallet, fence, abandoned>>
  BY Zenon DEF TakeStale
<1>. QED BY <1>2, <1>3, <1>4, TakenInv, Zenon
         DEF HoldsGuard, At, Awaiting, SocketTaken, HandlerTaken, Cancelling, Fenced

LEMMA TakeActiveInv ==
  ASSUME IInv, NEW c \in Caller, TakeActive(c)
  PROVE  IInv'
<1>. DEFINE pc == IF active = None THEN "setOffline" ELSE "disconnect"
<1>1. pc \in CallerLocation /\ caller' = [caller EXCEPT ![c].pc = pc, ![c].target = active]
  BY Zenon DEF TakeActive, CallerLocation
<1>2. /\ CallerMoves(c) /\ caller'[c].pc = pc /\ caller'[c].target = active
      /\ caller'[c].own = caller[c].own /\ caller'[c].fence = caller[c].fence
  BY <1>1, TakeMoves, Zenon
<1>. QED BY <1>2, TakenInv
         DEF TakeActive, IInv, TypeOK, HoldsGuard, At, Awaiting, SocketTaken, HandlerTaken, Cancelling, Fenced

LEMMA DisconnectStaleInv ==
  ASSUME IInv, NEW c \in Caller, DisconnectStale(c)
  PROVE  IInv'
<1>1. Keeps(c, "staleOffline")
  BY GotoKeeps, Zenon DEF IInv, DisconnectStale, CallerLocation
<1>2. AttemptsKept
  BY AttemptsUnchanged, Zenon DEF IInv, DisconnectStale
<1>3. active = None
  BY Zenon DEF IInv, ActiveFree, DisconnectStale, At
<1>. QED BY <1>1, <1>2, <1>3, CallerStep, Known, DisconnectedSubset, Zenon
         DEF DisconnectStale, IInv, TypeOK, Keeps, HoldsGuard, At, Awaiting, SocketTaken,
             HandlerTaken, FencedOff, Cancelling, Fenced

LEMMA DisconnectActiveInv ==
  ASSUME IInv, NEW c \in Caller, DisconnectActive(c)
  PROVE  IInv'
<1>1. Keeps(c, "setOffline")
  BY GotoKeeps, Zenon DEF IInv, DisconnectActive, CallerLocation
<1>2. AttemptsKept
  BY AttemptsUnchanged, Zenon DEF IInv, DisconnectActive
<1>3. FencedOff(c)'
  <2>1. \A a \in Attempt : Alive(a)' => Alive(a)
    BY <1>1, Zenon DEF DisconnectActive, At, Alive, Unfinished, HoldsGuard, Keeps, CallerMoves
  <2>. QED BY <1>1, <2>1, Zenon
              DEF DisconnectActive, At, IInv, Fences, FencedOff, Cancelling, Fenced, Keeps
<1>. QED BY <1>1, <1>2, <1>3, CallerStep, Known, DisconnectedSubset, Zenon
         DEF DisconnectActive, IInv, TypeOK, Keeps, HoldsGuard, At, Awaiting, SocketTaken,
             HandlerTaken

\* A call stops the handler and no longer has to.
LEMMA StoppedInv ==
  ASSUME IInv, NEW c \in Caller, Keeps(c, caller'[c].pc) \/ Forgets(c),
         UNCHANGED <<current, closed, attempts, attempt, worker, active, socket>>,
         handler' = None, running' = FALSE, activeLock' \in BOOLEAN,
         HoldsGuard(c)' <=> HoldsGuard(c), HoldsGuard(c) => caller'[c].own = caller[c].own,
         ~At(c, "clearCurrent")', ~Awaiting(c)',
         ~SocketTaken(c), ~Cancelling(c)', ~Fenced(c)',
         caller'[c].pc \in {"cleanStale", "staleOffline", "spawn"} => active = None,
         fence' \in AttemptOrNone, fence' <= attempts,
         \A a \in Attempt : a <= fence' => ~Alive(a),
         abandoned \subseteq abandoned', abandoned' \subseteq Attempt
  PROVE  IInv'
<1>0. CallerMoves(c)
  BY Zenon DEF Keeps, Forgets
<1>1. TypeOK'
  BY <1>0, Bounds, Zenon DEF IInv, TypeOK, CallerMoves
<1>2. Numbered'
  BY <1>0, Bounds, Known, Zenon DEF IInv, TypeOK, Numbered, CallerMoves, Keeps, Forgets, None
<1>3. Registered'
  <2>1. \A d \in Caller : /\ caller'[d].own \in {None, caller[d].own}
                          /\ Guarded(d)' => Guarded(d) /\ caller'[d].own = caller[d].own
    BY <1>0, Zenon DEF CallerMoves, Guarded, HoldsGuard, At, Keeps, Forgets
  <2>. QED BY <2>1, RegisteredStep, Zenon DEF IInv, Registered, Running, Unfinished
<1>4. Handshake'
  <2>1. ASSUME NEW a \in Attempt PROVE WorkerInStep(a)'
    BY WorkersInStep, Zenon
  <2>2. ASSUME NEW d \in Caller, d # c PROVE CallerInStep(d)'
    BY <1>0, <2>2, OthersInStep, Zenon
  <2>3. CallerInStep(c)'
    BY Zenon DEF IInv, Handshake, CallerInStep, Own, Awaiting, HoldsGuard, At
  <2>. QED BY <2>1, <2>2, <2>3, Zenon DEF Handshake
<1>5. ActiveFree'
  BY <1>0, Zenon DEF IInv, ActiveFree, Unfinished, CallerMoves
<1>6. Covered'
  <2>1. \A d \in Caller : SocketTaken(d) => caller'[d] = caller[d]
    BY <1>0, Zenon DEF CallerMoves
  <2>2. ASSUME NEW a \in socket PROVE SocketCover(a)'
    <3>1. SocketCover(a)
      BY Zenon DEF IInv, Covered
    <3>. QED BY <2>1, <3>1, Zenon DEF SocketCover, SocketOpen, SocketTaken
  <2>. QED BY <2>2, Zenon DEF Covered
<1>7. Fences'
  <2>1. \A a \in Attempt : Alive(a)' <=> Alive(a)
    BY <1>0, Zenon DEF Alive, Unfinished, CallerMoves, HoldsGuard
  <2>2. ASSUME NEW d \in Caller PROVE FencedOff(d)'
    BY <1>0, <2>1, Zenon DEF IInv, Fences, FencedOff, Cancelling, Fenced, CallerMoves
  <2>. QED BY <2>1, <2>2, Zenon DEF Fences, OfflineFence
<1>. QED BY <1>1, <1>2, <1>3, <1>4, <1>5, <1>6, <1>7, Zenon DEF IInv

LEMMA StaleOfflineInv ==
  ASSUME IInv, NEW c \in Caller, StaleOffline(c)
  PROVE  IInv'
<1>1. Keeps(c, "spawn") \/ Keeps(c, "dropGuard")
  BY GotoKeeps, DropKeeps, Zenon DEF IInv, StaleOffline, CallerLocation
<1>2. active = None /\ At(c, "staleOffline")
  BY Zenon DEF IInv, ActiveFree, StaleOffline, At
<1>3. /\ UNCHANGED <<current, closed, attempts, attempt, worker, active, socket, fence, abandoned>>
      /\ handler' = None /\ running' = FALSE /\ activeLock' = FALSE
  BY Zenon DEF StaleOffline, SetOfflineMode
<1>4. /\ fence' \in AttemptOrNone /\ fence' <= attempts
      /\ \A a \in Attempt : a <= fence' => ~Alive(a)
  BY <1>3, Zenon DEF IInv, TypeOK, Numbered, Fences
<1>. QED BY <1>1, <1>2, <1>3, <1>4, StoppedInv, Zenon
         DEF IInv, TypeOK, HoldsGuard, At, Awaiting, SocketTaken, Cancelling, Fenced, Keeps

LEMMA FinishShutdownInv ==
  ASSUME IInv, NEW c \in Caller, FinishShutdown(c)
  PROVE  IInv'
<1>1. Forgets(c)
  BY ReturnForgets, Zenon DEF IInv, FinishShutdown
<1>2. /\ At(c, "setOffline")
      /\ UNCHANGED <<current, closed, attempts, attempt, worker, active, socket, abandoned>>
  BY Zenon DEF FinishShutdown
<1>3. handler' = None /\ running' = FALSE /\ activeLock' \in BOOLEAN
  BY Zenon DEF FinishShutdown, SetOfflineMode, IInv, TypeOK
<1>4. /\ fence' \in AttemptOrNone /\ fence' <= attempts
      /\ \A a \in Attempt : a <= fence' => ~Alive(a)
  <2>1. fence' = fence \/ fence' = caller[c].fence
    BY Zenon DEF FinishShutdown
  <2>2. \A a \in Attempt : a <= fence \/ a <= caller[c].fence => ~Alive(a)
    BY <1>2, Zenon DEF IInv, Fences, FencedOff, Fenced, At
  <2>. QED BY <2>1, <2>2, CallerTypes, Known, Zenon DEF IInv, TypeOK, Numbered
<1>. QED BY <1>1, <1>2, <1>3, <1>4, StoppedInv, Zenon
         DEF IInv, TypeOK, HoldsGuard, At, Awaiting, SocketTaken, Cancelling, Fenced, Forgets

LEMMA SpawnWorkerInv ==
  ASSUME IInv, NEW c \in Caller, SpawnWorker(c)
  PROVE  IInv'
<1>0. At(c, "spawn") /\ HoldsGuard(c) /\ Guarded(c)
  BY Zenon DEF SpawnWorker, At, HoldsGuard, Guarded
<1>1. CASE Own(c).cancelled
  <2>1. Keeps(c, "dropGuard")
    BY <1>1, DropKeeps, Zenon DEF IInv, SpawnWorker
  <2>2. AttemptsKept
    BY AttemptsUnchanged, Zenon DEF IInv, SpawnWorker
  <2>3. UNCHANGED <<current, closed, attempts, worker, active, activeLock, wallet, fence, abandoned>>
    BY <1>1, Zenon DEF SpawnWorker
  <2>. QED BY <1>0, <2>1, <2>2, <2>3, CallerStep, Known, Zenon
           DEF IInv, TypeOK, Keeps, HoldsGuard, At, Awaiting, SocketTaken,
               HandlerTaken, FencedOff, Cancelling, Fenced, wallet
<1>2. CASE ~Own(c).cancelled
  <2>. DEFINE a == caller[c].own
  <2>1. /\ a \in Attempt /\ current = a /\ worker[a] = "none" /\ active = None
        /\ ~attempt[a].completed /\ attempt[a].result = "open"
        /\ attempt[a].accepted = "open" /\ attempt[a].finalized = "open"
    BY <1>0, Zenon DEF IInv, Registered, Handshake, CallerInStep, Own, ActiveFree, At
  <2>2. Keeps(c, "awaitResult") /\ WorkerMoves(a, "connecting")
    BY <1>2, <2>1, GotoKeeps, Zenon
       DEF IInv, TypeOK, SpawnWorker, CallerLocation, WorkerLocation, WorkerMoves
  <2>3. UNCHANGED <<current, closed, attempts, attempt, active, activeLock, handler, running,
                    socket, fence, abandoned>>
    BY Zenon DEF SpawnWorker, wallet
  <2>. HIDE DEF a
  <2>4. TypeOK'
    BY <2>2, <2>3, Zenon DEF IInv, TypeOK, Keeps, CallerMoves, WorkerMoves
  <2>5. Numbered'
    <3>1. a <= attempts
      BY Zenon DEF IInv, Numbered, a
    <3>. QED BY <2>1, <2>2, <2>3, <3>1, Bounds
             DEF IInv, TypeOK, Numbered, Keeps, CallerMoves, WorkerMoves
  <2>6. Registered'
    BY <2>1, <2>2, <2>3, <1>0, Bounds
       DEF IInv, Registered, Running, Unfinished, Guarded, HoldsGuard, At, Keeps, CallerMoves,
           WorkerMoves, a
  <2>7. Handshake'
    <3>1. ASSUME NEW b \in Attempt PROVE WorkerInStep(b)'
      BY <2>1, <2>2, <2>3, Zenon DEF IInv, Handshake, WorkerInStep, WorkerMoves
    <3>2. ASSUME NEW d \in Caller, d # c PROVE CallerInStep(d)'
      <4>1. caller'[d] = caller[d] /\ caller[d].own # a
        BY <2>1, <2>2, <3>2, Bounds, Zenon DEF IInv, Registered, Keeps, CallerMoves, a
      <4>2. CallerInStep(d)
        BY Zenon DEF IInv, Handshake
      <4>. QED BY <2>2, <2>3, <4>1, <4>2, Zenon
                  DEF CallerInStep, Own, Awaiting, HoldsGuard, At, WorkerMoves
    <3>3. CallerInStep(c)'
      BY <2>1, <2>2, <2>3, Zenon
         DEF CallerInStep, Own, Awaiting, HoldsGuard, At, Keeps, WorkerMoves, a
    <3>. QED BY <3>1, <3>2, <3>3, Zenon DEF Handshake
  <2>8. ActiveFree'
    BY <2>1, <2>3, Zenon DEF ActiveFree
  <2>9. Covered'
    <3>1. \A d \in Caller : SocketTaken(d) \/ HandlerTaken(d) => caller'[d] = caller[d]
      BY <1>0, <2>2, Zenon DEF Keeps, CallerMoves, SocketTaken, HandlerTaken, At
    <3>2. \A b \in Attempt : /\ SocketOpen(b)' <=> SocketOpen(b)
                             /\ HandlerOpen(b)' <=> HandlerOpen(b)
      BY <2>1, <2>2, Zenon DEF WorkerMoves, SocketOpen, HandlerOpen
    <3>3. ASSUME NEW b \in socket PROVE SocketCover(b)'
      <4>1. b \in Attempt /\ SocketCover(b)
        BY Zenon DEF IInv, TypeOK, Covered
      <4>. QED BY <2>3, <3>1, <3>2, <4>1, Zenon DEF SocketCover, SocketTaken
    <3>4. ASSUME handler # None PROVE HandlerCover(handler)'
      <4>1. handler \in Attempt /\ HandlerCover(handler)
        BY <3>4, Bounds, Zenon DEF IInv, TypeOK, Covered
      <4>. QED BY <2>3, <3>1, <3>2, <4>1, Zenon DEF HandlerCover, HandlerTaken
    <3>. QED BY <2>3, <3>2, <3>3, <3>4, Zenon DEF IInv, Covered
  <2>10. Fences'
    <3>1. \A b \in Attempt : Alive(b)' => Alive(b)
      BY <1>0, <2>1, <2>2, Zenon
         DEF Alive, Unfinished, Keeps, CallerMoves, HoldsGuard, WorkerMoves, a
    <3>2. OfflineFence' /\ FencedOff(c)'
      BY <2>2, <2>3, Zenon DEF IInv, Fences, OfflineFence, FencedOff, Cancelling, Fenced, Keeps
    <3>. QED BY <2>2, <2>3, <3>1, <3>2, FencesStep, Zenon DEF Keeps
  <2>. QED BY <2>4, <2>5, <2>6, <2>7, <2>8, <2>9, <2>10, Zenon DEF IInv
<1>. QED BY <1>1, <1>2, Zenon

LEMMA DropOwnGuardInv ==
  ASSUME IInv, NEW c \in Caller, DropOwnGuard(c)
  PROVE  IInv'
<1>. DEFINE a == caller[c].own
<1>1. At(c, "dropGuard") /\ a \in Attempt /\ current = a /\ worker[a] = "none"
  BY Zenon DEF DropOwnGuard, IInv, Registered, Guarded, HoldsGuard, At
<1>2. Keeps(c, "clearCurrent")
  BY GotoKeeps, Zenon DEF IInv, DropOwnGuard, CallerLocation
<1>3. /\ AttemptMoves(a)
      /\ attempt'[a].result = attempt[a].result /\ attempt'[a].accepted = attempt[a].accepted
      /\ attempt'[a].finalized = attempt[a].finalized
  <2>. DEFINE new == [attempt[a] EXCEPT !.completed = TRUE]
  <2>1. /\ new \in AttemptRecord /\ new.result = attempt[a].result
        /\ new.accepted = attempt[a].accepted /\ new.finalized = attempt[a].finalized
    BY <1>1, CompletedRecord, Zenon DEF IInv, TypeOK
  <2>2. attempt' = [attempt EXCEPT ![a] = new]
    BY Zenon DEF DropOwnGuard
  <2>. HIDE DEF new
  <2>. QED BY <1>1, <2>1, <2>2, Zenon DEF IInv, TypeOK, AttemptMoves
<1>4. UNCHANGED <<current, closed, attempts, worker, active, activeLock, handler, running,
                  socket, fence, abandoned>>
  BY Zenon DEF DropOwnGuard, wallet
<1>. HIDE DEF a
<1>5. TypeOK'
  BY <1>2, <1>3, <1>4, Zenon DEF IInv, TypeOK, Keeps, CallerMoves, AttemptMoves
<1>6. Numbered'
  <2>1. a <= attempts
    BY Zenon DEF IInv, Numbered, a
  <2>. QED BY <1>2, <1>3, <1>4, <2>1, Bounds, <1>1
           DEF IInv, TypeOK, Numbered, Keeps, CallerMoves, AttemptMoves
<1>7. Registered'
  <2>1. \A d \in Caller : caller'[d].own = caller[d].own /\ (Guarded(d)' => Guarded(d))
    BY <1>1, <1>2, Zenon DEF Keeps, CallerMoves, Guarded, HoldsGuard, At
  <2>2. \A b \in Attempt : /\ Running(b)' => current' = b
                           /\ Unfinished(b)' => ~attempt'[b].completed
    BY <1>1, <1>3, <1>4, Zenon DEF IInv, Registered, Running, Unfinished, AttemptMoves
  <2>. QED BY <1>4, <2>1, <2>2, RegisteredStep, Zenon DEF IInv
<1>8. Handshake'
  <2>1. ASSUME NEW b \in Attempt PROVE WorkerInStep(b)'
    BY <1>3, <1>4, Zenon DEF IInv, Handshake, WorkerInStep, AttemptMoves
  <2>2. ASSUME NEW d \in Caller, d # c PROVE CallerInStep(d)'
    <3>1. caller'[d] = caller[d] /\ caller[d].own # a
      BY <1>1, <1>2, <2>2, Bounds, Zenon DEF IInv, Registered, Keeps, CallerMoves, a
    <3>2. CallerInStep(d) /\ (HoldsGuard(d) => caller[d].own \in Attempt)
      BY Zenon DEF IInv, Handshake, Registered, Guarded
    <3>. QED BY <1>3, <1>4, <3>1, <3>2, Zenon
                DEF CallerInStep, Own, Awaiting, HoldsGuard, At, AttemptMoves
  <2>3. CallerInStep(c)'
    BY <1>2, Zenon DEF CallerInStep, Own, Awaiting, HoldsGuard, At, Keeps
  <2>. QED BY <2>1, <2>2, <2>3, Zenon DEF Handshake
<1>9. ActiveFree'
  BY <1>1, <1>2, <1>3, <1>4, Zenon
     DEF IInv, ActiveFree, Unfinished, Keeps, CallerMoves, AttemptMoves
<1>10. Covered'
  <2>1. \A d \in Caller : SocketTaken(d) \/ HandlerTaken(d) => caller'[d] = caller[d]
    BY <1>1, <1>2, Zenon DEF Keeps, CallerMoves, SocketTaken, HandlerTaken, At
  <2>2. ASSUME NEW b \in socket PROVE SocketCover(b)'
    <3>1. b \in Attempt /\ SocketCover(b)
      BY Zenon DEF IInv, TypeOK, Covered
    <3>. QED BY <1>3, <1>4, <2>1, <3>1, Zenon DEF SocketCover, SocketOpen, SocketTaken, AttemptMoves
  <2>3. ASSUME handler # None PROVE HandlerCover(handler)'
    <3>1. handler \in Attempt /\ HandlerCover(handler)
      BY <2>3, Bounds, Zenon DEF IInv, TypeOK, Covered
    <3>. QED BY <1>3, <1>4, <2>1, <3>1, Zenon
                DEF HandlerCover, HandlerOpen, HandlerTaken, AttemptMoves
  <2>. QED BY <1>4, <2>2, <2>3, Zenon DEF IInv, Covered, HandlerOpen
<1>11. Fences'
  <2>1. \A b \in Attempt : Alive(b)' => Alive(b)
    BY <1>2, <1>4, Zenon DEF Alive, Unfinished, Keeps, CallerMoves, HoldsGuard
  <2>2. OfflineFence' /\ FencedOff(c)'
    BY <1>2, <1>4, Zenon DEF IInv, Fences, OfflineFence, FencedOff, Cancelling, Fenced, Keeps
  <2>. QED BY <1>2, <1>4, <2>1, <2>2, FencesStep, Zenon DEF Keeps
<1>. QED BY <1>5, <1>6, <1>7, <1>8, <1>9, <1>10, <1>11, Zenon DEF IInv

LEMMA ClearOwnCurrentInv ==
  ASSUME IInv, NEW c \in Caller, ClearOwnCurrent(c)
  PROVE  IInv'
<1>1. At(c, "clearCurrent") /\ current = caller[c].own /\ current \in Attempt /\ worker[current] = "none"
  BY Zenon DEF ClearOwnCurrent, IInv, Registered, Guarded, At
<1>2. Forgets(c)
  BY ReturnForgets, Zenon DEF IInv, ClearOwnCurrent
<1>3. current' = None /\ UNCHANGED <<closed, attempts, attempt, worker, active, activeLock, handler,
                                     running, socket, fence, abandoned>>
  BY <1>1, Zenon DEF ClearOwnCurrent, Released, wallet
<1>4. TypeOK'
  BY <1>2, <1>3, Bounds, Zenon DEF IInv, TypeOK, Forgets, CallerMoves
<1>5. Numbered'
  BY <1>2, <1>3, Known, Zenon DEF IInv, Numbered, Forgets, CallerMoves, None
<1>6. Registered'
  <2>1. \A d \in Caller : ~Guarded(d)' /\ caller'[d].own \in {None, caller[d].own}
    BY <1>1, <1>2, Bounds, Zenon
       DEF IInv, Registered, Guarded, HoldsGuard, At, Forgets, CallerMoves
  <2>2. \A b \in Attempt : ~Running(b)' /\ (Unfinished(b)' => ~attempt'[b].completed)
    BY <1>1, <1>3, Zenon DEF IInv, Registered, Running, Unfinished
  <2>. QED BY <2>1, <2>2, RegisteredStep, Zenon DEF IInv
<1>7. Handshake'
  <2>1. ASSUME NEW b \in Attempt PROVE WorkerInStep(b)'
    BY <1>3, Zenon DEF IInv, Handshake, WorkerInStep
  <2>2. ASSUME NEW d \in Caller, d # c PROVE CallerInStep(d)'
    BY <1>2, <1>3, <2>2, Zenon
       DEF IInv, Handshake, CallerInStep, Own, Awaiting, HoldsGuard, At, Forgets, CallerMoves
  <2>3. CallerInStep(c)'
    BY <1>2, Zenon DEF CallerInStep, Own, Awaiting, HoldsGuard, At, Forgets
  <2>. QED BY <2>1, <2>2, <2>3, Zenon DEF Handshake
<1>8. ActiveFree'
  BY <1>2, <1>3, Zenon DEF IInv, ActiveFree, Unfinished, Forgets, CallerMoves
<1>9. Covered'
  <2>1. \A d \in Caller : SocketTaken(d) \/ HandlerTaken(d) => caller'[d] = caller[d]
    BY <1>1, <1>2, Zenon DEF Forgets, CallerMoves, SocketTaken, HandlerTaken, At
  <2>2. ASSUME NEW b \in socket PROVE SocketCover(b)'
    <3>1. SocketCover(b)
      BY Zenon DEF IInv, Covered
    <3>. QED BY <1>3, <2>1, <3>1, Zenon DEF SocketCover, SocketOpen, SocketTaken
  <2>3. ASSUME handler # None PROVE HandlerCover(handler)'
    BY <1>3, <2>1, <2>3, Zenon DEF IInv, Covered, HandlerCover, HandlerOpen, HandlerTaken
  <2>. QED BY <1>3, <2>2, <2>3, Zenon DEF IInv, Covered, HandlerOpen
<1>10. Fences'
  <2>1. \A b \in Attempt : Alive(b)' => Alive(b)
    BY <1>2, <1>3, Zenon DEF Alive, Unfinished, Forgets, CallerMoves, HoldsGuard
  <2>2. OfflineFence' /\ FencedOff(c)'
    BY <1>2, <1>3, Zenon DEF IInv, Fences, OfflineFence, FencedOff, Cancelling, Fenced, Forgets
  <2>. QED BY <1>2, <1>3, <2>1, <2>2, FencesStep, Zenon DEF Forgets
<1>. QED BY <1>4, <1>5, <1>6, <1>7, <1>8, <1>9, <1>10, Zenon DEF IInv

-----------------------------------------------------------------------------
(* online_mode, waiting for its worker                                     *)

LEMMA ReceiveResultInv ==
  ASSUME IInv, NEW c \in Caller, ReceiveResult(c)
  PROVE  IInv'
<1>. DEFINE a == caller[c].own
<1>1. /\ At(c, "awaitResult") /\ Awaiting(c) /\ a \in Attempt /\ worker[a] # "awaitFinalized"
      /\ attempt[a].accepted = "open" /\ attempt[a].finalized = "open"
      /\ attempt[a].result = "ok" => worker[a] = "awaitAccepted"
  BY Zenon DEF ReceiveResult, Awaiting, At, IInv, Handshake, CallerInStep, WorkerInStep, Own
<1>2. CASE attempt[a].result = "err"
  <2>1. Forgets(c)
    BY <1>2, ReturnForgets, Zenon DEF ReceiveResult, IInv
  <2>2. AttemptsKept
    BY <1>2, AttemptsUnchanged, Zenon DEF ReceiveResult, IInv
  <2>. QED BY <1>1, <2>1, <2>2, CallerStep, Known, Zenon
           DEF ReceiveResult, IInv, TypeOK, Forgets, HoldsGuard, At, Awaiting, SocketTaken,
               HandlerTaken, FencedOff, Cancelling, Fenced, wallet, None
<1>3. CASE attempt[a].result # "err"
  <2>1. attempt[a].result = "ok" /\ worker[a] = "awaitAccepted"
    BY <1>1, <1>3, Zenon DEF ReceiveResult
  <2>2. \E pc \in {"joinCancelled", "lockActive"}, f \in {"open", "closed"} :
          /\ Keeps(c, pc) /\ AttemptMoves(a)
          /\ attempt'[a].completed = attempt[a].completed
          /\ attempt'[a].accepted = "sent" /\ attempt'[a].finalized = f
          /\ pc = "lockActive" => f = "open"
    <3>. DEFINE f == IF attempt[a].cancelled THEN "closed" ELSE "open"
                pc == IF attempt[a].cancelled THEN "joinCancelled" ELSE "lockActive"
                new == [attempt[a] EXCEPT !.accepted = "sent", !.finalized = f]
    <3>1. /\ new \in AttemptRecord /\ new.completed = attempt[a].completed
          /\ new.accepted = "sent" /\ new.finalized = f
      BY <1>1, Zenon DEF IInv, TypeOK, AttemptRecord
    <3>2. attempt' = [attempt EXCEPT ![a] = new]
      BY <1>1, <2>1, Zenon DEF ReceiveResult
    <3>3. Goto(c, pc) /\ pc \in CallerLocation
      BY <2>1, Zenon DEF ReceiveResult, CallerLocation
    <3>4. Keeps(c, pc)
      BY <3>3, GotoKeeps, Zenon DEF IInv
    <3>5. /\ pc \in {"joinCancelled", "lockActive"} /\ f \in {"open", "closed"}
          /\ pc = "lockActive" => f = "open"
      OBVIOUS
    <3>. HIDE DEF new, f, pc
    <3>6. /\ AttemptMoves(a) /\ attempt'[a].completed = attempt[a].completed
          /\ attempt'[a].accepted = "sent" /\ attempt'[a].finalized = f
      BY <1>1, <3>1, <3>2, Zenon DEF IInv, TypeOK, AttemptMoves
    <3>. QED BY <3>4, <3>5, <3>6, Zenon
  <2>3. UNCHANGED <<current, closed, attempts, worker, active, activeLock, handler,
                    running, socket, fence, abandoned>>
    BY Zenon DEF ReceiveResult, wallet
  <2>4. CallerInStep(c)'
    BY <1>1, <2>1, <2>2, <2>3, Zenon DEF CallerInStep, Own, Awaiting, HoldsGuard, At, Keeps
  <2>. QED BY <1>1, <2>1, <2>2, <2>3, <2>4, ChannelStep, Known, Zenon
           DEF Keeps, Guarded, HoldsGuard, At, SocketTaken, HandlerTaken, Cancelling, Fenced
<1>. QED BY <1>2, <1>3, Zenon

LEMMA ConnectTimeoutInv ==
  ASSUME IInv, NEW c \in Caller, ConnectTimeout(c)
  PROVE  IInv'
<1>. DEFINE a == caller[c].own
<1>1. /\ At(c, "awaitResult") /\ Awaiting(c) /\ a \in Attempt /\ worker[a] # "awaitFinalized"
      /\ attempt[a].finalized = "open"
  BY Zenon DEF ConnectTimeout, Awaiting, At, IInv, Handshake, CallerInStep, WorkerInStep, Own
<1>2. /\ CallerMoves(c) /\ caller'[c].pc = "cancelRead" /\ caller'[c].own = a
      /\ caller'[c].target = caller[c].target /\ caller'[c].fence = caller[c].fence
  <2>. DEFINE new == [caller[c] EXCEPT !.pc = "cancelRead", !.timedOut = TRUE]
  <2>1. /\ new \in CallerRecord /\ new.pc = "cancelRead" /\ new.own = a
        /\ new.target = caller[c].target /\ new.fence = caller[c].fence
    BY CallerTypes, Zenon DEF IInv, CallerRecord, CallerLocation
  <2>2. caller' = [caller EXCEPT ![c] = new]
    BY Zenon DEF ConnectTimeout
  <2>. HIDE DEF new
  <2>. QED BY <2>1, <2>2, Zenon DEF IInv, TypeOK, CallerMoves
<1>3. /\ AttemptMoves(a) /\ attempt'[a].completed = attempt[a].completed
      /\ attempt'[a].finalized = "closed"
  <2>. DEFINE new == ReleaseAcknowledgements(attempt[a])
  <2>1. new \in AttemptRecord /\ new.completed = attempt[a].completed /\ new.finalized = "closed"
    BY <1>1, ReleasedRecord, Zenon DEF IInv, TypeOK
  <2>2. attempt' = [attempt EXCEPT ![a] = new]
    BY Zenon DEF ConnectTimeout
  <2>. HIDE DEF new
  <2>. QED BY <1>1, <2>1, <2>2, Zenon DEF IInv, TypeOK, AttemptMoves
<1>4. UNCHANGED <<current, closed, attempts, worker, active, activeLock, handler,
                  running, socket, fence, abandoned>>
  BY Zenon DEF ConnectTimeout, wallet
<1>5. CallerInStep(c)'
  BY <1>2, Zenon DEF CallerInStep, Awaiting, HoldsGuard, At
<1>. QED BY <1>1, <1>2, <1>3, <1>4, <1>5, ChannelStep, Known, Zenon
         DEF Guarded, HoldsGuard, At, SocketTaken, HandlerTaken, Cancelling, Fenced

LEMMA InstallActiveInv ==
  ASSUME IInv, NEW c \in Caller, InstallActive(c)
  PROVE  IInv'
<1>. DEFINE a == caller[c].own
<1>1. /\ a \in Attempt /\ Unfinished(a) /\ current = a /\ active = None
      /\ At(c, "lockActive") /\ Awaiting(c)
      /\ attempt[a].accepted = "sent" /\ attempt[a].finalized = "open"
      /\ worker[a] \in {"awaitAccepted", "awaitFinalized"}
  BY Zenon DEF InstallActive, At, IInv, Handshake, CallerInStep, Registered, Running, Awaiting,
         ActiveFree, Own, Unfinished
<1>2. UNCHANGED <<current, closed, attempts, worker, activeLock, handler, running, socket, fence, abandoned>>
  BY Zenon DEF InstallActive, wallet
<1>3. ASSUME NEW f \in {"sent", "closed"}, attempt' = [attempt EXCEPT ![a].finalized = f]
      PROVE  /\ AttemptMoves(a) /\ attempt'[a].completed = attempt[a].completed
             /\ attempt'[a].accepted = "sent" /\ attempt'[a].finalized = f
  <2>. DEFINE new == [attempt[a] EXCEPT !.finalized = f]
  <2>1. /\ new \in AttemptRecord /\ new.completed = attempt[a].completed
        /\ new.accepted = "sent" /\ new.finalized = f
    BY <1>1 DEF IInv, TypeOK, AttemptRecord
  <2>2. attempt' = [attempt EXCEPT ![a] = new]
    BY <1>3, Zenon
  <2>. HIDE DEF new
  <2>. QED BY <1>1, <2>1, <2>2, Zenon DEF IInv, TypeOK, AttemptMoves
<1>4. CASE attempt[a].cancelled
  <2>1. attempt' = [attempt EXCEPT ![a].finalized = "closed"] /\ UNCHANGED active
    BY <1>4, Zenon DEF InstallActive
  <2>2. Keeps(c, "joinCancelled")
    BY <1>4, GotoKeeps, Zenon DEF InstallActive, IInv, CallerLocation
  <2>3. CallerInStep(c)'
    BY <1>1, <1>2, <2>2, Zenon DEF CallerInStep, Awaiting, HoldsGuard, At, Keeps
  <2>. QED BY <1>1, <1>2, <1>3, <2>1, <2>2, <2>3, ChannelStep, Known, Zenon
           DEF Keeps, Guarded, HoldsGuard, At, SocketTaken, HandlerTaken, Cancelling, Fenced
<1>5. CASE ~attempt[a].cancelled
  <2>1. active' = a /\ attempt' = [attempt EXCEPT ![a].finalized = "sent"]
    BY <1>5, Zenon DEF InstallActive
  <2>2. Keeps(c, "joinOk")
    BY <1>5, GotoKeeps, Zenon DEF InstallActive, IInv, CallerLocation
  <2>3. /\ AttemptMoves(a) /\ attempt'[a].completed = attempt[a].completed
        /\ attempt'[a].accepted = "sent" /\ attempt'[a].finalized = "sent"
    BY <1>3, <2>1, Zenon
  <2>4. a <= attempts /\ a \in AttemptOrNone
    BY <1>1, Known, Bounds, Zenon
  <2>5. active' = a
    BY <2>1, Zenon
  <2>. HIDE DEF a
  <2>6. TypeOK'
    BY <1>2, <2>2, <2>3, <2>4, <2>5, Zenon DEF IInv, TypeOK, Keeps, CallerMoves, AttemptMoves
  <2>7. Numbered'
    BY <1>1, <1>2, <2>2, <2>3, <2>4, <2>5, Bounds
       DEF IInv, TypeOK, Numbered, Keeps, CallerMoves, AttemptMoves
  <2>8. Registered'
    <3>1. \A d \in Caller : /\ caller'[d].own = caller[d].own
                            /\ Guarded(d)' => Guarded(d)
      BY <2>2, Zenon DEF Guarded, HoldsGuard, At, Keeps, CallerMoves
    <3>2. \A b \in Attempt : /\ attempt'[b].completed = attempt[b].completed
                             /\ Running(b)' <=> Running(b)
                             /\ Unfinished(b)' <=> Unfinished(b)
      BY <1>2, <2>3, Zenon DEF Running, Unfinished, AttemptMoves
    <3>. QED BY <1>2, <3>1, <3>2, Zenon DEF IInv, Registered
  <2>9. Handshake'
    <3>1. ASSUME NEW b \in Attempt PROVE WorkerInStep(b)'
      BY <1>1, <1>2, <2>3, Zenon DEF IInv, Handshake, WorkerInStep, AttemptMoves
    <3>2. ASSUME NEW d \in Caller, d # c PROVE CallerInStep(d)'
      <4>1. caller'[d] = caller[d] /\ caller[d].own # a
        BY <1>1, <2>2, <3>2, Bounds, Zenon DEF IInv, Registered, Keeps, CallerMoves, a
      <4>2. CallerInStep(d) /\ (HoldsGuard(d) => caller[d].own \in Attempt)
        BY Zenon DEF IInv, Handshake, Registered, Guarded
      <4>. QED BY <1>2, <2>3, <4>1, <4>2, Zenon
                  DEF CallerInStep, Own, Awaiting, HoldsGuard, At, AttemptMoves
    <3>3. CallerInStep(c)'
      BY <1>1, <1>2, <2>2, Zenon DEF CallerInStep, Awaiting, HoldsGuard, At, Keeps, a
    <3>. QED BY <3>1, <3>2, <3>3, Zenon DEF Handshake
  <2>10. ActiveFree'
    <3>1. ASSUME NEW b \in Attempt, Unfinished(b)' PROVE b = a
      BY <1>1, <1>2, <3>1, Zenon DEF IInv, Registered, Running, Unfinished
    <3>2. ASSUME NEW d \in Caller
          PROVE  caller'[d].pc \notin {"cleanStale", "staleOffline", "spawn"}
      <4>1. ~Guarded(d) \/ d = c
        BY <1>1, Bounds, Zenon DEF IInv, Registered, a
      <4>. QED BY <2>2, <4>1, Zenon DEF Guarded, HoldsGuard, Keeps, CallerMoves
    <3>. QED BY <2>3, <3>1, <3>2, Zenon DEF ActiveFree
  <2>11. Covered'
    <3>1. \A d \in Caller : SocketTaken(d) \/ HandlerTaken(d) => caller'[d] = caller[d]
      BY <1>1, <2>2, Zenon DEF Keeps, CallerMoves, SocketTaken, HandlerTaken, At
    <3>2. ASSUME NEW b \in socket PROVE SocketCover(b)'
      <4>1. b \in Attempt /\ SocketCover(b) /\ b # active
        BY <1>1, Bounds, Zenon DEF IInv, TypeOK, Covered
      <4>2. CASE b = a
        BY <2>5, <4>2, Zenon DEF SocketCover
      <4>3. CASE b # a
        BY <1>2, <2>3, <3>1, <4>1, <4>3, Zenon
           DEF SocketCover, SocketOpen, SocketTaken, AttemptMoves
      <4>. QED BY <4>2, <4>3, Zenon
    <3>3. ASSUME handler # None PROVE HandlerCover(handler)'
      <4>1. handler \in Attempt /\ HandlerCover(handler) /\ handler # active
        BY <1>1, <3>3, Bounds, Zenon DEF IInv, TypeOK, Covered
      <4>2. CASE handler = a
        BY <1>2, <2>5, <4>2, Zenon DEF HandlerCover
      <4>3. CASE handler # a
        BY <1>2, <2>3, <3>1, <4>1, <4>3, Zenon
           DEF HandlerCover, HandlerOpen, HandlerTaken, AttemptMoves
      <4>. QED BY <4>2, <4>3, Zenon
    <3>. QED BY <1>2, <3>2, <3>3, Zenon DEF IInv, Covered, HandlerOpen
  <2>12. Fences'
    <3>1. \A b \in Attempt : Alive(b)' => Alive(b)
      BY <1>2, <2>2, Zenon DEF Alive, Unfinished, Keeps, CallerMoves, HoldsGuard
    <3>2. OfflineFence' /\ FencedOff(c)'
      BY <1>2, <2>2, Zenon DEF IInv, Fences, OfflineFence, FencedOff, Cancelling, Fenced, Keeps
    <3>. QED BY <1>2, <2>2, <3>1, <3>2, FencesStep, Zenon DEF Keeps
  <2>. QED BY <2>6, <2>7, <2>8, <2>9, <2>10, <2>11, <2>12, Zenon DEF IInv
<1>. QED BY <1>4, <1>5, Zenon

LEMMA JoinWorkerInv ==
  ASSUME IInv, NEW c \in Caller, JoinWorker(c)
  PROVE  IInv'
<1>1. PICK r \in {"none", "Ok", "Cancelled"} :
        Return(c) /\ attempt' = [attempt EXCEPT ![caller[c].own].outcome = r]
  BY Zenon DEF JoinWorker
<1>2. Forgets(c)
  BY <1>1, ReturnForgets, Zenon DEF IInv
<1>3. AttemptsKept
  <2>1. caller[c].own \in Attempt
    BY Zenon DEF JoinWorker, IInv, Handshake, CallerInStep, Awaiting, At
  <2>. QED BY <1>1, <2>1, FlagsKept, Known, Zenon DEF IInv
<1>. QED BY <1>2, <1>3, CallerStep, Known, Zenon
         DEF JoinWorker, IInv, TypeOK, Forgets, HoldsGuard, At, Awaiting, SocketTaken,
             HandlerTaken, FencedOff, Cancelling, Fenced, wallet, None

-----------------------------------------------------------------------------
(* cancel_connection_attempt, offline_mode and close                       *)

LEMMA BeginShutdownInv ==
  ASSUME IInv, NEW c \in Caller, NEW terminal \in BOOLEAN, BeginShutdown(c, terminal)
  PROVE  IInv'
<1>1. /\ CallerMoves(c) /\ caller'[c].pc = "cancelRead" /\ caller'[c].own = None
      /\ caller'[c].target = None /\ caller'[c].fence = 0
  <2>. DEFINE new == [IdleCaller EXCEPT !.pc = "cancelRead", !.terminal = terminal]
  <2>1. /\ new \in CallerRecord /\ new.pc = "cancelRead" /\ new.own = None
        /\ new.target = None /\ new.fence = 0
    BY Bounds, Zenon DEF IdleCaller, CallerRecord, CallerLocation, None
  <2>2. caller' = [caller EXCEPT ![c] = new]
    BY Zenon DEF BeginShutdown
  <2>. HIDE DEF new
  <2>. QED BY <2>1, <2>2, Zenon DEF IInv, TypeOK, CallerMoves
<1>2. AttemptsKept
  BY AttemptsUnchanged, Zenon DEF IInv, BeginShutdown
<1>. QED BY <1>1, <1>2, CallerStep, Known, Zenon
         DEF BeginShutdown, IInv, TypeOK, HoldsGuard, At, Awaiting, SocketTaken,
             HandlerTaken, FencedOff, Cancelling, Fenced, wallet, None

\* Where a call goes from cancel_connection_attempt.
LEMMA AfterCancelLocation ==
  ASSUME NEW c PROVE AfterCancel(c) \in {"timedOut", "takeActive"}
BY Zenon DEF AfterCancel

LEMMA CancelReadInv ==
  ASSUME IInv, NEW c \in Caller, CancelRead(c)
  PROVE  IInv'
<1>. DEFINE pc == IF current = None THEN AfterCancel(c) ELSE "cancelMark"
<1>1. /\ CallerMoves(c) /\ caller'[c].pc = pc /\ caller'[c].own = caller[c].own
      /\ caller'[c].target = current /\ caller'[c].fence = attempts
  <2>. DEFINE new == [caller[c] EXCEPT !.pc = pc, !.target = current, !.fence = attempts,
                                   !.terminal = FALSE]
  <2>1. pc \in CallerLocation
    BY AfterCancelLocation, Zenon DEF CallerLocation
  <2>2. /\ new \in CallerRecord /\ new.pc = pc /\ new.own = caller[c].own
        /\ new.target = current /\ new.fence = attempts
    <3>. HIDE DEF pc
    <3>. QED BY <2>1, CallerTypes, Zenon DEF IInv, TypeOK, CallerRecord
  <2>3. caller' = [caller EXCEPT ![c] = new]
    BY Zenon DEF CancelRead, CancelTarget
  <2>. HIDE DEF new
  <2>. QED BY <2>2, <2>3, Zenon DEF IInv, TypeOK, CallerMoves
<1>2. AttemptsKept
  BY AttemptsUnchanged, Zenon DEF IInv, CancelRead
<1>3. pc \in {"timedOut", "takeActive", "cancelMark"}
  BY AfterCancelLocation, Zenon
<1>4. FencedOff(c)'
  <2>1. \A a \in Attempt : Alive(a)' => Alive(a)
    BY <1>1, <1>3, Zenon DEF CancelRead, Alive, Unfinished, HoldsGuard, CallerMoves
  <2>2. \A a \in Attempt : Alive(a)' => a = current
    BY <2>1, AliveRegistered, Zenon DEF IInv
  <2>3. Fenced(c)' => current = None
    BY <1>1, Zenon DEF Fenced
  <2>4. Cancelling(c)' => current \in Attempt
    BY <1>1, AfterCancelLocation, Bounds, Zenon DEF Cancelling, IInv, TypeOK
  <2>. QED BY <1>1, <2>2, <2>3, <2>4, Bounds, Zenon DEF FencedOff
<1>5. closed' \in BOOLEAN /\ At(c, "cancelRead")
  BY Zenon DEF CancelRead
<1>6. UNCHANGED <<current, attempts, worker, active, activeLock, handler, running, socket, fence, abandoned>>
  BY Zenon DEF CancelRead, wallet
<1>7. caller'[c].target <= attempts /\ caller'[c].fence <= attempts
  BY <1>1, Bounds DEF IInv, TypeOK, Numbered
<1>. HIDE DEF pc
<1>. QED BY <1>1, <1>2, <1>3, <1>4, <1>5, <1>6, <1>7, CallerStep, Zenon
         DEF IInv, TypeOK, HoldsGuard, At, Awaiting, SocketTaken, HandlerTaken

\* A call that cancels goes on, with the attempt it waits for.
LEMMA CancellingStep ==
  ASSUME IInv, NEW c \in Caller, NEW pc \in {"cancelApi", "cancelBarrier", "cancelJoin"},
         Cancelling(c), Keeps(c, pc), AttemptsKept,
         UNCHANGED <<current, closed, attempts, worker, active, activeLock, handler, running, fence, abandoned>>,
         socket' \subseteq socket
  PROVE  IInv'
<1>1. \A a \in Attempt : Alive(a)' => Alive(a)
  BY Zenon DEF Alive, Unfinished, HoldsGuard, Keeps, CallerMoves
<1>2. FencedOff(c)'
  BY <1>1, Zenon DEF IInv, Fences, FencedOff, Cancelling, Fenced, Keeps
<1>. QED BY <1>2, CallerStep, Known
         DEF IInv, TypeOK, Keeps, HoldsGuard, At, Awaiting, SocketTaken, HandlerTaken, Cancelling

LEMMA CancelMarkInv ==
  ASSUME IInv, NEW c \in Caller, CancelMark(c)
  PROVE  IInv'
<1>1. Keeps(c, "cancelApi") /\ Cancelling(c)
  BY GotoKeeps, Zenon DEF IInv, CancelMark, CallerLocation, Cancelling, At
<1>2. AttemptsKept
  <2>1. caller[c].target \in Attempt
    BY <1>1, Zenon DEF IInv, Fences, FencedOff
  <2>2. TRUE \in BOOLEAN /\ "none" \in {"none", "Ok", "Cancelled"}
    BY Zenon
  <2>3. attempt' = [attempt EXCEPT ![caller[c].target].cancelled = TRUE]
    BY Zenon DEF CancelMark
  <2>. QED BY <2>1, <2>2, <2>3, FlagsKept, Known, Zenon DEF IInv
<1>. QED BY <1>1, <1>2, CancellingStep, Zenon DEF CancelMark, wallet

LEMMA CancelApiInv ==
  ASSUME IInv, NEW c \in Caller, CancelApi(c)
  PROVE  IInv'
<1>1. Keeps(c, "cancelBarrier") /\ Cancelling(c)
  BY GotoKeeps, Zenon DEF IInv, CancelApi, CallerLocation, Cancelling, At
<1>2. AttemptsKept
  BY AttemptsUnchanged, Zenon DEF IInv, CancelApi
<1>3. socket' \subseteq socket
  BY DisconnectedSubset, Zenon DEF CancelApi
<1>. QED BY <1>1, <1>2, <1>3, CancellingStep, Zenon DEF CancelApi

LEMMA CancelBarrierInv ==
  ASSUME IInv, NEW c \in Caller, CancelBarrier(c)
  PROVE  IInv'
<1>1. Keeps(c, "cancelJoin") /\ Cancelling(c)
  BY GotoKeeps, Zenon DEF IInv, CancelBarrier, CallerLocation, Cancelling, At
<1>2. AttemptsKept
  BY AttemptsUnchanged, Zenon DEF IInv, CancelBarrier
<1>. QED BY <1>1, <1>2, CancellingStep, Zenon DEF CancelBarrier, wallet

\* wait_completed: the attempt that was cancelled is not alive any more.
LEMMA CancelJoinInv ==
  ASSUME IInv, NEW c \in Caller, CancelJoin(c)
  PROVE  IInv'
<1>1. PICK pc \in {"timedOut", "takeActive"} : Keeps(c, pc)
  BY AfterCancelLocation, GotoKeeps, Zenon DEF IInv, CancelJoin, CallerLocation
<1>2. AttemptsKept
  BY AttemptsUnchanged, Zenon DEF IInv, CancelJoin
<1>3. FencedOff(c)'
  <2>1. \A a \in Attempt : Alive(a)' => Alive(a)
    BY <1>1, Zenon DEF CancelJoin, Alive, Unfinished, HoldsGuard, Keeps, CallerMoves
  <2>2. Cancelling(c) /\ caller[c].target \in Attempt /\ attempt[caller[c].target].completed
    BY Zenon DEF CancelJoin, At, Cancelling, IInv, Fences, FencedOff
  <2>3. ~Alive(caller[c].target)
    BY <2>2, CompletedDead, Zenon DEF IInv
  <2>4. \A a \in Attempt : a <= caller[c].fence => ~Alive(a)
    BY <2>2, <2>3, Zenon DEF IInv, Fences, FencedOff
  <2>. QED BY <1>1, <2>1, <2>4, Zenon DEF FencedOff, Cancelling, Keeps
<1>. QED BY <1>1, <1>2, <1>3, CallerStep, Known, Zenon
         DEF CancelJoin, IInv, TypeOK, Keeps, HoldsGuard, At, Awaiting, SocketTaken,
             HandlerTaken, wallet

LEMMA ReturnTimeoutInv ==
  ASSUME IInv, NEW c \in Caller, ReturnTimeout(c)
  PROVE  IInv'
<1>1. Forgets(c)
  BY ReturnForgets, Zenon DEF IInv, ReturnTimeout
<1>2. AttemptsKept
  BY AttemptsUnchanged, Zenon DEF ReturnTimeout, IInv
<1>. QED BY <1>1, <1>2, CallerStep, Known, Zenon
         DEF ReturnTimeout, IInv, TypeOK, Forgets, HoldsGuard, At, Awaiting, SocketTaken,
             HandlerTaken, FencedOff, Cancelling, Fenced, wallet, None

-----------------------------------------------------------------------------
(* Dropped futures                                                         *)

\* What a dropped call abandons are attempts.
LEMMA AbandonedAttempts ==
  ASSUME IInv, NEW c \in Caller, abandoned' \in {abandoned, Abandoned(c)}
  PROVE  abandoned \subseteq abandoned' /\ abandoned' \subseteq Attempt
BY CallerTypes, Bounds, Zenon DEF Abandoned, IInv, TypeOK

LEMMA DropGuardedFutureInv ==
  ASSUME IInv, NEW c \in Caller, DropGuardedFuture(c)
  PROVE  IInv'
<1>1. /\ Keeps(c, "dropGuard") /\ AttemptsKept
      /\ caller[c].pc \in {"isOnline", "takeStale", "cleanStale", "staleOffline"}
  BY DropKeeps, AttemptsUnchanged, Zenon DEF DropGuardedFuture, IInv
<1>2. abandoned \subseteq abandoned' /\ abandoned' \subseteq Attempt
  BY AbandonedAttempts, Zenon DEF DropGuardedFuture
<1>3. HandlerTaken(c) => caller[c].target \in abandoned' \cup {None}
  BY <1>1, Zenon DEF DropGuardedFuture, HandlerTaken, Abandoned
<1>4. /\ UNCHANGED <<current, closed, attempts, attempt, worker, active, socket, fence>>
      /\ activeLock' \in BOOLEAN
  BY Zenon DEF DropGuardedFuture, IInv, TypeOK
<1>5. CASE UNCHANGED <<handler, running>>
  BY <1>1, <1>2, <1>3, <1>4, <1>5, AbandoningStep, Known, Zenon
     DEF IInv, TypeOK, Keeps, HoldsGuard, At, Awaiting, SocketTaken, HandlerTaken,
         FencedOff, Cancelling, Fenced
<1>6. CASE At(c, "staleOffline") /\ SetOfflineMode
  <2>1. /\ fence' \in AttemptOrNone /\ fence' <= attempts
        /\ \A a \in Attempt : a <= fence' => ~Alive(a)
    BY <1>4, Zenon DEF IInv, TypeOK, Numbered, Fences
  <2>. QED BY <1>1, <1>2, <1>4, <1>6, <2>1, StoppedInv, Zenon
              DEF SetOfflineMode, HoldsGuard, At, Awaiting, SocketTaken, Cancelling, Fenced, Keeps
<1>. QED BY <1>5, <1>6, Zenon DEF DropGuardedFuture, MayBeOffline

LEMMA DropOnlineFutureInv ==
  ASSUME IInv, NEW c \in Caller, DropOnlineFuture(c)
  PROVE  IInv'
<1>. DEFINE a == caller[c].own
            shut(signal) == IF signal = "sent" THEN signal ELSE "closed"
<1>1. /\ Awaiting(c) /\ a \in Attempt
      /\ worker[a] = "awaitFinalized" => attempt[a].accepted = "sent"
  BY Zenon DEF DropOnlineFuture, Awaiting, IInv, Handshake, CallerInStep, WorkerInStep
<1>2. Forgets(c)
  BY ReturnForgets, Zenon DEF DropOnlineFuture, IInv
<1>3. /\ AttemptMoves(a) /\ attempt'[a].completed = attempt[a].completed
      /\ attempt'[a].finalized = shut(attempt[a].finalized)
      /\ attempt'[a].accepted = shut(attempt[a].accepted)
  <2>. DEFINE x == shut(attempt[a].accepted)
              y == shut(attempt[a].finalized)
              new == [attempt[a] EXCEPT !.result = "closed", !.accepted = x,
                                        !.finalized = y]
  <2>1. /\ new \in AttemptRecord /\ new.completed = attempt[a].completed
        /\ new.finalized = shut(attempt[a].finalized) /\ new.accepted = shut(attempt[a].accepted)
    <3>1. /\ x \in {"open", "sent", "closed"} /\ y \in {"open", "sent", "closed"}
          /\ attempt[a] \in AttemptRecord
      BY <1>1, Zenon DEF IInv, TypeOK, AttemptRecord
    <3>. HIDE DEF x, y
    <3>2. new \in AttemptRecord /\ new.completed = attempt[a].completed
          /\ new.finalized = y /\ new.accepted = x
      BY <3>1, Zenon DEF AttemptRecord
    <3>. QED BY <3>2, Zenon DEF x, y
  <2>2. attempt' = [attempt EXCEPT ![a] = new]
    BY <1>1, Zenon DEF DropOnlineFuture, IInv, TypeOK
  <2>. HIDE DEF new, shut
  <2>. QED BY <1>1, <2>1, <2>2, Zenon DEF IInv, TypeOK, AttemptMoves
<1>4. UNCHANGED <<current, closed, attempts, worker, active, activeLock, handler,
                  running, socket, fence, abandoned>>
  BY Zenon DEF DropOnlineFuture, wallet
<1>5. CallerInStep(c)'
  BY <1>2, Zenon DEF CallerInStep, Awaiting, HoldsGuard, At, Forgets
<1>. QED BY <1>1, <1>2, <1>3, <1>4, <1>5, ChannelStep, Known, Zenon
         DEF Guarded, HoldsGuard, At, SocketTaken, HandlerTaken, Cancelling, Fenced, Forgets, None

LEMMA DropShutdownFutureInv ==
  ASSUME IInv, NEW c \in Caller, DropShutdownFuture(c)
  PROVE  IInv'
<1>1. /\ Forgets(c) /\ AttemptsKept
      /\ caller[c].pc \in {"cancelApi", "cancelBarrier", "cancelJoin", "takeActive",
                           "disconnect", "setOffline"}
  BY ReturnForgets, AttemptsUnchanged, Zenon DEF DropShutdownFuture, IInv
<1>2. abandoned \subseteq abandoned' /\ abandoned' \subseteq Attempt
  BY AbandonedAttempts, Zenon DEF DropShutdownFuture
<1>3. HandlerTaken(c) => caller[c].target \in abandoned' \cup {None}
  BY <1>1, Zenon DEF DropShutdownFuture, HandlerTaken, Abandoned
<1>4. /\ UNCHANGED <<current, closed, attempts, attempt, worker, active, socket, fence>>
      /\ activeLock' \in BOOLEAN /\ closed' \in BOOLEAN
  BY Zenon DEF DropShutdownFuture, IInv, TypeOK
<1>5. CASE UNCHANGED <<handler, running>>
  BY <1>1, <1>2, <1>3, <1>4, <1>5, AbandoningStep, Known, Zenon
     DEF IInv, TypeOK, Forgets, HoldsGuard, At, Awaiting, SocketTaken, HandlerTaken,
         FencedOff, Cancelling, Fenced, None
<1>6. CASE At(c, "setOffline") /\ SetOfflineMode
  <2>1. /\ fence' \in AttemptOrNone /\ fence' <= attempts
        /\ \A a \in Attempt : a <= fence' => ~Alive(a)
    BY <1>4, Zenon DEF IInv, TypeOK, Numbered, Fences
  <2>. QED BY <1>1, <1>2, <1>4, <1>6, <2>1, StoppedInv, Zenon
              DEF SetOfflineMode, HoldsGuard, At, Awaiting, SocketTaken, Cancelling, Fenced, Forgets
<1>. QED BY <1>5, <1>6, Zenon DEF DropShutdownFuture, MayBeOffline

-----------------------------------------------------------------------------
(* The worker of an attempt                                                *)

\* Where a worker has not offered its connection to the call yet.
Early(a) ==
  worker[a] \in {"connecting", "publish", "preflight", "lockActivation", "activating",
                 "activated", "deliver", "rollbackLocked", "rollbackHandlerLocked",
                 "dropFailed"}

\* Up to there the handshake stands still.
LEMMA EarlyHandshake ==
  ASSUME IInv, NEW a \in Attempt, NEW pc \in WorkerLocation, WorkerMoves(a, pc),
         Early(a), Early(a)', AttemptMoves(a), HandshakeKept(a), UNCHANGED caller
  PROVE  Handshake' /\ attempt[a].finalized # "sent"
<1>1. attempt[a].finalized # "sent"
  BY Zenon DEF IInv, Handshake, WorkerInStep, Early
<1>2. ASSUME NEW b \in Attempt PROVE WorkerInStep(b)'
  BY <1>1 DEF IInv, Handshake, WorkerInStep, Early, WorkerMoves, AttemptMoves, HandshakeKept
<1>3. ASSUME NEW d \in Caller PROVE CallerInStep(d)'
  <2>1. /\ CallerInStep(d) /\ (HoldsGuard(d) => caller[d].own \in Attempt)
        /\ caller'[d] = caller[d]
    BY Zenon DEF IInv, Handshake, Registered, Guarded
  <2>2. CASE caller[d].own = a
    BY <2>1, <2>2, Zenon
       DEF CallerInStep, Own, Awaiting, HoldsGuard, At, Early, WorkerMoves, HandshakeKept
  <2>3. CASE caller[d].own # a
    BY <2>1, <2>3, Zenon DEF CallerInStep, Own, Awaiting, HoldsGuard, At, WorkerMoves, AttemptMoves
  <2>. QED BY <2>2, <2>3, Zenon
<1>. QED BY <1>1, <1>2, <1>3, Zenon DEF Handshake

LEMMA AttemptUnchangedMoves ==
  ASSUME IInv, NEW a \in Attempt, UNCHANGED attempt
  PROVE  AttemptMoves(a) /\ HandshakeKept(a)
BY Zenon DEF IInv, TypeOK, AttemptMoves, HandshakeKept

\* A worker that changes a flag of its own attempt.
LEMMA OwnFlagMoves ==
  ASSUME IInv, NEW a \in Attempt, NEW b \in BOOLEAN,
         \/ attempt' = [attempt EXCEPT ![a].activation = b]
         \/ attempt' = [attempt EXCEPT ![a].api = b]
  PROVE  AttemptMoves(a) /\ HandshakeKept(a)
<1>1. ASSUME NEW new \in AttemptRecord, attempt' = [attempt EXCEPT ![a] = new],
             new.completed = attempt[a].completed, new.result = attempt[a].result,
             new.accepted = attempt[a].accepted, new.finalized = attempt[a].finalized
      PROVE  AttemptMoves(a) /\ HandshakeKept(a)
  BY <1>1, Zenon DEF IInv, TypeOK, AttemptMoves, HandshakeKept
<1>2. CASE attempt' = [attempt EXCEPT ![a].activation = b]
  <2>. DEFINE new == [attempt[a] EXCEPT !.activation = b]
  <2>1. /\ new \in AttemptRecord
        /\ new.completed = attempt[a].completed /\ new.result = attempt[a].result
        /\ new.accepted = attempt[a].accepted /\ new.finalized = attempt[a].finalized
    BY DEF IInv, TypeOK, AttemptRecord
  <2>2. attempt' = [attempt EXCEPT ![a] = new]
    BY <1>2, Zenon
  <2>. HIDE DEF new
  <2>. QED BY <1>1, <2>1, <2>2, Zenon
<1>3. CASE attempt' = [attempt EXCEPT ![a].api = b]
  <2>. DEFINE new == [attempt[a] EXCEPT !.api = b]
  <2>1. /\ new \in AttemptRecord
        /\ new.completed = attempt[a].completed /\ new.result = attempt[a].result
        /\ new.accepted = attempt[a].accepted /\ new.finalized = attempt[a].finalized
    <3>1. attempt[a] \in AttemptRecord
      BY Zenon DEF IInv, TypeOK
    <3>2. new \in AttemptRecord
      BY <3>1 DEF AttemptRecord
    <3>. QED BY <3>1, <3>2, Zenon DEF AttemptRecord
  <2>2. attempt' = [attempt EXCEPT ![a] = new]
    BY <1>3, Zenon
  <2>. HIDE DEF new
  <2>. QED BY <1>1, <2>1, <2>2, Zenon
<1>. QED BY <1>2, <1>3, Zenon

\* A step on the way to the activation, which may open or close the socket.
LEMMA EarlyStep ==
  ASSUME IInv, NEW a \in Attempt, NEW pc \in WorkerLocation, WorkerMoves(a, pc),
         Early(a), Early(a)', AttemptMoves(a), HandshakeKept(a),
         UNCHANGED <<current, closed, attempts, caller, active, activeLock, fence, abandoned>>,
         running' \in BOOLEAN,
         socket' \subseteq socket \cup {a},
         a \in socket' => SocketOpen(a)' \/ (a \in socket /\ ~SocketOpen(a)),
         \/ handler' = handler /\ (HandlerOpen(a) <=> HandlerOpen(a)')
         \/ handler' = a /\ HandlerOpen(a)'
         \/ handler' = None
  PROVE  IInv'
<1>1. Handshake' /\ attempt[a].finalized # "sent"
  BY EarlyHandshake, Zenon
<1>2. Unfinished(a) /\ Unfinished(a)'
  BY Zenon DEF Early, Unfinished
<1>3. HandlerOpen(a) => handler \in {None, a}
  BY Zenon DEF IInv, Covered
<1>4. a \in socket' => \/ attempt[a].finalized # "sent" /\ SocketOpen(a)'
                       \/ a \in socket /\ ~SocketOpen(a)
  BY <1>1, Zenon
<1>5. /\ handler' \in {None, handler, a}
      /\ HandlerOpen(a)' => handler' \in {None, a}
  BY <1>3, Zenon
<1>6. handler' = a => \/ attempt[a].finalized # "sent" /\ HandlerOpen(a)'
                      \/ handler = a /\ ~HandlerOpen(a)
  BY <1>1, <1>3, Bounds, Zenon
<1>7. /\ attempt'[a].completed = attempt[a].completed
      /\ attempt'[a].finalized = attempt[a].finalized
  BY Zenon DEF HandshakeKept
<1>. QED BY <1>1, <1>2, <1>4, <1>5, <1>6, <1>7, WorkingStep, Zenon

LEMMA WorkerConnectInv ==
  ASSUME IInv, NEW a \in Attempt, WorkerConnect(a)
  PROVE  IInv'
<1>1. PICK pc \in {"dropFailed", "publish"} :
        /\ WorkerMoves(a, pc) /\ socket' \subseteq socket \cup {a}
        /\ pc = "dropFailed" => UNCHANGED socket
  BY WorkerGotoMoves, Zenon DEF WorkerConnect, IInv, WorkerLocation
<1>2. AttemptMoves(a) /\ HandshakeKept(a)
  BY AttemptUnchangedMoves, Zenon DEF WorkerConnect
<1>3. pc \in WorkerLocation
  BY Zenon DEF WorkerLocation
<1>. QED BY <1>1, <1>2, <1>3, EarlyStep, Zenon
         DEF WorkerConnect, WorkerAt, WorkerMoves, IInv, TypeOK, Early, SocketOpen, HandlerOpen,
             others

LEMMA WorkerPublishInv ==
  ASSUME IInv, NEW a \in Attempt, WorkerPublish(a)
  PROVE  IInv'
<1>1. WorkerMoves(a, "preflight") /\ "preflight" \in WorkerLocation
  BY WorkerGotoMoves, Zenon DEF WorkerPublish, IInv, WorkerLocation
<1>2. AttemptMoves(a) /\ HandshakeKept(a)
  BY OwnFlagMoves, Zenon DEF WorkerPublish
<1>4. /\ UNCHANGED <<current, closed, attempts, caller, active, activeLock, fence, abandoned, handler>>
      /\ running' \in BOOLEAN /\ socket' \subseteq socket \cup {a}
  BY <1>1, Zenon DEF WorkerPublish, IInv, TypeOK, others, wallet
<1>5. /\ Early(a) /\ Early(a)' /\ (HandlerOpen(a) <=> HandlerOpen(a)')
      /\ a \in socket' => SocketOpen(a)'
  BY <1>1, Zenon DEF WorkerPublish, WorkerAt, WorkerMoves, Early, SocketOpen, HandlerOpen
<1>. QED BY <1>1, <1>2, <1>4, <1>5, EarlyStep, Zenon

LEMMA WorkerPreflightInv ==
  ASSUME IInv, NEW a \in Attempt, WorkerPreflight(a)
  PROVE  IInv'
<1>1. PICK pc \in {"dropFailed", "lockActivation"} :
        /\ WorkerMoves(a, pc) /\ socket' \subseteq socket
        /\ pc = "dropFailed" => a \notin socket'
  BY WorkerGotoMoves, DisconnectedSubset, Zenon DEF WorkerPreflight, IInv, WorkerLocation
<1>2. AttemptMoves(a) /\ HandshakeKept(a)
  BY AttemptUnchangedMoves, Zenon DEF WorkerPreflight
<1>3. pc \in WorkerLocation
  BY Zenon DEF WorkerLocation
<1>4. /\ UNCHANGED <<current, closed, attempts, caller, active, activeLock, fence, abandoned, handler>>
      /\ running' \in BOOLEAN /\ socket' \subseteq socket \cup {a}
  BY <1>1, Zenon DEF WorkerPreflight, IInv, TypeOK, others, wallet
<1>5. /\ Early(a) /\ Early(a)' /\ (HandlerOpen(a) <=> HandlerOpen(a)')
      /\ a \in socket' => SocketOpen(a)'
  BY <1>1, Zenon DEF WorkerPreflight, WorkerAt, WorkerMoves, Early, SocketOpen, HandlerOpen
<1>. QED BY <1>1, <1>2, <1>3, <1>4, <1>5, EarlyStep, Zenon

LEMMA WorkerLockActivationInv ==
  ASSUME IInv, NEW a \in Attempt, WorkerLockActivation(a)
  PROVE  IInv'
<1>1. PICK pc \in {"dropFailed", "activating"} :
        /\ WorkerMoves(a, pc) /\ socket' \subseteq socket
        /\ pc = "dropFailed" => a \notin socket'
  BY WorkerGotoMoves, DisconnectedSubset, Zenon DEF WorkerLockActivation, IInv, WorkerLocation
<1>2. AttemptMoves(a) /\ HandshakeKept(a)
  BY AttemptUnchangedMoves, OwnFlagMoves, Zenon DEF WorkerLockActivation
<1>3. pc \in WorkerLocation
  BY Zenon DEF WorkerLocation
<1>4. /\ UNCHANGED <<current, closed, attempts, caller, active, activeLock, fence, abandoned, handler>>
      /\ running' \in BOOLEAN /\ socket' \subseteq socket \cup {a}
  BY <1>1, Zenon DEF WorkerLockActivation, IInv, TypeOK, others, wallet
<1>5. /\ Early(a) /\ Early(a)' /\ (HandlerOpen(a) <=> HandlerOpen(a)')
      /\ a \in socket' => SocketOpen(a)'
  BY <1>1, Zenon DEF WorkerLockActivation, WorkerAt, WorkerMoves, Early, SocketOpen, HandlerOpen
<1>. QED BY <1>1, <1>2, <1>3, <1>4, <1>5, EarlyStep, Zenon

LEMMA WorkerActivateInv ==
  ASSUME IInv, NEW a \in Attempt, WorkerActivate(a)
  PROVE  IInv'
<1>1. PICK pc \in {"dropFailed", "activated"} :
        /\ WorkerMoves(a, pc) /\ socket' \subseteq socket /\ running' \in BOOLEAN
        /\ pc = "dropFailed" => a \notin socket' /\ handler' = handler
        /\ pc = "activated" => handler' = a
  BY WorkerGotoMoves, DisconnectedSubset, Zenon DEF WorkerActivate, IInv, TypeOK, WorkerLocation
<1>2. AttemptMoves(a) /\ HandshakeKept(a)
  BY AttemptUnchangedMoves, OwnFlagMoves, Zenon DEF WorkerActivate
<1>3. pc \in WorkerLocation
  BY Zenon DEF WorkerLocation
<1>4. UNCHANGED <<current, closed, attempts, caller, active, activeLock, fence, abandoned>>
  BY Zenon DEF WorkerActivate, others
<1>5. /\ Early(a) /\ Early(a)' /\ ~HandlerOpen(a) /\ (pc = "activated" <=> HandlerOpen(a)')
      /\ a \in socket' => SocketOpen(a)'
  BY <1>1, Zenon DEF WorkerActivate, WorkerAt, WorkerMoves, Early, SocketOpen, HandlerOpen
<1>. QED BY <1>1, <1>2, <1>3, <1>4, <1>5, EarlyStep, Zenon

LEMMA WorkerActivatedInv ==
  ASSUME IInv, NEW a \in Attempt, WorkerActivated(a)
  PROVE  IInv'
<1>1. PICK pc \in {"rollbackLocked", "deliver"} : WorkerMoves(a, pc)
  BY WorkerGotoMoves, Zenon DEF WorkerActivated, IInv, WorkerLocation
<1>2. AttemptMoves(a) /\ HandshakeKept(a)
  BY AttemptUnchangedMoves, OwnFlagMoves, Zenon DEF WorkerActivated
<1>3. pc \in WorkerLocation
  BY Zenon DEF WorkerLocation
<1>4. /\ UNCHANGED <<current, closed, attempts, caller, active, activeLock, fence, abandoned, handler>>
      /\ running' \in BOOLEAN /\ socket' \subseteq socket \cup {a}
  BY <1>1, Zenon DEF WorkerActivated, IInv, TypeOK, others, wallet
<1>5. /\ Early(a) /\ Early(a)' /\ (HandlerOpen(a) <=> HandlerOpen(a)')
      /\ a \in socket' => SocketOpen(a)'
  BY <1>1, Zenon DEF WorkerActivated, WorkerAt, WorkerMoves, Early, SocketOpen, HandlerOpen
<1>. QED BY <1>1, <1>2, <1>3, <1>4, <1>5, EarlyStep, Zenon

\* The handshake after a step of the worker that changes at most the result.
LEMMA LateHandshake ==
  ASSUME IInv, NEW a \in Attempt, NEW pc \in WorkerLocation, WorkerMoves(a, pc),
         worker[a] # "none", pc # "none", AttemptMoves(a),
         attempt'[a].accepted = attempt[a].accepted,
         attempt'[a].finalized = attempt[a].finalized,
         \A c \in Caller : At(c, "awaitResult") /\ caller[c].own = a =>
           (attempt'[a].result = "ok" => pc = "awaitAccepted"),
         attempt[a].accepted = "sent" /\ attempt[a].finalized = "open"
             /\ worker[a] \in {"awaitAccepted", "awaitFinalized"}
           => pc \in {"awaitAccepted", "awaitFinalized"},
         WorkerInStep(a)', UNCHANGED caller
  PROVE  Handshake'
<1>1. ASSUME NEW b \in Attempt PROVE WorkerInStep(b)'
  BY Zenon DEF IInv, Handshake, WorkerInStep, WorkerMoves, AttemptMoves
<1>2. ASSUME NEW d \in Caller PROVE CallerInStep(d)'
  <2>1. /\ CallerInStep(d) /\ caller'[d] = caller[d]
        /\ HoldsGuard(d) => caller[d].own \in Attempt /\ worker[caller[d].own] = "none"
    BY Zenon DEF IInv, Handshake, Registered, Guarded
  <2>2. CASE caller[d].own = a
    BY <2>1, <2>2, Zenon DEF CallerInStep, Own, Awaiting, HoldsGuard, At, WorkerMoves
  <2>3. CASE caller[d].own # a
    BY <2>1, <2>3, Zenon DEF CallerInStep, Own, Awaiting, HoldsGuard, At, WorkerMoves, AttemptMoves
  <2>. QED BY <2>2, <2>3, Zenon
<1>. QED BY <1>1, <1>2, Zenon DEF Handshake

\* The same when the worker only moves, past a call that waits for the result.
LEMMA QuietHandshake ==
  ASSUME IInv, NEW a \in Attempt, NEW pc \in WorkerLocation, WorkerMoves(a, pc),
         worker[a] # "none", pc # "none", UNCHANGED <<attempt, caller>>,
         worker[a] = "awaitAccepted" => attempt[a].accepted # "open",
         attempt[a].accepted = "sent" /\ attempt[a].finalized = "open"
             /\ worker[a] \in {"awaitAccepted", "awaitFinalized"}
           => pc \in {"awaitAccepted", "awaitFinalized"},
         WorkerInStep(a)'
  PROVE  Handshake'
<1>1. ASSUME NEW c \in Caller, At(c, "awaitResult"), caller[c].own = a
      PROVE  attempt[a].result # "ok"
  BY <1>1, Zenon DEF IInv, Handshake, CallerInStep, Own
<1>2. AttemptMoves(a)
  BY AttemptUnchangedMoves, Zenon
<1>. QED BY <1>1, <1>2, LateHandshake, Zenon

LEMMA WorkerDeliverInv ==
  ASSUME IInv, NEW a \in Attempt, WorkerDeliver(a)
  PROVE  IInv'
<1>0. /\ worker[a] = "deliver" /\ attempt[a].finalized # "sent"
      /\ UNCHANGED <<current, closed, attempts, caller, active, activeLock, fence, abandoned, handler,
                     running, socket>>
  BY Zenon DEF WorkerDeliver, WorkerAt, IInv, Handshake, WorkerInStep, others, wallet
<1>1. CASE attempt[a].result = "open"
  <2>1. WorkerMoves(a, "awaitAccepted") /\ "awaitAccepted" \in WorkerLocation
    BY <1>1, WorkerGotoMoves, Zenon DEF WorkerDeliver, IInv, WorkerLocation
  <2>2. /\ AttemptMoves(a) /\ attempt'[a].completed = attempt[a].completed
        /\ attempt'[a].accepted = attempt[a].accepted
        /\ attempt'[a].finalized = attempt[a].finalized
    <3>. DEFINE new == [attempt[a] EXCEPT !.result = "ok"]
    <3>1. /\ new \in AttemptRecord /\ new.completed = attempt[a].completed
          /\ new.accepted = attempt[a].accepted /\ new.finalized = attempt[a].finalized
      BY DEF IInv, TypeOK, AttemptRecord
    <3>2. attempt' = [attempt EXCEPT ![a] = new]
      BY <1>1, Zenon DEF WorkerDeliver
    <3>. HIDE DEF new
    <3>. QED BY <3>1, <3>2, Zenon DEF IInv, TypeOK, AttemptMoves
  <2>3. Handshake'
    <3>1. WorkerInStep(a)'
      BY <1>0, <2>1, <2>2, Zenon DEF WorkerInStep, WorkerMoves
    <3>. QED BY <1>0, <2>1, <2>2, <3>1, LateHandshake, Zenon
  <2>4. /\ Unfinished(a) /\ Unfinished(a)' /\ SocketOpen(a)' /\ HandlerOpen(a) /\ HandlerOpen(a)'
    BY <1>0, <2>1, Zenon DEF Unfinished, SocketOpen, HandlerOpen, WorkerMoves
  <2>5. handler \in {None, a} /\ running \in BOOLEAN
    BY <2>4, Zenon DEF IInv, TypeOK, Covered
  <2>. QED BY <1>0, <2>1, <2>2, <2>3, <2>4, <2>5, WorkingStep, Zenon
<1>2. CASE attempt[a].result # "open"
  <2>1. WorkerMoves(a, "rollback") /\ UNCHANGED attempt /\ "rollback" \in WorkerLocation
    BY <1>2, WorkerGotoMoves, Zenon DEF WorkerDeliver, IInv, WorkerLocation
  <2>2. WorkerInStep(a)'
    BY <1>0, <2>1, Zenon DEF WorkerInStep, WorkerMoves
  <2>3. Handshake'
    BY <1>0, <2>1, <2>2, QuietHandshake, Zenon
  <2>4. /\ Unfinished(a) /\ Unfinished(a)' /\ SocketOpen(a)' /\ HandlerOpen(a) /\ HandlerOpen(a)'
    BY <1>0, <2>1, Zenon DEF Unfinished, SocketOpen, HandlerOpen, WorkerMoves
  <2>5. handler \in {None, a} /\ running \in BOOLEAN
    BY <2>4, Zenon DEF IInv, TypeOK, Covered
  <2>6. AttemptMoves(a)
    BY <2>1, AttemptUnchangedMoves, Zenon
  <2>. QED BY <1>0, <2>1, <2>3, <2>4, <2>5, <2>6, WorkingStep, Zenon
<1>. QED BY <1>1, <1>2, Zenon

LEMMA WorkerAwaitAcceptedInv ==
  ASSUME IInv, NEW a \in Attempt, WorkerAwaitAccepted(a)
  PROVE  IInv'
<1>0. /\ worker[a] = "awaitAccepted" /\ attempt[a].accepted # "open"
      /\ UNCHANGED <<current, closed, attempts, attempt, caller, active, activeLock, fence,
                     abandoned, handler, running, socket>>
  BY Zenon DEF WorkerAwaitAccepted, WorkerAt, others, wallet
<1>1. PICK pc \in {"awaitFinalized", "rollback"} :
        WorkerMoves(a, pc) /\ (pc = "awaitFinalized" <=> attempt[a].accepted = "sent")
  BY WorkerGotoMoves, Zenon DEF WorkerAwaitAccepted, Acknowledged, IInv, WorkerLocation
<1>2. pc \in WorkerLocation /\ pc # "none"
  BY Zenon DEF WorkerLocation
<1>3. WorkerInStep(a)'
  BY <1>0, <1>1, Zenon DEF WorkerInStep, WorkerMoves
<1>4. Handshake'
  BY <1>0, <1>1, <1>2, <1>3, QuietHandshake, Zenon
<1>5. /\ Unfinished(a) /\ Unfinished(a)' /\ SocketOpen(a)' /\ HandlerOpen(a) /\ HandlerOpen(a)'
  BY <1>0, <1>1, Zenon DEF Unfinished, SocketOpen, HandlerOpen, WorkerMoves
<1>6. handler \in {None, a} /\ running \in BOOLEAN
  BY <1>5, Zenon DEF IInv, TypeOK, Covered
<1>7. AttemptMoves(a)
  BY <1>0, AttemptUnchangedMoves, Zenon
<1>. QED BY <1>0, <1>1, <1>2, <1>4, <1>5, <1>6, <1>7, WorkingStep, Zenon

LEMMA WorkerAwaitFinalizedInv ==
  ASSUME IInv, NEW a \in Attempt, WorkerAwaitFinalized(a)
  PROVE  IInv'
<1>0. /\ worker[a] = "awaitFinalized" /\ attempt[a].finalized # "open"
      /\ attempt[a].accepted = "sent"
      /\ UNCHANGED <<current, closed, attempts, attempt, caller, active, activeLock, fence,
                     abandoned, handler, running, socket>>
  BY Zenon DEF WorkerAwaitFinalized, WorkerAt, IInv, Handshake, WorkerInStep, others, wallet
<1>1. PICK pc \in {"drop", "rollback"} :
        WorkerMoves(a, pc) /\ (pc = "drop" => attempt[a].finalized = "sent")
  BY WorkerGotoMoves, Zenon DEF WorkerAwaitFinalized, Acknowledged, IInv, WorkerLocation
<1>2. pc \in WorkerLocation /\ pc # "none"
  BY Zenon DEF WorkerLocation
<1>3. WorkerInStep(a)'
  BY <1>0, <1>1, Zenon DEF WorkerInStep, WorkerMoves
<1>4. Handshake'
  BY <1>0, <1>1, <1>2, <1>3, QuietHandshake, Zenon
<1>5. /\ Unfinished(a) /\ Unfinished(a)' /\ HandlerOpen(a)
      /\ attempt[a].finalized # "sent" => SocketOpen(a)' /\ HandlerOpen(a)'
  BY <1>0, <1>1, Zenon DEF Unfinished, SocketOpen, HandlerOpen, WorkerMoves
<1>6. handler \in {None, a} /\ running \in BOOLEAN
  BY <1>5, Zenon DEF IInv, TypeOK, Covered
<1>7. AttemptMoves(a)
  BY <1>0, AttemptUnchangedMoves, Zenon
<1>. QED BY <1>0, <1>1, <1>2, <1>4, <1>5, <1>6, <1>7, WorkingStep, Zenon

LEMMA WorkerRollbackSocketInv ==
  ASSUME IInv, NEW a \in Attempt, WorkerRollbackSocket(a)
  PROVE  IInv'
<1>0. /\ UNCHANGED <<current, closed, attempts, attempt, caller, active, activeLock, fence,
                     abandoned,
                     handler, running>>
      /\ socket' \subseteq socket /\ a \notin socket' /\ running \in BOOLEAN
  BY DisconnectedSubset, Zenon DEF WorkerRollbackSocket, others, IInv, TypeOK
<1>1. PICK pc \in {"rollbackHandler", "rollbackHandlerLocked"} :
        /\ WorkerMoves(a, pc) /\ worker[a] \in {"rollback", "rollbackLocked"}
        /\ worker[a] = "rollback" => pc = "rollbackHandler"
  BY WorkerGotoMoves, Zenon DEF WorkerRollbackSocket, WorkerAt, IInv, WorkerLocation
<1>2. pc \in WorkerLocation /\ pc # "none"
  BY Zenon DEF WorkerLocation
<1>3. WorkerInStep(a)'
  BY <1>0, <1>1, Zenon DEF IInv, Handshake, WorkerInStep, WorkerMoves
<1>4. Handshake'
  BY <1>0, <1>1, <1>2, <1>3, QuietHandshake, Zenon
<1>5. /\ Unfinished(a) /\ Unfinished(a)' /\ HandlerOpen(a) /\ HandlerOpen(a)'
  BY <1>0, <1>1, Zenon DEF Unfinished, HandlerOpen, WorkerMoves
<1>6. handler \in {None, a}
  BY <1>5, Zenon DEF IInv, Covered
<1>7. AttemptMoves(a)
  BY <1>0, AttemptUnchangedMoves, Zenon
<1>. QED BY <1>0, <1>1, <1>2, <1>4, <1>5, <1>6, <1>7, WorkingStep, Zenon

LEMMA WorkerRollbackHandlerInv ==
  ASSUME IInv, NEW a \in Attempt, WorkerRollbackHandler(a)
  PROVE  IInv'
<1>0. /\ UNCHANGED <<current, closed, attempts, caller, active, activeLock, fence, abandoned,
                     socket>>
      /\ handler' = None /\ running' \in BOOLEAN
  BY Zenon DEF WorkerRollbackHandler, SetOfflineMode, others
<1>1. CASE WorkerAt(a, "rollbackHandler")
  <2>1. WorkerMoves(a, "drop") /\ UNCHANGED attempt /\ "drop" \in WorkerLocation
    BY <1>1, WorkerGotoMoves, Zenon DEF WorkerRollbackHandler, WorkerAt, IInv, WorkerLocation
  <2>2. WorkerInStep(a)'
    BY <1>1, <2>1, Zenon DEF IInv, Handshake, WorkerInStep, WorkerMoves
  <2>3. Handshake'
    BY <1>0, <1>1, <2>1, <2>2, QuietHandshake, Zenon DEF WorkerAt
  <2>4. Unfinished(a) /\ Unfinished(a)' /\ ~SocketOpen(a) /\ ~HandlerOpen(a)' /\ a # None
    BY <1>1, <2>1, Bounds, Zenon DEF Unfinished, SocketOpen, HandlerOpen, WorkerAt, WorkerMoves
  <2>5. AttemptMoves(a)
    BY <2>1, AttemptUnchangedMoves, Zenon
  <2>. QED BY <1>0, <2>1, <2>3, <2>4, <2>5, WorkingStep, Zenon
<1>2. CASE WorkerAt(a, "rollbackHandlerLocked")
  <2>1. WorkerMoves(a, "dropFailed") /\ "dropFailed" \in WorkerLocation
    BY <1>2, WorkerGotoMoves, Zenon DEF WorkerRollbackHandler, WorkerAt, IInv, WorkerLocation
  <2>2. AttemptMoves(a) /\ HandshakeKept(a)
    BY <1>2, OwnFlagMoves, Zenon DEF WorkerRollbackHandler, WorkerAt
  <2>3. Early(a) /\ Early(a)' /\ ~SocketOpen(a)
    BY <1>2, <2>1, Zenon DEF Early, SocketOpen, WorkerAt, WorkerMoves
  <2>. QED BY <1>0, <2>1, <2>2, <2>3, EarlyStep, Zenon
<1>. QED BY <1>1, <1>2, Zenon DEF WorkerRollbackHandler

\* A worker that drops its guard, clears the registration or reports its failure.
LEMMA EndingStep ==
  ASSUME IInv, NEW a \in Attempt, NEW pc \in WorkerLocation, WorkerMoves(a, pc),
         worker[a] \in {"drop", "dropFailed", "clear", "clearFailed", "fail"},
         pc \in {"clear", "clearFailed", "fail", "done"},
         worker[a] \in {"drop", "clear"} => pc \in {"clear", "done"},
         AttemptMoves(a),
         attempt'[a].accepted = attempt[a].accepted,
         attempt'[a].finalized = attempt[a].finalized,
         attempt'[a].result = "ok" => attempt[a].result = "ok",
         UNCHANGED <<closed, attempts, caller, active, activeLock, handler, running, socket, fence, abandoned>>,
         \/ current' = current /\ (Running(a)' => Running(a))
         \/ current' = None /\ current = a /\ ~Running(a)'
  PROVE  IInv'
<1>0. /\ a <= attempts /\ a \in Nat /\ attempts \in Nat /\ worker[a] # "none" /\ pc # "none"
      /\ ~Unfinished(a)' /\ a # None
  <2>1. a <= attempts /\ a \in Nat /\ attempts \in Nat /\ a # None
    BY Spawned, Zenon
  <2>. QED BY <2>1, Zenon DEF WorkerMoves, Unfinished
<1>1. TypeOK'
  BY Bounds, Zenon DEF IInv, TypeOK, WorkerMoves, AttemptMoves
<1>2. Numbered'
  <2>1. ~(a > attempts) /\ None <= attempts
    BY <1>0 DEF None
  <2>. QED BY <2>1, Zenon DEF IInv, Numbered, WorkerMoves, AttemptMoves
<1>3. Registered'
  <2>1. \A b \in Attempt : Running(b)' => Running(b) /\ current' = current
    BY Zenon DEF IInv, Registered, Running, WorkerMoves
  <2>2. \A b \in Attempt : Unfinished(b)' => b # a /\ Unfinished(b)
    BY <1>0, Zenon DEF Unfinished, WorkerMoves
  <2>3. \A c \in Caller : Guarded(c)' =>
          Guarded(c) /\ caller[c].own # a /\ current # a /\ worker[caller[c].own] = "none"
    BY <1>0 DEF IInv, Registered, Guarded, HoldsGuard, At
  <2>. QED BY <2>1, <2>2, <2>3, Zenon DEF IInv, Registered, WorkerMoves, AttemptMoves
<1>4. Handshake'
  <2>1. WorkerInStep(a)'
    BY Zenon DEF IInv, Handshake, WorkerInStep, WorkerMoves
  <2>2. ASSUME NEW c \in Caller, At(c, "awaitResult"), caller[c].own = a
        PROVE  attempt'[a].result # "ok"
    BY <2>2, Zenon DEF IInv, Handshake, CallerInStep, Own
  <2>. QED BY <1>0, <2>1, <2>2, LateHandshake, Zenon
<1>5. ActiveFree'
  BY <1>0, Zenon DEF IInv, ActiveFree, Unfinished, WorkerMoves, AttemptMoves
<1>6. Covered'
  <2>1. \A b \in Attempt : /\ SocketOpen(b)' <=> SocketOpen(b)
                           /\ HandlerOpen(b)' <=> HandlerOpen(b)
                           /\ attempt'[b].finalized = attempt[b].finalized
    BY Zenon DEF WorkerMoves, AttemptMoves, SocketOpen, HandlerOpen
  <2>2. ASSUME NEW b \in socket PROVE SocketCover(b)'
    <3>1. b \in Attempt /\ SocketCover(b)
      BY Zenon DEF IInv, TypeOK, Covered
    <3>. QED BY <2>1, <3>1, Zenon DEF SocketCover, SocketTaken
  <2>3. ASSUME handler # None PROVE HandlerCover(handler)'
    <3>1. handler \in Attempt /\ HandlerCover(handler)
      BY <2>3, Bounds, Zenon DEF IInv, TypeOK, Covered
    <3>. QED BY <2>1, <3>1, Zenon DEF HandlerCover, HandlerTaken
  <2>. QED BY <2>1, <2>2, <2>3, Zenon DEF IInv, Covered
<1>7. Fences'
  <2>1. \A b \in Attempt : Alive(b)' => Alive(b)
    BY <1>0, Zenon DEF Alive, Unfinished, WorkerMoves, HoldsGuard
  <2>2. OfflineFence'
    BY Zenon DEF IInv, Fences, OfflineFence
  <2>. QED BY <2>1, <2>2, FencesStep, Zenon
<1>. QED BY <1>1, <1>2, <1>3, <1>4, <1>5, <1>6, <1>7, Zenon DEF IInv

LEMMA WorkerCompleteInv ==
  ASSUME IInv, NEW a \in Attempt, WorkerComplete(a)
  PROVE  IInv'
<1>1. PICK pc \in {"clear", "clearFailed"} :
        /\ WorkerMoves(a, pc) /\ worker[a] \in {"drop", "dropFailed"}
        /\ worker[a] = "drop" => pc = "clear"
  BY WorkerGotoMoves, Zenon DEF WorkerComplete, WorkerAt, IInv, WorkerLocation
<1>2. /\ AttemptMoves(a) /\ attempt'[a].result = attempt[a].result
      /\ attempt'[a].accepted = attempt[a].accepted
      /\ attempt'[a].finalized = attempt[a].finalized
  <2>. DEFINE new == [attempt[a] EXCEPT !.completed = TRUE]
  <2>1. /\ new \in AttemptRecord /\ new.result = attempt[a].result
        /\ new.accepted = attempt[a].accepted /\ new.finalized = attempt[a].finalized
    BY CompletedRecord, Zenon DEF IInv, TypeOK
  <2>2. attempt' = [attempt EXCEPT ![a] = new]
    BY Zenon DEF WorkerComplete
  <2>. HIDE DEF new
  <2>. QED BY <2>1, <2>2, Zenon DEF IInv, TypeOK, AttemptMoves
<1>3. pc \in WorkerLocation /\ Running(a)
  BY <1>1, Zenon DEF WorkerLocation, Running
<1>4. UNCHANGED <<current, closed, attempts, caller, active, activeLock, handler, running,
                  socket, fence, abandoned>>
  BY Zenon DEF WorkerComplete, others, wallet
<1>. QED BY <1>1, <1>2, <1>3, <1>4, EndingStep, Zenon

LEMMA WorkerClearInv ==
  ASSUME IInv, NEW a \in Attempt, WorkerClear(a)
  PROVE  IInv'
<1>1. PICK pc \in {"done", "fail"} :
        /\ WorkerMoves(a, pc) /\ worker[a] \in {"clear", "clearFailed"}
        /\ worker[a] = "clear" => pc = "done"
  BY WorkerGotoMoves, Zenon DEF WorkerClear, WorkerAt, IInv, WorkerLocation
<1>2. AttemptMoves(a) /\ HandshakeKept(a)
  BY AttemptUnchangedMoves, Zenon DEF WorkerClear
<1>3. pc \in WorkerLocation /\ ~Running(a)' /\ current = a
  BY <1>1, Zenon DEF WorkerLocation, Running, WorkerMoves, IInv, Registered
<1>4. /\ current' = None
      /\ UNCHANGED <<closed, attempts, caller, active, activeLock, handler, running, socket, fence, abandoned>>
  BY <1>3, Zenon DEF WorkerClear, Released, wallet
<1>. QED BY <1>1, <1>2, <1>3, <1>4, EndingStep, Zenon DEF HandshakeKept

LEMMA WorkerFailInv ==
  ASSUME IInv, NEW a \in Attempt, WorkerFail(a)
  PROVE  IInv'
<1>1. WorkerMoves(a, "done") /\ worker[a] = "fail" /\ "done" \in WorkerLocation
  BY WorkerGotoMoves, Zenon DEF WorkerFail, WorkerAt, IInv, WorkerLocation
<1>2. /\ AttemptMoves(a) /\ (attempt'[a].result = "ok" => attempt[a].result = "ok")
      /\ attempt'[a].accepted = attempt[a].accepted
      /\ attempt'[a].finalized = attempt[a].finalized
  <2>. DEFINE r == IF attempt[a].result = "open" THEN "err" ELSE attempt[a].result
              new == [attempt[a] EXCEPT !.result = r]
  <2>1. r \in {"open", "ok", "err", "closed"} /\ (r = "ok" => attempt[a].result = "ok")
    BY Zenon DEF IInv, TypeOK, AttemptRecord
  <2>2. attempt' = [attempt EXCEPT ![a] = new]
    BY Zenon DEF WorkerFail, IInv, TypeOK
  <2>. HIDE DEF r
  <2>3. /\ new \in AttemptRecord /\ new.result = r
        /\ new.accepted = attempt[a].accepted /\ new.finalized = attempt[a].finalized
    BY <2>1 DEF IInv, TypeOK, AttemptRecord
  <2>. HIDE DEF new
  <2>. QED BY <2>1, <2>2, <2>3, Zenon DEF IInv, TypeOK, AttemptMoves
<1>3. ~Running(a)'
  BY <1>1, Zenon DEF Running, WorkerMoves
<1>4. UNCHANGED <<current, closed, attempts, caller, active, activeLock, handler, running,
                  socket, fence, abandoned>>
  BY Zenon DEF WorkerFail, others, wallet
<1>. QED BY <1>1, <1>2, <1>3, <1>4, EndingStep, Zenon

-----------------------------------------------------------------------------
(* The specification                                                       *)

LEMMA HandlerFlapsInv ==
  ASSUME IInv, HandlerFlaps
  PROVE  IInv'
BY RunningUnread, Zenon DEF HandlerFlaps, IInv, TypeOK

LEMMA InitInv == Init => IInv
<1>. SUFFICES ASSUME Init PROVE IInv
  OBVIOUS
<1>1. NewAttempt \in AttemptRecord /\ IdleCaller \in CallerRecord
  BY Bounds, Zenon
     DEF NewAttempt, AttemptRecord, IdleCaller, CallerRecord, CallerLocation, None
<1>2. TypeOK
  BY <1>1, Bounds, Zenon DEF Init, TypeOK, WorkerLocation, None
<1>3. \A c \in Caller : /\ caller[c].pc = "idle" /\ caller[c].own = None
                        /\ caller[c].target = None /\ caller[c].fence = 0
  BY Zenon DEF Init, IdleCaller
<1>4. \A a \in Attempt : worker[a] = "none" /\ attempt[a] = NewAttempt
                           /\ attempt[a].finalized = "open"
  BY Zenon DEF Init, NewAttempt
<1>5. Numbered
  BY <1>3, <1>4 DEF Init, Numbered, None
<1>6. Registered
  BY <1>3, <1>4, Zenon DEF Registered, Running, Unfinished, Guarded, HoldsGuard, At
<1>7. Handshake
  BY <1>3, <1>4, Zenon DEF Handshake, WorkerInStep, CallerInStep, HoldsGuard, Awaiting, At
<1>8. ActiveFree
  BY <1>3, <1>4, Zenon DEF Init, ActiveFree
<1>9. Covered
  BY <1>4, Zenon DEF Init, Covered, HandlerOpen
<1>10. Fences
  BY <1>3, <1>4 DEF Init, Fences, OfflineFence, FencedOff, Cancelling, Fenced, Alive, Unfinished,
                    HoldsGuard
<1>. QED BY <1>2, <1>5, <1>6, <1>7, <1>8, <1>9, <1>10, Zenon DEF IInv

LEMMA NextInv == IInv /\ [Next]_vars => IInv'
<1>. SUFFICES ASSUME IInv, [Next]_vars PROVE IInv'
  OBVIOUS
<1>1. ASSUME UNCHANGED vars PROVE IInv'
  BY <1>1, RunningUnread, Zenon DEF vars, wallet, IInv, TypeOK
<1>2. ASSUME NEW c \in Caller, Step(c) PROVE IInv'
  BY <1>2, CheckOfflineInv, TakeStaleInv, DisconnectStaleInv, StaleOfflineInv, SpawnWorkerInv,
     DropOwnGuardInv, ClearOwnCurrentInv, ReceiveResultInv, InstallActiveInv, JoinWorkerInv,
     ConnectTimeoutInv, CancelReadInv, CancelMarkInv, CancelApiInv,
     CancelBarrierInv, CancelJoinInv, ReturnTimeoutInv, TakeActiveInv, DisconnectActiveInv,
     FinishShutdownInv, Zenon DEF Step
<1>3. ASSUME NEW c \in Caller, DropFuture(c) PROVE IInv'
  BY <1>3, DropGuardedFutureInv, DropOnlineFutureInv, DropShutdownFutureInv, Zenon DEF DropFuture
<1>4. ASSUME NEW a \in Attempt, WorkerStep(a) PROVE IInv'
  BY <1>4, WorkerConnectInv, WorkerPublishInv, WorkerPreflightInv, WorkerLockActivationInv,
     WorkerActivateInv, WorkerActivatedInv, WorkerDeliverInv, WorkerAwaitAcceptedInv,
     WorkerAwaitFinalizedInv, WorkerRollbackSocketInv, WorkerRollbackHandlerInv,
     WorkerCompleteInv, WorkerClearInv, WorkerFailInv, Zenon DEF WorkerStep
<1>. QED BY <1>1, <1>2, <1>3, <1>4, AcquireAttemptInv, BeginShutdownInv, HandlerFlapsInv, Zenon DEF Next

LEMMA Invariance == Spec => []IInv
BY InitInv, NextInv, PTL DEF Spec

\* ConnectionAttemptGuard excludes overlap: one attempt at a time connects,
\* activates or rolls back, and a rollback stops the handler of its own attempt
\* only.
THEOREM OneAttemptAtATime == Spec => []AttemptsExclude
<1>1. IInv => AttemptsExclude
  <2>. SUFFICES ASSUME IInv PROVE AttemptsExclude
    OBVIOUS
  <2>1. \A a \in Attempt : Unfinished(a) => current = a /\ ~attempt[a].completed
    BY Zenon DEF IInv, Registered, Running, Unfinished
  <2>2. ASSUME NEW c \in Caller, HoldsGuard(c)
        PROVE  current = caller[c].own /\ ~Unfinished(current)
    BY <2>2, Zenon DEF IInv, Registered, Guarded, Unfinished
  <2>3. ASSUME NEW c \in Caller, NEW d \in Caller, HoldsGuard(c), HoldsGuard(d) PROVE c = d
    BY <2>3, Bounds DEF IInv, Registered, Guarded
  <2>4. \A a \in Attempt : worker[a] \in {"rollbackHandler", "rollbackHandlerLocked"}
                             => handler \in {None, a}
    BY Zenon DEF IInv, Covered, HandlerOpen
  <2>. QED BY <2>1, <2>2, <2>3, <2>4, Zenon DEF IInv, AttemptsExclude
<1>. QED BY <1>1, Invariance, PTL

\* Once offline_mode or close has completed, no attempt that existed when it
\* began puts the wallet online again.
THEOREM OfflineIsFinal == Spec => []OfflineFence
<1>1. IInv => OfflineFence
  BY Zenon DEF IInv, Fences
<1>. QED BY <1>1, Invariance, PTL

\* When every call and every worker has ended, the only socket left open is the
\* active connection's, and the wallet runs on no other, but for the connections
\* whose shutdown was dropped midway.
THEOREM NoConnectionForgotten == Spec => []NothingLeaks
<1>1. IInv => NothingLeaks
  <2>. SUFFICES ASSUME IInv, Quiescent
                PROVE  /\ socket \subseteq {active} \cup abandoned
                       /\ handler # None => handler \in {active} \cup abandoned
    BY Zenon DEF NothingLeaks
  <2>1. \A c \in Caller : ~SocketTaken(c) /\ ~HandlerTaken(c)
    BY Zenon DEF Quiescent, At, SocketTaken, HandlerTaken
  <2>2. \A a \in Attempt : ~SocketOpen(a) /\ ~HandlerOpen(a)
    BY Zenon DEF Quiescent, SocketOpen, HandlerOpen
  <2>3. socket \subseteq {active} \cup abandoned
    BY <2>1, <2>2, Zenon DEF IInv, TypeOK, Covered, SocketCover
  <2>4. handler # None => handler \in {active} \cup abandoned
    BY <2>1, <2>2, Bounds, Zenon DEF IInv, TypeOK, Covered, HandlerCover
  <2>. QED BY <2>3, <2>4, Zenon
<1>. QED BY <1>1, Invariance, PTL

=============================================================================
