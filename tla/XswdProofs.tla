----------------------------- MODULE XswdProofs -----------------------------
(***************************************************************************)
(* The XSWD host, for every set of application states, sessions, reads,    *)
(* calls, application ids, permissions and updates, and every bound of the *)
(* queue, of the receive burst, of the references and of the events.       *)
(*                                                                         *)
(* XswdDispatcher: the handler forgets no request and no notification,     *)
(* gives no invalidated application authority again, asks the user nothing *)
(* for one and starves no callback.  None of this is inductive alone.      *)
(* DispatcherIInv adds what the handler has at hand at each control point  *)
(* (Control), who has an answer already (Requests), where an owed          *)
(* notification is and that a cancelled admission finds room (Notices),    *)
(* what may be active and what was observed (Authority), and how the burst *)
(* bounds the events that overtake a callback (Counted).                   *)
(*                                                                         *)
(* XswdCalls: a session has only the permissions the user allowed for it,  *)
(* and a stop leaves nothing behind.  AuthorityGranted is not inductive:   *)
(* an update waits for two locks before it is applied; CallsAsked says     *)
(* that what it will allow was allowed for the session it names.           *)
(* StopComplete rests on the adapter's exclusion of calls (Excluded) and   *)
(* on what a connected session has to fall back on while a stop takes the  *)
(* services away one after the other (Served).                             *)
(*                                                                         *)
(* XswdSessions: no late answer revives a session, and what a read lists   *)
(* is operable.  NoRevival is not inductive: a read may still list a       *)
(* session that has ended.  Listing says why its delivery does no harm:    *)
(* either the revision has changed since, or the session's tombstone is    *)
(* still in place.                                                         *)
(***************************************************************************)
EXTENDS XswdHost, FunctionTheorems, TLAPS

\* A leaf that takes the provers longer than their five seconds may take thirty.
USE SMTT(30), ZenonT(30)

-----------------------------------------------------------------------------
(* Queues                                                                  *)

LEMMA RangeAppend ==
  ASSUME NEW S, NEW s \in Seq(S), NEW e \in S
  PROVE  /\ Append(s, e) \in Seq(S)
         /\ Len(Append(s, e)) = Len(s) + 1
         /\ Range(Append(s, e)) = Range(s) \cup {e}
<1>1. Append(s, e) \in Seq(S) /\ Len(Append(s, e)) = Len(s) + 1
  BY SMT
<1>2. \A i \in 1 .. Len(s) : Append(s, e)[i] = s[i]
  BY SMT
<1>3. Append(s, e)[Len(s) + 1] = e
  BY SMT
<1>4. Range(Append(s, e)) \subseteq Range(s) \cup {e}
  BY <1>1, <1>2, <1>3, SMT DEF Range
<1>5. Range(s) \cup {e} \subseteq Range(Append(s, e))
  BY <1>1, <1>2, <1>3, SMT DEF Range
<1> QED
  BY <1>1, <1>4, <1>5, Zenon

LEMMA RangeTail ==
  ASSUME NEW S, NEW s \in Seq(S), s # <<>>
  PROVE  /\ Head(s) \in S /\ Head(s) \in Range(s)
         /\ Tail(s) \in Seq(S)
         /\ Len(Tail(s)) = Len(s) - 1
         /\ Range(s) = {Head(s)} \cup Range(Tail(s))
<1>1. Len(s) > 0 /\ Head(s) = s[1] /\ Head(s) \in S
  BY SMT
<1>2. Tail(s) \in Seq(S) /\ Len(Tail(s)) = Len(s) - 1
  BY SMT
<1>3. \A i \in 1 .. Len(s) - 1 : Tail(s)[i] = s[i + 1]
  BY SMT
<1>4. Head(s) \in Range(s)
  BY <1>1, SMT DEF Range
<1>5. Range(Tail(s)) \subseteq Range(s)
  BY <1>1, <1>2, <1>3, SMT DEF Range
<1>6. Range(s) \subseteq {Head(s)} \cup Range(Tail(s))
  <2>1. ASSUME NEW i \in 1 .. Len(s), i # 1
        PROVE  s[i] \in Range(Tail(s))
    <3>1. i - 1 \in DOMAIN Tail(s) /\ Tail(s)[i - 1] = s[i]
      BY <2>1, <1>2, <1>3, SMT
    <3> QED
      BY <3>1, Zenon DEF Range
  <2> QED
    BY <2>1, <1>1, SMT DEF Range
<1> QED
  BY <1>1, <1>2, <1>4, <1>5, <1>6, Zenon

LEMMA RangeRemoved ==
  ASSUME NEW S, NEW s \in Seq(S), NEW k \in 1 .. Len(s)
  PROVE  /\ Removed(s, k) \in Seq(S)
         /\ Len(Removed(s, k)) = Len(s) - 1
         /\ Range(Removed(s, k)) \subseteq Range(s)
         /\ Range(s) \subseteq Range(Removed(s, k)) \cup {s[k]}
<1> DEFINE r == Removed(s, k)
<1>1. Len(s) \in Nat /\ DOMAIN s = 1 .. Len(s) /\ \A i \in DOMAIN s : s[i] \in S
  BY SMT
<1>2. /\ DOMAIN r = 1 .. Len(s) - 1
      /\ \A i \in 1 .. Len(s) - 1 : r[i] = IF i < k THEN s[i] ELSE s[i + 1]
  BY Zenon DEF Removed
<1>3. r \in Seq(S) /\ Len(r) = Len(s) - 1
  BY <1>1, SMT DEF Removed
<1> HIDE DEF r
<1>4. ASSUME NEW i \in DOMAIN r
      PROVE  r[i] \in Range(s)
  <2>1. i \in DOMAIN s /\ i + 1 \in DOMAIN s
    BY <1>1, <1>2, SMT
  <2> QED
    BY <2>1, <1>2, Zenon DEF Range
<1>5. ASSUME NEW i \in DOMAIN s, i # k
      PROVE  s[i] \in Range(r)
  <2>1. CASE i < k
    <3>1. i \in DOMAIN r
      BY <2>1, <1>1, <1>2, SMT
    <3> QED
      BY <2>1, <3>1, <1>2, Zenon DEF Range
  <2>2. CASE i > k
    <3>1. i - 1 \in DOMAIN r /\ ~(i - 1 < k) /\ (i - 1) + 1 = i
      BY <2>2, <1>1, <1>2, SMT
    <3>2. r[i - 1] = s[i]
      BY <3>1, <1>2, Zenon
    <3> QED
      BY <3>1, <3>2, Zenon DEF Range
  <2> QED
    BY <1>5, <2>1, <2>2, <1>1, SMT
<1>6. Range(r) \subseteq Range(s) /\ Range(s) \subseteq Range(r) \cup {s[k]}
  BY <1>4, <1>5, Zenon DEF Range
<1> QED
  BY <1>3, <1>6, Zenon DEF r

LEMMA RangeRetained ==
  ASSUME NEW S, NEW s \in Seq(S), NEW T, NEW r \in Retained(s, T)
  PROVE  /\ r \in Seq(S)
         /\ Len(r) <= Len(s)
         /\ Range(r) = {x \in Range(s) : x \in T}
<1>1. PICK n \in 0 .. Len(s) : r \in [1 .. n -> Range(s)]
  BY Zenon DEF Retained
<1>2. PICK h \in [DOMAIN r -> DOMAIN s] :
         /\ \A i, j \in DOMAIN r : i < j => h[i] < h[j]
         /\ Range(h) = {i \in DOMAIN s : s[i] \in T}
         /\ \A i \in DOMAIN r : r[i] = s[h[i]]
  BY Zenon DEF Retained
<1>3. Len(s) \in Nat /\ DOMAIN s = 1 .. Len(s) /\ n \in Nat
  BY SMT
<1>4. Range(s) \subseteq S
  BY SMT DEF Range
<1>5. DOMAIN r = 1 .. n
  BY <1>1, Zenon
<1>6. r \in Seq(S) /\ Len(r) = n
  BY <1>1, <1>3, <1>4, SMT
<1>7. Range(r) \subseteq {x \in Range(s) : x \in T}
  BY <1>2, Zenon DEF Range
<1>8. {x \in Range(s) : x \in T} \subseteq Range(r)
  <2> SUFFICES ASSUME NEW i \in DOMAIN s, s[i] \in T
               PROVE  s[i] \in Range(r)
    BY Zenon DEF Range
  <2>1. i \in Range(h) /\ DOMAIN h = DOMAIN r
    BY <1>2, Zenon
  <2>2. PICK j \in DOMAIN r : h[j] = i
    BY <2>1, Zenon DEF Range
  <2> QED
    BY <1>2, <2>2, Zenon DEF Range
<1> QED
  BY <1>1, <1>3, <1>6, <1>7, <1>8, SMT

LEMMA RetainedShorter ==
  ASSUME NEW S, NEW s \in Seq(S), NEW T, NEW r \in Retained(s, T),
         NEW x \in Range(s), x \notin T
  PROVE  Len(r) < Len(s)
<1>1. PICK h \in [DOMAIN r -> DOMAIN s] :
         /\ \A i, j \in DOMAIN r : i < j => h[i] < h[j]
         /\ Range(h) = {i \in DOMAIN s : s[i] \in T}
         /\ \A i \in DOMAIN r : r[i] = s[h[i]]
  BY Zenon DEF Retained
<1>2. r \in Seq(S)
  BY RangeRetained, Zenon
<1>3. DOMAIN r = 1 .. Len(r) /\ DOMAIN s = 1 .. Len(s) /\ Len(r) \in Nat /\ Len(s) \in Nat
  BY <1>2, SMT
<1>4. PICK k \in DOMAIN s : s[k] = x
  BY Zenon DEF Range
<1>5. \A i \in DOMAIN r : h[i] \in 1 .. Len(s) /\ h[i] # k
  <2>1. \A i \in DOMAIN r : h[i] \in Range(h)
    BY <1>1, Zenon DEF Range
  <2> QED
    BY <1>1, <1>3, <1>4, <2>1, Zenon
<1>6. k \in 1 .. Len(s) /\ Len(s) - 1 \in Nat
  BY <1>3, <1>4, SMT
<1> DEFINE g == [i \in 1 .. Len(r) |-> IF h[i] < k THEN h[i] ELSE h[i] - 1]
<1>7. g \in [1 .. Len(r) -> 1 .. (Len(s) - 1)]
  BY <1>3, <1>5, <1>6, SMT
<1>8. \A i, j \in 1 .. Len(r) : i < j => g[i] < g[j]
  BY <1>1, <1>3, <1>5, <1>6, SMT
<1>9. \A i, j \in 1 .. Len(r) : g[i] = g[j] => i = j
  BY <1>3, <1>6, <1>7, <1>8, SMT
<1> HIDE DEF g
<1>10. g \in Injection(1 .. Len(r), 1 .. (Len(s) - 1))
  BY <1>7, <1>9, Zenon DEF Injection, IsInjective
<1>11. ExistsInjection(1 .. Len(r), 1 .. (Len(s) - 1))
  BY <1>10, Zenon DEF ExistsInjection
<1>12. Len(r) <= Len(s) - 1
  BY <1>3, <1>6, <1>11, Fun_NatInjLeq, Zenon
<1> QED
  BY <1>3, <1>12, SMT

-----------------------------------------------------------------------------
(* XswdDispatcher                                                          *)

\* The events the handler has taken in and not finished, and all that were sent
\* and not finished.
Kept == Range(deferred) \cup ({work, active} \ {NoEvent})
Pending == Range(channel) \cup Kept

\* The events that are past their request: their answer is a notification.
Resting == Range(deferred) \cup ({active} \ {NoEvent})
             \cup (IF pc \in {"notify", "overload"} THEN {work} ELSE {})

Note(e) == [kind |-> e.kind, app |-> e.app, admission |-> e.admission]

Reply == {"none", "no reply", "outcome", "failed", "acknowledged"}

Types ==
  /\ TypeOK
  /\ reply \in [1 .. MaxEvents -> Reply]
  /\ revoked \subseteq App
  /\ overtaken \in Nat

\* What the handler has at hand at each of its control points.
Control ==
  /\ pc \in {"prepare", "start"} =>
       work # NoEvent /\ IsDecision(work) /\ active = NoEvent
  /\ pc \in {"revoke", "notify", "overload"} => work # NoEvent /\ ~IsDecision(work)
  /\ pc \in {"loop", "select", "ended"} => work = NoEvent
  /\ pc \in {"select", "overload"} => active # NoEvent
  /\ pc = "ended" => active = NoEvent /\ deferred = <<>> /\ channel = <<>> /\ ~open

\* Requests: an event was sent, a disconnection awaits no reply, nor does a
\* lifecycle event once it is a notification, and who awaits one has an event.
Marked ==
  \A e \in Pending :
    /\ e.id <= sent
    /\ e.kind = "disconnect" => ~e.admission /\ reply[e.id] # "none"
Settled == \A e \in Resting : ~IsDecision(e) => reply[e.id] # "none"
Awaited == \A i \in 1 .. sent : reply[i] = "none" => i \in Ids(Pending)

\* Notifications: the active one was told, an owed one that is not told is in
\* the queue or at work with a session to name, and one that takes an admission
\* away has room in the queue or nothing to wait for.
Told == active # NoEvent /\ ~IsDecision(active) => Note(active) \in told
Delivered(n) ==
  \/ n \in told
  \/ \E e \in Range(deferred) : n = Note(e)
  \/ /\ work # NoEvent /\ n = Note(work)
     /\ \/ pc = "overload"
        \/ pc = "notify" /\ \E s \in sessions : s.app = work.app
Owed ==
  \A n \in owed :
    /\ n.kind \in Lifecycle /\ (n.kind = "cancel" => n.admission)
    /\ pc # "ended" => Delivered(n)
Room ==
  pc \in {"revoke", "notify"} /\ work.kind = "cancel" /\ work.admission =>
    \/ Len(deferred) < MaxDeferred
    \/ pc = "revoke" /\ CancelsActive(work.app)
    \/ pc = "notify" /\ active = NoEvent

\* Authority: an invalidated application that can still be named has a
\* reference, unless there are none left; its references are inactive; what the
\* handler works for it has observed; after stop_xswd only what it has observed
\* can be active; and it asks the user only for what is not invalidated.
Barred ==
  \A a \in revoked : Alive(a) => Exhausted \/ \E s \in sessions : s.app = a
Inactive == \A s \in sessions : s.app \in revoked => ~s.active
Seen == \A e \in Kept : e.app \in Range(observed)
Cleared ==
  stopping = "done" =>
    \A s \in RemoveDead : s.active => pc # "ended" /\ s.app \in Range(observed)
Asked ==
  /\ active # NoEvent /\ IsDecision(active) => active.app \notin revoked
  /\ pc = "start" => work.app \notin revoked

\* The burst counts the events that overtake a completed callback.
Counted ==
  /\ overtaken <= MaxBurst
  /\ pc = "select" => burst < MaxBurst
  /\ ready => overtaken <= burst \/ (pc = "select" /\ prefer = "callback")

Requests == Marked /\ Settled /\ Awaited
Notices == Told /\ Owed /\ Room
Authority == Barred /\ Inactive /\ Seen /\ Cleared /\ Asked

DispatcherIInv == Types /\ Control /\ Requests /\ Notices /\ Authority /\ Counted

LEMMA RangeSeq ==
  ASSUME NEW S, NEW s \in Seq(S)
  PROVE  Range(s) \subseteq S
BY SMT DEF Range

LEMMA EventFields ==
  /\ \A e \in Event :
       /\ e # NoEvent
       /\ e.kind \in Decision \cup Lifecycle
       /\ e.app \in App /\ e.id \in 1 .. MaxEvents /\ e.admission \in BOOLEAN
       /\ IsDecision(e) <=> e.kind \notin Lifecycle
  /\ ~IsDecision(NoEvent) /\ NoEvent.kind = "none"
<1>1. NoEvent.kind = "none"
  BY Zenon DEF NoEvent
<1>2. ASSUME NEW e \in Event
      PROVE  e.kind \in Decision \cup Lifecycle /\ e.app \in App
             /\ e.id \in 1 .. MaxEvents /\ e.admission \in BOOLEAN
  BY Zenon DEF Event
<1>3. "none" \notin Decision \cup Lifecycle /\ Decision \cap Lifecycle = {}
  BY SMT DEF Decision, Lifecycle
<1> QED
  BY <1>1, <1>2, <1>3, Zenon DEF IsDecision

LEMMA PendingEvents ==
  /\ Types => Pending \subseteq Event /\ Kept \subseteq Event
  /\ Types' => Pending' \subseteq Event /\ Kept' \subseteq Event
<1>1. Types => channel \in Seq(Event) /\ deferred \in Seq(Event)
               /\ work \in Event \cup {NoEvent} /\ active \in Event \cup {NoEvent}
  BY Zenon DEF Types, TypeOK
<1>2. Types' => channel' \in Seq(Event) /\ deferred' \in Seq(Event)
                /\ work' \in Event \cup {NoEvent} /\ active' \in Event \cup {NoEvent}
  BY Zenon DEF Types, TypeOK
<1>3. Types => Range(channel) \subseteq Event /\ Range(deferred) \subseteq Event
  BY <1>1, RangeSeq, Zenon
<1>4. Types' => Range(channel') \subseteq Event /\ Range(deferred') \subseteq Event
  BY <1>2, RangeSeq, Zenon
<1>5. Types => Pending \subseteq Event /\ Kept \subseteq Event
  BY <1>1, <1>3, Zenon DEF Pending, Kept
<1>6. Types' => Pending' \subseteq Event /\ Kept' \subseteq Event
  BY <1>2, <1>4, Zenon DEF Pending, Kept
<1> QED
  BY <1>5, <1>6, Zenon

LEMMA AliveIs ==
  /\ \A a : Alive(a) <=> a \in held \/ \E e \in Pending : e.app = a
  /\ \A a : Alive(a)' <=> a \in held' \/ \E e \in Pending' : e.app = a
<1>1. \A a : Alive(a) <=> a \in held \/ \E e \in Pending : e.app = a
  BY Zenon DEF Alive, About, Pending, Kept
<1>2. \A a : Alive(a)' <=> a \in held' \/ \E e \in Pending' : e.app = a
  BY Zenon DEF Alive, About, Pending, Kept
<1> QED
  BY <1>1, <1>2, Zenon

\* No application comes back to life: an event is taken over from another one of
\* its application, and what the server holds only shrinks.
LEMMA AliveBack ==
  ASSUME held' \subseteq held, \A e \in Pending' : Alive(e.app)
  PROVE  \A a : Alive(a)' => Alive(a)
BY AliveIs, Zenon

-----------------------------------------------------------------------------

\* What every operation on the registry leaves: the references of applications
\* that exist, a counter that does not go back, no active reference to an
\* invalidated application, and one that is inactive where none may be minted.
RegistrySound ==
  /\ sessions' \subseteq SessionEntry /\ nextRef' \in 1 .. MaxRef
  /\ \A s \in sessions : Alive(s.app) => \E t \in sessions' : t.app = s.app
  /\ Exhausted => Exhausted'
  /\ \A s \in sessions' : s.app \in revoked' => ~s.active
  /\ \A a \in revoked' : Alive(a) => Exhausted' \/ \E s \in sessions' : s.app = a

\* Every active reference was one, or names an application of S.
OnlyActive(S) ==
  \A t \in sessions' :
    t.active => t.app \in S \/ \E s \in RemoveDead : s.app = t.app /\ s.active

LEMMA RegistryKept ==
  ASSUME DispatcherIInv, UNCHANGED <<sessions, nextRef, revoked>>
  PROVE  /\ RegistrySound
         /\ \A t \in sessions' :
              t.active /\ Alive(t.app) => \E s \in RemoveDead : s.app = t.app /\ s.active
<1>1. sessions \subseteq SessionEntry /\ nextRef \in 1 .. MaxRef
  BY Zenon DEF DispatcherIInv, Types, TypeOK
<1>2. Inactive /\ Barred
  BY Zenon DEF DispatcherIInv, Authority
<1>3. Exhausted' <=> Exhausted
  BY Zenon DEF Exhausted
<1>4. RegistrySound
  BY <1>1, <1>2, <1>3, Zenon DEF RegistrySound, Inactive, Barred
<1> QED
  BY <1>4, Zenon DEF RemoveDead

LEMMA ProjectSound ==
  ASSUME DispatcherIInv, NEW a \in App, Alive(a), Project(a), UNCHANGED revoked
  PROVE  /\ RegistrySound
         /\ OnlyActive({a})
         /\ Projects(a) => \E s \in sessions' : s.app = a
         /\ Registers(a) => a \notin revoked
<1>1. /\ sessions \subseteq SessionEntry /\ nextRef \in 1 .. MaxRef
      /\ MaxRef \in Nat \ {0}
  BY DispatcherAssumption, Zenon DEF DispatcherIInv, Types, TypeOK, BoundsAssumption
<1>2. Inactive /\ Barred
  BY Zenon DEF DispatcherIInv, Authority
<1>3. RemoveDead \subseteq sessions
  BY Zenon DEF RemoveDead
<1>4. Registers(a) => a \notin revoked
  BY <1>2, Zenon DEF Registers, Projects, Of, RemoveDead, Inactive, Barred
<1>5. CASE Of(a) = {} /\ ~Exhausted
  <2> DEFINE new == [ref |-> nextRef, app |-> a, active |-> TRUE]
  <2>1. sessions' = RemoveDead \cup {new} /\ nextRef' = nextRef + 1
    BY <1>5, Zenon DEF Project
  <2>2. new \in SessionEntry /\ new.app = a
    BY <1>1, Zenon DEF SessionEntry
  <2> HIDE DEF new
  <2>3. nextRef' \in 1 .. MaxRef
    BY <1>1, <1>5, <2>1, SMT DEF Exhausted
  <2>4. a \notin revoked
    BY <1>2, <1>5, Zenon DEF Of, RemoveDead, Barred
  <2>5. \A s \in sessions : Alive(s.app) => s \in sessions'
    BY <2>1, Zenon DEF RemoveDead
  <2>6. sessions' \subseteq SessionEntry
    BY <1>1, <1>3, <2>1, <2>2, Zenon
  <2>7. \A s \in sessions' : s.app \in revoked' => ~s.active
    BY <1>2, <1>3, <2>1, <2>2, <2>4, Zenon DEF Inactive
  <2>8. \A b \in revoked' : Alive(b) => Exhausted' \/ \E s \in sessions' : s.app = b
    BY <1>2, <1>5, <2>5, Zenon DEF Barred
  <2>9. RegistrySound
    BY <1>5, <2>3, <2>5, <2>6, <2>7, <2>8, Zenon DEF RegistrySound
  <2>10. OnlyActive({a})
    BY <2>1, <2>2, Zenon DEF OnlyActive
  <2> QED
    BY <1>4, <2>1, <2>2, <2>9, <2>10, Zenon
<1>6. CASE ~(Of(a) = {} /\ ~Exhausted)
  <2>1. sessions' = RemoveDead /\ nextRef' = nextRef
    BY <1>6, Zenon DEF Project
  <2>2. Exhausted' <=> Exhausted
    BY <2>1, Zenon DEF Exhausted
  <2>3. \A s \in sessions : Alive(s.app) => s \in sessions'
    BY <2>1, Zenon DEF RemoveDead
  <2>4. RegistrySound
    BY <1>1, <1>2, <1>3, <2>1, <2>2, <2>3, Zenon DEF RegistrySound, Inactive, Barred
  <2>5. OnlyActive({a})
    BY <2>1, Zenon DEF OnlyActive
  <2>6. Projects(a) => \E s \in sessions' : s.app = a
    BY <1>6, <2>1, Zenon DEF Projects, Of
  <2> QED
    BY <1>4, <2>4, <2>5, <2>6, Zenon
<1> QED
  BY <1>5, <1>6, Zenon

LEMMA SessionFields ==
  ASSUME NEW s \in SessionEntry, NEW b \in BOOLEAN
  PROVE  LET t == [s EXCEPT !.active = b]
         IN  t \in SessionEntry /\ t.app = s.app /\ t.active = b
BY Zenon DEF SessionEntry

LEMMA InvalidateSound ==
  ASSUME DispatcherIInv, NEW apps \in Seq(App), Invalidate(apps),
         revoked' = revoked \cup Range(apps)
  PROVE  /\ RegistrySound
         /\ \A t \in sessions' :
              t.active => \E s \in RemoveDead : s.app = t.app /\ s.active
         /\ \A t \in sessions' : t.active => t.app \notin Range(apps)
         /\ \A a \in Range(apps) :
              Len(apps) = 1 /\ Projects(a) => \E s \in sessions' : s.app = a
<1>1. /\ sessions \subseteq SessionEntry /\ nextRef \in 1 .. MaxRef
      /\ MaxRef \in Nat \ {0}
  BY DispatcherAssumption, Zenon DEF DispatcherIInv, Types, TypeOK, BoundsAssumption
<1>2. Inactive /\ Barred
  BY Zenon DEF DispatcherIInv, Authority
<1>3. RemoveDead \subseteq SessionEntry
  BY <1>1, Zenon DEF RemoveDead
<1> DEFINE Old(s) == [s EXCEPT !.active = s.active /\ s.app \notin Range(apps)]
<1> DEFINE None == {a \in App : Of(a) = {}}
<1>4. PICK unseen \in Retained(apps, None) :
        /\ sessions' = {Old(s) : s \in RemoveDead}
                       \cup {[ref |-> nextRef + i - 1, app |-> unseen[i],
                              active |-> FALSE] :
                              i \in {j \in DOMAIN unseen : nextRef + j - 1 < MaxRef}}
        /\ nextRef' = IF nextRef + Len(unseen) < MaxRef
                        THEN nextRef + Len(unseen) ELSE MaxRef
  BY Zenon DEF Invalidate
<1>5. /\ unseen \in Seq(App) /\ Len(unseen) <= Len(apps)
      /\ Range(unseen) = {a \in Range(apps) : a \in None}
  <2>1. unseen \in Retained(apps, None)
    OBVIOUS
  <2> HIDE DEF None
  <2> QED
    BY <2>1, RangeRetained
<1>6. /\ DOMAIN unseen = 1 .. Len(unseen) /\ Len(unseen) \in Nat
      /\ \A i \in DOMAIN unseen : unseen[i] \in App
  BY <1>5, SMT
<1>7. Range(apps) \subseteq App
  BY RangeSeq, Zenon
<1>8. ASSUME NEW s \in RemoveDead
      PROVE  /\ Old(s) \in sessions' /\ Old(s) \in SessionEntry
             /\ Old(s).app = s.app
             /\ Old(s).active <=> s.active /\ s.app \notin Range(apps)
  <2>1. s \in SessionEntry
    BY <1>3, Zenon
  <2>2. (s.active /\ s.app \notin Range(apps)) \in BOOLEAN
    OBVIOUS
  <2>3. /\ Old(s) \in SessionEntry /\ Old(s).app = s.app
        /\ Old(s).active = (s.active /\ s.app \notin Range(apps))
    BY <2>1, <2>2, SessionFields, Zenon
  <2>4. Old(s) \in sessions'
    BY <1>4, Zenon
  <2> QED
    BY <2>3, <2>4, Zenon
<1> DEFINE New(i) == [ref |-> nextRef + i - 1, app |-> unseen[i], active |-> FALSE]
<1>9. ASSUME NEW i \in DOMAIN unseen, nextRef + i - 1 < MaxRef
      PROVE  /\ New(i) \in sessions' /\ New(i) \in SessionEntry
             /\ New(i).app = unseen[i] /\ ~New(i).active
  <2>1. nextRef + i - 1 \in 1 .. MaxRef
    BY <1>1, <1>6, <1>9, SMT
  <2>2. unseen[i] \in App
    BY <1>6, Zenon
  <2>3. New(i) \in SessionEntry
    BY <2>1, <2>2, Zenon DEF SessionEntry
  <2>4. New(i) \in sessions'
    BY <1>4, <1>9, Zenon
  <2> QED
    BY <2>3, <2>4, Zenon
<1>10. ASSUME NEW t \in sessions'
       PROVE  \/ \E s \in RemoveDead : t = Old(s)
              \/ \E i \in DOMAIN unseen : nextRef + i - 1 < MaxRef /\ t = New(i)
  BY <1>4, Zenon
<1> HIDE DEF Old, New
<1>11. nextRef' \in 1 .. MaxRef /\ (Exhausted => Exhausted')
  BY <1>1, <1>4, <1>6, SMT DEF Exhausted
<1>12. ASSUME NEW t \in sessions'
       PROVE  /\ t \in SessionEntry
              /\ t.active => /\ \E s \in RemoveDead : s.app = t.app /\ s.active
                             /\ t.app \notin Range(apps)
  <2>1. ASSUME NEW s \in RemoveDead, t = Old(s)
        PROVE  /\ t \in SessionEntry
               /\ t.active => s.app = t.app /\ s.active /\ t.app \notin Range(apps)
    BY <1>8, <2>1, Zenon
  <2>2. ASSUME NEW i \in DOMAIN unseen, nextRef + i - 1 < MaxRef, t = New(i)
        PROVE  t \in SessionEntry /\ ~t.active
    BY <1>9, <2>2, Zenon
  <2> QED
    BY <1>10, <2>1, <2>2, Zenon
<1>13. \A t \in sessions' :
         t.active => /\ \E s \in RemoveDead : s.app = t.app /\ s.active
                     /\ t.app \notin Range(apps)
  BY <1>12, Zenon
<1>14. \A s \in sessions : Alive(s.app) => \E t \in sessions' : t.app = s.app
  BY <1>8, Zenon DEF RemoveDead
<1>15. ASSUME NEW a \in Range(apps), Of(a) = {}
       PROVE  /\ Exhausted' \/ \E s \in sessions' : s.app = a
              /\ Len(apps) = 1 /\ ~Exhausted => \E s \in sessions' : s.app = a
  <2>1. a \in Range(unseen)
    BY <1>5, <1>7, <1>15, Zenon
  <2>2. PICK i \in DOMAIN unseen : unseen[i] = a
    BY <2>1, Zenon DEF Range
  <2>3. CASE nextRef + i - 1 < MaxRef
    BY <1>9, <2>2, <2>3, Zenon
  <2>4. CASE ~(nextRef + i - 1 < MaxRef)
    <3>1. Exhausted'
      BY <1>1, <1>4, <1>6, <2>2, <2>4, SMT DEF Exhausted
    <3>2. Len(apps) = 1 => Exhausted
      BY <1>1, <1>5, <1>6, <2>2, <2>4, SMT DEF Exhausted
    <3> QED
      BY <3>1, <3>2, Zenon
  <2> QED
    BY <2>3, <2>4, Zenon
<1>16. ASSUME NEW a \in revoked', Alive(a)
       PROVE  Exhausted' \/ \E s \in sessions' : s.app = a
  <2>1. CASE a \in Range(apps) /\ Of(a) = {}
    BY <1>15, <2>1, Zenon
  <2>2. CASE Of(a) # {}
    BY <1>8, <2>2, Zenon DEF Of
  <2>3. CASE a \in revoked
    BY <1>2, <1>11, <1>14, <1>16, <2>3, Zenon DEF Barred
  <2> QED
    BY <2>1, <2>2, <2>3, Zenon
<1>17. ASSUME NEW s \in sessions', s.app \in revoked'
       PROVE  ~s.active
  <2> SUFFICES ASSUME s.active PROVE FALSE
    OBVIOUS
  <2>1. PICK r \in RemoveDead : r.app = s.app /\ r.active
    BY <1>13, Zenon
  <2>2. s.app \in revoked
    BY <1>13, <1>17, Zenon
  <2> QED
    BY <1>2, <2>1, <2>2, Zenon DEF Inactive, RemoveDead
<1>18. RegistrySound
  BY <1>11, <1>12, <1>14, <1>16, <1>17, Zenon DEF RegistrySound
<1>19. ASSUME NEW a \in Range(apps), Len(apps) = 1, Projects(a)
       PROVE  \E s \in sessions' : s.app = a
  <2>1. CASE Of(a) = {}
    BY <1>15, <1>19, <2>1, Zenon DEF Projects
  <2>2. CASE Of(a) # {}
    BY <1>8, <2>2, Zenon DEF Of
  <2> QED
    BY <2>1, <2>2, Zenon
<1> QED
  BY <1>13, <1>18, <1>19, Zenon
-----------------------------------------------------------------------------
(* What a step has to show for each part of the invariant                  *)

\* Requests: an event comes from another with its id, an answer stays, an
\* event leaves only with an answer, and rests only when it awaits none.
LEMMA RequestsStep ==
  ASSUME DispatcherIInv, sent' = sent,
         \A e \in Pending' :
           \E d \in Pending : /\ e.id = d.id /\ e.kind = d.kind
                              /\ e.kind = "disconnect" /\ e.admission => d.admission,
         \A i \in 1 .. MaxEvents : reply[i] # "none" => reply'[i] # "none",
         \A e \in Pending : reply'[e.id] # "none" \/ e.id \in Ids(Pending'),
         \A e \in Resting' : e \in Resting \/ IsDecision(e) \/ reply'[e.id] # "none"
  PROVE  Requests'
<1>1. Marked /\ Settled /\ Awaited /\ Types
  BY Zenon DEF DispatcherIInv, Requests
<1>2. Pending \subseteq Event
  BY <1>1, PendingEvents, Zenon
<1>3. \A e \in Pending : e.id \in 1 .. MaxEvents
  BY <1>2, EventFields, Zenon
<1>4. sent \in 0 .. MaxEvents /\ MaxEvents \in Nat
  BY <1>1, DispatcherAssumption, Zenon DEF Types, TypeOK, BoundsAssumption
<1>5. \A i \in 1 .. sent : i \in 1 .. MaxEvents
  BY <1>4, SMT
<1>6. Marked'
  <2> SUFFICES ASSUME NEW e \in Pending'
               PROVE  /\ e.id <= sent
                      /\ e.kind = "disconnect" => ~e.admission /\ reply'[e.id] # "none"
    BY Zenon DEF Marked
  <2>1. PICK d \in Pending : /\ e.id = d.id /\ e.kind = d.kind
                             /\ e.kind = "disconnect" /\ e.admission => d.admission
    OBVIOUS
  <2>2. /\ d.id <= sent /\ d.id \in 1 .. MaxEvents
        /\ d.kind = "disconnect" => ~d.admission /\ reply[d.id] # "none"
    BY <1>1, <1>3, Zenon DEF Marked
  <2> QED
    BY <2>1, <2>2, Zenon
<1>7. Resting \subseteq Pending
  <2>1. pc \in {"notify", "overload"} => work # NoEvent
    BY Zenon DEF DispatcherIInv, Control
  <2> QED
    BY <2>1, Zenon DEF Resting, Pending, Kept
<1>8. Settled'
  BY <1>1, <1>3, <1>7, Zenon DEF Settled
<1>9. Awaited'
  <2> SUFFICES ASSUME NEW i \in 1 .. sent, reply'[i] = "none"
               PROVE  i \in Ids(Pending')
    BY Zenon DEF Awaited
  <2>1. i \in Ids(Pending)
    BY <1>1, <1>5, Zenon DEF Awaited
  <2> QED
    BY <2>1, Zenon DEF Ids
<1> QED
  BY <1>6, <1>8, <1>9, Zenon DEF Requests

\* Authority: no application comes back, the registry is sound, what exists
\* stays observed, and a reference is active because it was or because the
\* running handler has observed its application.
LEMMA AuthorityStep ==
  ASSUME DispatcherIInv, RegistrySound,
         \A a : Alive(a)' => Alive(a),
         \A a \in Range(observed) : Alive(a) => a \in Range(observed'),
         pc' = "ended" => pc = "ended",
         stopping' = "done" =>
           /\ stopping = "done"
           /\ \A t \in sessions' :
                t.active /\ Alive(t.app) =>
                  \/ pc' # "ended" /\ t.app \in Range(observed')
                  \/ \E s \in RemoveDead : s.app = t.app /\ s.active
  PROVE  Barred' /\ Inactive' /\ Cleared'
<1>1. Barred' /\ Inactive'
  BY Zenon DEF RegistrySound, Barred, Inactive
<1>2. Cleared'
  <2> SUFFICES ASSUME stopping' = "done", NEW t \in RemoveDead', t.active
               PROVE  pc' # "ended" /\ t.app \in Range(observed')
    BY Zenon DEF Cleared
  <2>1. t \in sessions' /\ Alive(t.app)
    BY Zenon DEF RemoveDead
  <2>2. CASE \E s \in RemoveDead : s.app = t.app /\ s.active
    <3>1. pc # "ended" /\ t.app \in Range(observed)
      BY <2>2, Zenon DEF DispatcherIInv, Authority, Cleared
    <3> QED
      BY <2>1, <3>1, Zenon
  <2> QED
    BY <2>1, <2>2, Zenon
<1> QED
  BY <1>1, <1>2, Zenon

\* A notification at work keeps the reference of its application.
LEMMA WorkIsAlive ==
  ASSUME DispatcherIInv, work # NoEvent
  PROVE  Alive(work.app) /\ work.app \in App /\ work \in Event
<1>1. work \in Event
  BY Zenon DEF DispatcherIInv, Types, TypeOK
<1> QED
  BY <1>1, EventFields, Zenon DEF Alive, About

LEMMA DeliveredStep ==
  ASSUME DispatcherIInv, RegistrySound, UNCHANGED <<owed, told, work, deferred, pc>>
  PROVE  Owed'
<1>1. Owed
  BY Zenon DEF DispatcherIInv, Notices
<1>2. ASSUME NEW n \in owed, pc # "ended"
      PROVE  Delivered(n)'
  <2>1. Delivered(n)
    BY <1>1, <1>2, Zenon DEF Owed
  <2>2. work # NoEvent /\ (\E s \in sessions : s.app = work.app)
          => \E s \in sessions' : s.app = work.app
    BY WorkIsAlive, Zenon DEF RegistrySound
  <2> QED
    BY <2>1, <2>2, Zenon DEF Delivered
<1> QED
  BY <1>1, <1>2, Zenon DEF Owed

\* A step that leaves the events alone.
LEMMA QuietStep ==
  ASSUME DispatcherIInv, RegistrySound, held' \subseteq held,
         UNCHANGED <<channel, work, active, deferred, pc, observed, reply, sent,
                     revoked, owed, told>>,
         stopping' = "done" =>
           \A t \in sessions' :
             t.active /\ Alive(t.app) =>
               /\ stopping = "done"
               /\ \E s \in RemoveDead : s.app = t.app /\ s.active
  PROVE  Requests' /\ Notices' /\ Authority'
<1>1. Pending' = Pending /\ Kept' = Kept /\ Resting' = Resting
  BY Zenon DEF Pending, Kept, Resting
<1>2. Requests'
  BY <1>1, Zenon DEF DispatcherIInv, Requests, Marked, Settled, Awaited
<1>3. Told' /\ Room'
  <2>1. Told /\ Room
    BY Zenon DEF DispatcherIInv, Notices
  <2>2. Told'
    BY <2>1, Zenon DEF Told
  <2>3. Room'
    BY <2>1, Zenon DEF Room, CancelsActive
  <2> QED
    BY <2>2, <2>3, Zenon
<1>4. Owed'
  BY DeliveredStep, Zenon
<1>5. \A a : Alive(a)' => Alive(a)
  BY <1>1, AliveIs, Zenon
<1>6. Seen' /\ Asked'
  <2>1. Seen /\ Asked
    BY Zenon DEF DispatcherIInv, Authority
  <2>2. Seen'
    BY <2>1, <1>1, Zenon DEF Seen
  <2>3. Asked'
    BY <2>1, Zenon DEF Asked
  <2> QED
    BY <2>2, <2>3, Zenon
<1>7. Barred' /\ Inactive'
  BY <1>5, Zenon DEF RegistrySound, Barred, Inactive
<1>8. Cleared'
  <2> SUFFICES ASSUME stopping' = "done", NEW t \in RemoveDead', t.active
               PROVE  pc' # "ended" /\ t.app \in Range(observed')
    BY Zenon DEF Cleared
  <2>1. PICK s \in RemoveDead : s.app = t.app /\ s.active /\ stopping = "done"
    BY <1>5, Zenon DEF RemoveDead
  <2> QED
    BY <2>1, Zenon DEF DispatcherIInv, Authority, Cleared
<1> QED
  BY <1>2, <1>3, <1>4, <1>6, <1>7, <1>8, Zenon DEF Notices, Authority

LEMMA ClearSound ==
  ASSUME DispatcherIInv, Clear, UNCHANGED revoked
  PROVE  RegistrySound /\ \A t \in sessions' : ~t.active
<1>1. /\ sessions \subseteq SessionEntry /\ nextRef \in 1 .. MaxRef
      /\ Inactive /\ Barred
  BY Zenon DEF DispatcherIInv, Types, TypeOK, Authority
<1> DEFINE Old(s) == [s EXCEPT !.active = FALSE]
<1>2. sessions' = {Old(s) : s \in RemoveDead} /\ nextRef' = nextRef
  BY Zenon DEF Clear
<1>3. ASSUME NEW s \in RemoveDead
      PROVE  /\ Old(s) \in sessions' /\ Old(s) \in SessionEntry
             /\ Old(s).app = s.app /\ ~Old(s).active
  <2>1. s \in SessionEntry
    BY <1>1, Zenon DEF RemoveDead
  <2>2. Old(s) \in SessionEntry /\ Old(s).app = s.app /\ Old(s).active = FALSE
    BY <2>1, SessionFields, Zenon
  <2> QED
    BY <1>2, <2>2, Zenon
<1>4. \A t \in sessions' : \E s \in RemoveDead : t = Old(s)
  BY <1>2, Zenon
<1> HIDE DEF Old
<1>5. \A t \in sessions' : t \in SessionEntry /\ ~t.active
  BY <1>3, <1>4, Zenon
<1>6. \A s \in sessions : Alive(s.app) => \E t \in sessions' : t.app = s.app
  BY <1>3, Zenon DEF RemoveDead
<1>7. Exhausted' <=> Exhausted
  BY <1>2, Zenon DEF Exhausted
<1>8. \A a \in revoked : Alive(a) => Exhausted' \/ \E s \in sessions' : s.app = a
  BY <1>1, <1>6, <1>7, Zenon DEF Barred
<1> QED
  BY <1>1, <1>2, <1>5, <1>6, <1>7, <1>8, Zenon DEF RegistrySound

LEMMA TrackKeeps ==
  ASSUME DispatcherIInv, NEW a \in App, Track(a)
  PROVE  /\ observed' \in Seq(App) /\ a \in Range(observed')
         /\ \A b \in Range(observed) : Alive(b) => b \in Range(observed')
<1>1. observed \in Seq(App)
  BY Zenon DEF DispatcherIInv, Types, TypeOK
<1> DEFINE There == {b \in App : Alive(b)}
<1>2. PICK seen \in Retained(observed, There) :
        observed' = IF a \in Range(seen) THEN seen ELSE Append(seen, a)
  BY Zenon DEF Track, Outlived
<1>3. seen \in Retained(observed, There)
  OBVIOUS
<1>4. seen \in Seq(App) /\ Range(seen) = {b \in Range(observed) : b \in There}
  <2> HIDE DEF There
  <2> QED
    BY <1>1, <1>3, RangeRetained
<1>5. /\ Append(seen, a) \in Seq(App)
      /\ Range(Append(seen, a)) = Range(seen) \cup {a}
  BY <1>4, RangeAppend
<1>6. Range(observed) \subseteq App
  BY <1>1, RangeSeq, Zenon
<1>7. observed' \in Seq(App) /\ Range(observed') = Range(seen) \cup {a}
  BY <1>2, <1>4, <1>5, Zenon
<1> QED
  BY <1>4, <1>6, <1>7, Zenon
-----------------------------------------------------------------------------
(* Every step keeps the invariant                                          *)

LEMMA InitHolds ==
  ASSUME Init
  PROVE  DispatcherIInv
<1> USE DEF Init
<1>1. Range(channel) = {} /\ Range(deferred) = {} /\ Pending = {} /\ Kept = {}
      /\ Resting = {}
  <2>1. Range(channel) = {} /\ Range(deferred) = {}
    BY SMT DEF Range
  <2> QED
    BY <2>1, Zenon DEF Pending, Kept, Resting
<1>2. Types
  <2>1. /\ 0 \in 0 .. MaxEvents /\ 0 \in 0 .. MaxBurst /\ 0 <= MaxDeferred
        /\ Len(<<>>) = 0
    BY DispatcherAssumption, SMT DEF BoundsAssumption
  <2>2. channel \in Seq(Event) /\ deferred \in Seq(Event) /\ observed \in Seq(App)
    BY SMT
  <2>3. reply \in [1 .. MaxEvents -> Reply]
    BY Zenon DEF Reply
  <2>4. overtaken \in Nat
    BY SMT
  <2> QED
    BY <2>1, <2>2, <2>3, <2>4, Zenon DEF Types, TypeOK
<1>3. Control
  BY Zenon DEF Control
<1>4. Requests
  <2>1. 1 .. sent = {}
    BY SMT
  <2> QED
    BY <1>1, <2>1, Zenon DEF Requests, Marked, Settled, Awaited
<1>5. Notices
  BY Zenon DEF Notices, Told, Owed, Room
<1>6. Authority
  BY <1>1, Zenon DEF Authority, Barred, Inactive, Seen, Cleared, Asked
<1>7. Counted
  BY DispatcherAssumption, SMT DEF Counted, BoundsAssumption
<1> QED
  BY <1>2, <1>3, <1>4, <1>5, <1>6, <1>7, Zenon DEF DispatcherIInv

\* The steps around the handler: the server and the relayer, Dart, and the calls
\* that use the registry.
LEMMA OutsideStep ==
  ASSUME DispatcherIInv,
         \/ \E a \in App : Release(a) \/ ListApplication(a)
         \/ CloseChannel \/ DartCompletes \/ StopTakes \/ StopClears
  PROVE  DispatcherIInv'
<1>1. Types /\ Control /\ Counted /\ burst \in 0 .. MaxBurst /\ MaxBurst \in Nat
  BY DispatcherAssumption, Zenon DEF DispatcherIInv, Types, TypeOK, BoundsAssumption
<1>2. /\ UNCHANGED <<channel, sent, pc, prefer, work, active, deferred, burst,
                     observed, reply, revoked, owed, told>>
      /\ held' \subseteq held
  BY Zenon DEF Release, ListApplication, CloseChannel, DartCompletes, StopTakes,
     StopClears, task, history
<1>3. /\ open' \in BOOLEAN /\ (open' => open)
      /\ stopping' \in {"no", "taken", "done"}
  <2>1. open \in BOOLEAN /\ stopping \in {"no", "taken", "done"}
    BY <1>1, Zenon DEF Types, TypeOK
  <2>2. open' = open \/ open' = FALSE
    BY Zenon DEF Release, ListApplication, CloseChannel, DartCompletes, StopTakes,
       StopClears
  <2>3. stopping' = stopping \/ stopping' \in {"taken", "done"}
    BY Zenon DEF Release, ListApplication, CloseChannel, DartCompletes, StopTakes,
       StopClears
  <2>4. CASE open' = open
    BY <2>1, <2>3, <2>4, Zenon
  <2>5. CASE open' = FALSE
    BY <2>1, <2>3, <2>5, Zenon
  <2> QED
    BY <2>2, <2>4, <2>5, Zenon
<1>4. \/ UNCHANGED <<ready, overtaken>>
      \/ ready' = TRUE /\ active # NoEvent /\ overtaken' = 0
  BY Zenon DEF Release, ListApplication, CloseChannel, DartCompletes, StopTakes,
     StopClears, task, history
<1>5. /\ RegistrySound
      /\ stopping' = "done" =>
           \A t \in sessions' :
             t.active /\ Alive(t.app) =>
               /\ stopping = "done"
               /\ \E s \in RemoveDead : s.app = t.app /\ s.active
  <2>1. ASSUME NEW a \in App, ListApplication(a)
        PROVE  RegistrySound /\ stopping' # "done"
    <3>1. Alive(a) /\ Project(a) /\ stopping' = stopping /\ stopping = "no"
      BY <2>1, Zenon DEF ListApplication, Alive
    <3> QED
      BY <1>2, <3>1, ProjectSound, Zenon
  <2>2. CASE StopClears
    <3>1. RegistrySound /\ \A t \in sessions' : ~t.active
      BY <1>2, <2>2, ClearSound, Zenon DEF StopClears
    <3> QED
      BY <3>1, Zenon
  <2>3. CASE (\E a \in App : Release(a)) \/ CloseChannel \/ DartCompletes \/ StopTakes
    <3>1. /\ UNCHANGED <<sessions, nextRef>>
          /\ stopping' = "done" => stopping = "done"
      BY <2>3, Zenon DEF Release, CloseChannel, DartCompletes, StopTakes
    <3> QED
      BY <1>2, <3>1, RegistryKept, Zenon
  <2> QED
    BY <2>1, <2>2, <2>3, Zenon
<1>6. Requests' /\ Notices' /\ Authority'
  BY <1>2, <1>5, QuietStep, Zenon
<1>7. Control'
  BY <1>1, <1>2, <1>3, Zenon DEF Control
<1>8. Counted'
  BY <1>1, <1>2, <1>4, SMT DEF Counted
<1>9. Types'
  <2>1. sessions' \subseteq SessionEntry /\ nextRef' \in 1 .. MaxRef
    BY <1>5, Zenon DEF RegistrySound
  <2>2. held' \subseteq App
    BY <1>1, <1>2, Zenon DEF Types, TypeOK
  <2>3. ready' \in BOOLEAN /\ (ready' => active # NoEvent) /\ overtaken' \in Nat
    <3>1. ready \in BOOLEAN /\ (ready => active # NoEvent) /\ overtaken \in Nat /\ 0 \in Nat
      BY <1>1, SMT DEF Types, TypeOK
    <3>2. CASE UNCHANGED <<ready, overtaken>>
      BY <3>1, <3>2, Zenon
    <3>3. CASE ready' = TRUE /\ active # NoEvent /\ overtaken' = 0
      BY <3>1, <3>3, Zenon
    <3> QED
      BY <1>4, <3>2, <3>3, Zenon
  <2> QED
    BY <1>1, <1>2, <1>3, <2>1, <2>2, <2>3, Zenon DEF Types, TypeOK
<1> QED
  BY <1>6, <1>7, <1>8, <1>9, Zenon DEF DispatcherIInv

LEMMA SendStep ==
  ASSUME DispatcherIInv, NEW a \in App, NEW kind \in Decision \cup Lifecycle,
         Send(kind, a)
  PROVE  DispatcherIInv'
<1> DEFINE e == [kind |-> kind, app |-> a, id |-> sent + 1, admission |-> FALSE]
<1>1. Types /\ Control /\ Requests /\ Notices /\ Authority /\ Counted
  BY Zenon DEF DispatcherIInv
<1>2. /\ open /\ a \in held /\ sent < MaxEvents
      /\ sent' = sent + 1
      /\ channel' = Append(channel, e)
      /\ reply' = [reply EXCEPT ![sent + 1] =
                     IF kind = "disconnect" THEN "no reply" ELSE "none"]
      /\ UNCHANGED <<open, held, stopping, pc, prefer, work, active, ready,
                     deferred, burst, observed, sessions, nextRef, revoked, owed,
                     told, overtaken>>
  BY Zenon DEF Send, task
<1>3. /\ sent + 1 \in 1 .. MaxEvents /\ sent' \in 0 .. MaxEvents
      /\ sent \in Nat /\ sent' = sent + 1 /\ MaxEvents \in Nat
  <2>1. sent \in 0 .. MaxEvents /\ MaxEvents \in Nat /\ sent' = sent + 1
        /\ sent < MaxEvents
    BY <1>1, <1>2, DispatcherAssumption, Zenon DEF Types, TypeOK, BoundsAssumption
  <2> QED
    BY <2>1, SMT
<1>4. /\ e \in Event /\ e.id = sent + 1 /\ e.app = a /\ e.kind = kind
      /\ e.admission = FALSE
  BY <1>3, Zenon DEF Event
<1> HIDE DEF e
<1>5. channel' \in Seq(Event) /\ Range(channel') = Range(channel) \cup {e}
  <2>1. channel \in Seq(Event)
    BY <1>1, Zenon DEF Types, TypeOK
  <2> QED
    BY <1>2, <1>4, <2>1, RangeAppend, Zenon
<1>6. Kept' = Kept /\ Resting' = Resting /\ Pending' = Pending \cup {e}
  BY <1>2, <1>5, Zenon DEF Kept, Resting, Pending
<1>7. /\ reply' \in [1 .. MaxEvents -> Reply]
      /\ reply'[sent + 1] = IF kind = "disconnect" THEN "no reply" ELSE "none"
      /\ \A i \in 1 .. MaxEvents : i # sent + 1 => reply'[i] = reply[i]
  <2>1. reply \in [1 .. MaxEvents -> Reply]
    BY <1>1, Zenon DEF Types
  <2>2. (IF kind = "disconnect" THEN "no reply" ELSE "none") \in Reply
    BY Zenon DEF Reply
  <2> QED
    BY <1>2, <1>3, <2>1, <2>2, Zenon
<1>8. Types'
  BY <1>1, <1>2, <1>3, <1>5, <1>7, Zenon DEF Types, TypeOK
<1>9. Control'
  BY <1>1, <1>2, Zenon DEF Control
<1>10. Counted'
  BY <1>1, <1>2, Zenon DEF Counted
<1>11. \A d \in Pending : d.id \in 1 .. MaxEvents /\ d.id <= sent /\ d.id # sent + 1
  <2>1. \A d \in Pending : d.id \in 1 .. MaxEvents /\ d.id <= sent
    BY <1>1, PendingEvents, EventFields, Zenon DEF Requests, Marked
  <2> QED
    BY <1>3, <2>1, SMT
<1>12. Requests'
  <2>1. Marked'
    <3>1. ASSUME NEW d \in Pending
          PROVE  /\ d.id <= sent'
                 /\ d.kind = "disconnect" => ~d.admission /\ reply'[d.id] # "none"
      <4>1. d.id <= sent'
        BY <1>3, <1>11, SMT
      <4> QED
        BY <1>1, <1>7, <1>11, <4>1, Zenon DEF Requests, Marked
    <3>2. /\ e.id <= sent'
          /\ e.kind = "disconnect" => ~e.admission /\ reply'[e.id] # "none"
      <4>1. e.id <= sent'
        BY <1>3, <1>4, SMT
      <4> QED
        BY <1>4, <1>7, <4>1, Zenon
    <3> QED
      BY <1>6, <3>1, <3>2, Zenon DEF Marked
  <2>2. Settled'
    <3>1. Resting \subseteq Pending
      BY <1>1, Zenon DEF Control, Resting, Pending, Kept
    <3> QED
      BY <1>1, <1>6, <1>7, <1>11, <3>1, Zenon DEF Requests, Settled
  <2>3. Awaited'
    <3> SUFFICES ASSUME NEW i \in 1 .. sent', reply'[i] = "none"
                 PROVE  i \in Ids(Pending')
      BY Zenon DEF Awaited
    <3>1. CASE i = sent + 1
      BY <1>4, <1>6, <3>1, Zenon DEF Ids
    <3>2. CASE i # sent + 1
      <4>1. i \in 1 .. sent /\ i \in 1 .. MaxEvents
        BY <1>3, <3>2, SMT
      <4>2. i \in Ids(Pending)
        BY <1>1, <1>7, <3>2, <4>1, Zenon DEF Requests, Awaited
      <4> QED
        BY <1>6, <4>2, Zenon DEF Ids
    <3> QED
      BY <3>1, <3>2, Zenon
  <2> QED
    BY <2>1, <2>2, <2>3, Zenon DEF Requests
<1>13. RegistrySound /\ \A t \in sessions' : t.active /\ Alive(t.app) =>
                          \E s \in RemoveDead : s.app = t.app /\ s.active
  BY <1>2, RegistryKept, Zenon
<1>14. Notices'
  <2>1. Told'
    BY <1>1, <1>2, Zenon DEF Notices, Told
  <2>2. Room'
    BY <1>1, <1>2, Zenon DEF Notices, Room, CancelsActive
  <2>3. Owed'
    BY <1>2, <1>13, DeliveredStep, Zenon
  <2> QED
    BY <2>1, <2>2, <2>3, Zenon DEF Notices
<1>15. Authority'
  <2>1. \A b : Alive(b)' => Alive(b)
    BY <1>2, <1>4, <1>6, AliveIs, Zenon
  <2>2. Barred' /\ Inactive' /\ Cleared'
    BY <1>2, <1>13, <2>1, AuthorityStep, Zenon
  <2>3. Seen'
    BY <1>1, <1>2, <1>6, Zenon DEF Authority, Seen
  <2>4. Asked'
    BY <1>1, <1>2, Zenon DEF Authority, Asked
  <2> QED
    BY <2>2, <2>3, <2>4, Zenon DEF Authority
<1> QED
  BY <1>8, <1>9, <1>10, <1>12, <1>14, <1>15, Zenon DEF DispatcherIInv

\* A step of the handler that takes no event in and keeps running.
LEMMA HandlerStep ==
  ASSUME DispatcherIInv, RegistrySound,
         UNCHANGED <<sent, held, stopping, observed>>, pc' # "ended",
         Pending' \subseteq Pending, Kept' \subseteq Kept,
         \A i \in 1 .. MaxEvents : reply[i] # "none" => reply'[i] # "none",
         \A e \in Pending : reply'[e.id] # "none" \/ e.id \in Ids(Pending'),
         \A e \in Resting' : e \in Resting \/ IsDecision(e) \/ reply'[e.id] # "none",
         \A t \in sessions' :
           t.active /\ Alive(t.app) =>
             \/ t.app \in Range(observed)
             \/ \E s \in RemoveDead : s.app = t.app /\ s.active
  PROVE  Requests' /\ Barred' /\ Inactive' /\ Cleared' /\ Seen'
<1>1. Requests'
  BY RequestsStep, Zenon
<1>2. \A a : Alive(a)' => Alive(a)
  BY AliveIs, Zenon
<1>3. Barred' /\ Inactive' /\ Cleared'
  BY <1>2, AuthorityStep, Zenon
<1>4. Seen'
  BY Zenon DEF DispatcherIInv, Authority, Seen
<1> QED
  BY <1>1, <1>3, <1>4, Zenon

LEMMA AnswerKeeps ==
  ASSUME DispatcherIInv, NEW ids, NEW r \in Reply, r # "none", Answer(ids, r)
  PROVE  /\ reply' \in [1 .. MaxEvents -> Reply]
         /\ \A i \in 1 .. MaxEvents :
              reply[i] # "none" \/ i \in ids => reply'[i] # "none"
<1>1. reply \in [1 .. MaxEvents -> Reply]
  BY Zenon DEF DispatcherIInv, Types
<1> QED
  BY <1>1, Zenon DEF Answer

\* What an event that starts does.
LEMMA StartFacts ==
  ASSUME DispatcherIInv, NEW e \in Event, Start(e)
  PROVE  /\ active' = e /\ ready' = FALSE /\ burst' = 0 /\ overtaken' = 0
         /\ burst' \in 0 .. MaxBurst /\ overtaken' \in Nat
         /\ told \subseteq told' /\ Told'
<1>1. active' = e /\ ready' = FALSE /\ burst' = 0 /\ overtaken' = 0
  BY Zenon DEF Start
<1>2. 0 \in 0 .. MaxBurst /\ 0 \in Nat
  BY DispatcherAssumption, SMT DEF BoundsAssumption
<1>3. told \subseteq told' /\ (~IsDecision(e) => Note(e) \in told')
  BY Zenon DEF Start, Note
<1>4. Told'
  BY <1>1, <1>3, Zenon DEF Told
<1> QED
  BY <1>1, <1>2, <1>3, <1>4, Zenon

LEMMA TakeDeferredStep ==
  ASSUME DispatcherIInv, TakeDeferred
  PROVE  DispatcherIInv'
<1> DEFINE e == Head(deferred)
<1>1. Types /\ Control /\ Requests /\ Notices /\ Authority /\ Counted
  BY Zenon DEF DispatcherIInv
<1>2. /\ pc = "loop" /\ active = NoEvent /\ work = NoEvent /\ ~ready
      /\ deferred # <<>> /\ deferred' = Tail(deferred)
      /\ UNCHANGED <<channel, open, sent, held, stopping, prefer, observed,
                     sessions, nextRef, reply, revoked, owed>>
  BY <1>1, Zenon DEF TakeDeferred, Control, Types, TypeOK
<1>3. deferred \in Seq(Event) /\ Len(deferred) <= MaxDeferred /\ MaxDeferred \in Nat
  BY <1>1, DispatcherAssumption, Zenon DEF Types, TypeOK, BoundsAssumption
<1>4. /\ e \in Event /\ deferred' \in Seq(Event) /\ Len(deferred') = Len(deferred) - 1
      /\ Range(deferred) = {e} \cup Range(deferred')
  BY <1>2, <1>3, RangeTail, Zenon
<1>5. Len(deferred') <= MaxDeferred
  BY <1>3, <1>4, SMT
<1>6. \/ /\ IsDecision(e) /\ work' = e /\ pc' = "prepare"
         /\ UNCHANGED <<active, ready, burst, overtaken, told>>
      \/ ~IsDecision(e) /\ Start(e) /\ UNCHANGED <<work, pc>>
  BY Zenon DEF TakeDeferred
<1> HIDE DEF e
<1>7. e # NoEvent
  BY <1>4, EventFields, Zenon
<1>8. /\ Kept' = Kept /\ Pending' = Pending /\ Resting' \subseteq Resting
      /\ Types' /\ Control' /\ Asked' /\ Counted' /\ Told' /\ told \subseteq told'
      /\ IsDecision(e) \/ Note(e) \in told'
      /\ pc' \in {"prepare", "loop"}
  <2>1. CASE /\ IsDecision(e) /\ work' = e /\ pc' = "prepare"
             /\ UNCHANGED <<active, ready, burst, overtaken, told>>
    <3>1. Kept' = Kept
      BY <1>2, <1>4, <1>7, <2>1, Zenon DEF Kept
    <3>2. Pending' = Pending /\ Resting' \subseteq Resting
      BY <1>2, <1>4, <2>1, <3>1, Zenon DEF Pending, Resting
    <3>3. Types'
      BY <1>1, <1>2, <1>4, <1>5, <2>1, Zenon DEF Types, TypeOK
    <3>4. Control'
      BY <1>2, <1>7, <2>1, Zenon DEF Control
    <3>5. Asked' /\ Told'
      BY <1>2, <2>1, Zenon DEF Asked, Told
    <3>6. Counted'
      BY <1>1, <1>2, <2>1, Zenon DEF Counted
    <3> QED
      BY <2>1, <3>1, <3>2, <3>3, <3>4, <3>5, <3>6, Zenon
  <2>2. CASE ~IsDecision(e) /\ Start(e) /\ UNCHANGED <<work, pc>>
    <3>1. /\ active' = e /\ ready' = FALSE /\ burst' = 0 /\ overtaken' = 0
          /\ burst' \in 0 .. MaxBurst /\ overtaken' \in Nat
          /\ told \subseteq told' /\ Told'
      BY <1>4, <2>2, StartFacts, Zenon
    <3>2. Kept' = Kept
      BY <1>2, <1>4, <1>7, <2>2, <3>1, Zenon DEF Kept
    <3>3. Pending' = Pending /\ Resting' \subseteq Resting
      BY <1>2, <1>4, <2>2, <3>1, <3>2, Zenon DEF Pending, Resting
    <3>4. Types'
      BY <1>1, <1>2, <1>4, <1>5, <2>2, <3>1, Zenon DEF Types, TypeOK
    <3>5. Control'
      BY <1>2, <2>2, Zenon DEF Control
    <3>6. Asked'
      BY <1>2, <2>2, <3>1, Zenon DEF Asked
    <3>7. Counted'
      BY <1>2, <2>2, <3>1, DispatcherAssumption, SMT DEF Counted, BoundsAssumption
    <3>8. Note(e) \in told'
      BY <1>7, <2>2, <3>1, Zenon DEF Told
    <3> QED
      BY <1>2, <2>2, <3>1, <3>2, <3>3, <3>4, <3>5, <3>6, <3>7, <3>8, Zenon
  <2> QED
    BY <1>6, <2>1, <2>2, Zenon
<1>9. RegistrySound /\ \A t \in sessions' : t.active /\ Alive(t.app) =>
                         \E s \in RemoveDead : s.app = t.app /\ s.active
  BY <1>2, RegistryKept, Zenon
<1>10. Requests' /\ Barred' /\ Inactive' /\ Cleared' /\ Seen'
  <2>1. \A d \in Pending : d.id \in Ids(Pending')
    BY <1>8, Zenon DEF Ids
  <2> QED
    BY <1>2, <1>8, <1>9, <2>1, HandlerStep, Zenon
<1>11. Owed'
  <2> SUFFICES ASSUME NEW n \in owed
               PROVE  Delivered(n)'
    BY <1>1, <1>2, Zenon DEF Notices, Owed
  <2>1. n.kind \in Lifecycle /\ Delivered(n)
    BY <1>1, <1>2, Zenon DEF Notices, Owed
  <2>2. n = Note(e) => n \in told'
    <3>1. Note(e).kind = e.kind
      BY Zenon DEF Note
    <3> QED
      BY <1>4, <1>8, <2>1, <3>1, EventFields, Zenon
  <2> QED
    BY <1>2, <1>4, <1>8, <2>1, <2>2, Zenon DEF Delivered
<1>12. Room'
  BY <1>8, Zenon DEF Room
<1> QED
  BY <1>8, <1>10, <1>11, <1>12, Zenon DEF DispatcherIInv, Notices, Authority

LEMMA PrepareRefusedStep ==
  ASSUME DispatcherIInv, PrepareRefused
  PROVE  DispatcherIInv'
<1>1. Types /\ Control /\ Requests /\ Notices /\ Authority /\ Counted
  BY Zenon DEF DispatcherIInv
<1>2. /\ pc = "prepare" /\ active = NoEvent /\ ~ready
      /\ work # NoEvent /\ work' = NoEvent /\ pc' = "loop"
      /\ Answer({work.id}, "failed")
      /\ UNCHANGED <<channel, open, sent, held, stopping, prefer, active, ready,
                     deferred, burst, observed, revoked, owed, told, overtaken>>
  BY <1>1, Zenon DEF PrepareRefused, Control, Types, TypeOK
<1>3. Alive(work.app) /\ work.app \in App /\ work \in Event /\ work.id \in 1 .. MaxEvents
  BY <1>2, WorkIsAlive, EventFields, Zenon
<1>4. work.app \in Range(observed)
  BY <1>1, <1>2, Zenon DEF Authority, Seen, Kept
<1>5. /\ RegistrySound
      /\ \A t \in sessions' :
           t.active /\ Alive(t.app) =>
             \/ t.app \in Range(observed)
             \/ \E s \in RemoveDead : s.app = t.app /\ s.active
  <2>1. CASE UNCHANGED <<sessions, nextRef>>
    BY <1>2, <2>1, RegistryKept, Zenon
  <2>2. CASE Project(work.app)
    BY <1>2, <1>3, <1>4, <2>2, ProjectSound, Zenon DEF OnlyActive
  <2> QED
    BY <2>1, <2>2, Zenon DEF PrepareRefused
<1>6. /\ reply' \in [1 .. MaxEvents -> Reply]
      /\ \A i \in 1 .. MaxEvents :
           reply[i] # "none" \/ i = work.id => reply'[i] # "none"
  <2>1. "failed" \in Reply /\ "failed" # "none"
    BY Zenon DEF Reply
  <2> QED
    BY <1>2, <2>1, AnswerKeeps, Zenon
<1>7. /\ Kept' \subseteq Kept /\ Pending' \subseteq Pending /\ Resting' \subseteq Resting
      /\ \A e \in Pending : e \in Pending' \/ e = work
  BY <1>2, Zenon DEF Kept, Pending, Resting
<1>8. Requests' /\ Barred' /\ Inactive' /\ Cleared' /\ Seen'
  <2>1. \A e \in Pending : reply'[e.id] # "none" \/ e.id \in Ids(Pending')
    BY <1>3, <1>6, <1>7, Zenon DEF Ids
  <2> QED
    BY <1>2, <1>5, <1>6, <1>7, <2>1, HandlerStep, Zenon
<1>9. Types'
  <2>1. sessions' \subseteq SessionEntry /\ nextRef' \in 1 .. MaxRef
    BY <1>5, Zenon DEF RegistrySound
  <2> QED
    BY <1>1, <1>2, <1>6, <2>1, Zenon DEF Types, TypeOK
<1>10. Control' /\ Asked'
  BY <1>1, <1>2, Zenon DEF Control, Asked, Authority
<1>11. Counted'
  BY <1>1, <1>2, Zenon DEF Counted
<1>12. Notices'
  <2>1. Told' /\ Room'
    BY <1>2, Zenon DEF Told, Room
  <2>2. Owed'
    BY <1>1, <1>2, Zenon DEF Notices, Owed, Delivered
  <2> QED
    BY <2>1, <2>2, Zenon DEF Notices
<1> QED
  BY <1>8, <1>9, <1>10, <1>11, <1>12, Zenon DEF DispatcherIInv, Authority

LEMMA PrepareRegistersStep ==
  ASSUME DispatcherIInv, PrepareRegisters
  PROVE  DispatcherIInv'
<1>1. Types /\ Control /\ Requests /\ Notices /\ Authority /\ Counted
  BY Zenon DEF DispatcherIInv
<1>2. /\ pc = "prepare" /\ active = NoEvent /\ work # NoEvent /\ IsDecision(work)
      /\ pc' = "start" /\ Registers(work.app) /\ Project(work.app)
      /\ UNCHANGED <<channel, open, sent, held, stopping, prefer, work, active,
                     ready, deferred, burst, observed, reply, revoked, owed, told,
                     overtaken>>
  BY <1>1, Zenon DEF PrepareRegisters, Control, history
<1>3. Alive(work.app) /\ work.app \in App
  BY <1>2, WorkIsAlive, Zenon
<1>4. work.app \in Range(observed)
  BY <1>1, <1>2, Zenon DEF Authority, Seen, Kept
<1>5. RegistrySound /\ OnlyActive({work.app}) /\ work.app \notin revoked
  BY <1>2, <1>3, ProjectSound, Zenon
<1>6. /\ Kept' = Kept /\ Pending' = Pending /\ Resting' = Resting
  BY <1>2, Zenon DEF Kept, Pending, Resting
<1>7. Requests' /\ Barred' /\ Inactive' /\ Cleared' /\ Seen'
  <2>1. \A e \in Pending : e.id \in Ids(Pending')
    BY <1>6, Zenon DEF Ids
  <2>2. \A t \in sessions' :
          t.active => \/ t.app \in Range(observed)
                      \/ \E s \in RemoveDead : s.app = t.app /\ s.active
    BY <1>4, <1>5, Zenon DEF OnlyActive
  <2> QED
    BY <1>2, <1>5, <1>6, <2>1, <2>2, HandlerStep, Zenon
<1>8. Types'
  <2>1. sessions' \subseteq SessionEntry /\ nextRef' \in 1 .. MaxRef
    BY <1>5, Zenon DEF RegistrySound
  <2> QED
    BY <1>1, <1>2, <2>1, Zenon DEF Types, TypeOK
<1>9. Control' /\ Asked'
  BY <1>1, <1>2, <1>5, Zenon DEF Control, Asked
<1>10. Counted'
  <2>1. ~ready
    BY <1>1, <1>2, Zenon DEF Types, TypeOK
  <2> QED
    BY <1>1, <1>2, <2>1, Zenon DEF Counted
<1>11. Notices'
  <2>1. Told' /\ Room'
    BY <1>2, Zenon DEF Told, Room
  <2>2. Owed'
    BY <1>1, <1>2, Zenon DEF Notices, Owed, Delivered
  <2> QED
    BY <2>1, <2>2, Zenon DEF Notices
<1> QED
  BY <1>7, <1>8, <1>9, <1>10, <1>11, Zenon DEF DispatcherIInv, Authority

LEMMA StartDecisionStep ==
  ASSUME DispatcherIInv, StartDecision
  PROVE  DispatcherIInv'
<1>1. Types /\ Control /\ Requests /\ Notices /\ Authority /\ Counted
  BY Zenon DEF DispatcherIInv
<1>2. /\ pc = "start" /\ active = NoEvent /\ work # NoEvent /\ IsDecision(work)
      /\ pc' = "loop" /\ work' = NoEvent /\ Start(work)
      /\ UNCHANGED <<channel, open, sent, held, stopping, prefer, deferred,
                     observed, sessions, nextRef, reply, revoked, owed>>
  BY <1>1, Zenon DEF StartDecision, Control
<1>3. work \in Event
  BY <1>2, WorkIsAlive, Zenon
<1>4. /\ active' = work /\ ready' = FALSE /\ burst' = 0 /\ overtaken' = 0
      /\ burst' \in 0 .. MaxBurst /\ overtaken' \in Nat
      /\ told \subseteq told' /\ Told'
  BY <1>2, <1>3, StartFacts, Zenon
<1>5. /\ Kept' = Kept /\ Pending' = Pending
      /\ \A e \in Resting' : e \in Resting \/ IsDecision(e)
  BY <1>2, <1>4, Zenon DEF Kept, Pending, Resting
<1>6. RegistrySound /\ \A t \in sessions' : t.active /\ Alive(t.app) =>
                         \E s \in RemoveDead : s.app = t.app /\ s.active
  BY <1>2, RegistryKept, Zenon
<1>7. Requests' /\ Barred' /\ Inactive' /\ Cleared' /\ Seen'
  <2>1. \A e \in Pending : e.id \in Ids(Pending')
    BY <1>5, Zenon DEF Ids
  <2> QED
    BY <1>2, <1>5, <1>6, <2>1, HandlerStep, Zenon
<1>8. Types'
  BY <1>1, <1>2, <1>3, <1>4, Zenon DEF Types, TypeOK
<1>9. Control' /\ Asked'
  BY <1>1, <1>2, <1>4, Zenon DEF Control, Asked, Authority
<1>10. Counted'
  BY <1>2, <1>4, DispatcherAssumption, SMT DEF Counted, BoundsAssumption
<1>11. Notices'
  <2>1. Room'
    BY <1>2, Zenon DEF Room
  <2>2. Owed'
    BY <1>1, <1>2, <1>4, Zenon DEF Notices, Owed, Delivered
  <2> QED
    BY <1>4, <2>1, <2>2, Zenon DEF Notices
<1> QED
  BY <1>7, <1>8, <1>9, <1>10, <1>11, Zenon DEF DispatcherIInv, Authority

LEMMA EnterSelectStep ==
  ASSUME DispatcherIInv, EnterSelect
  PROVE  DispatcherIInv'
<1>1. Types /\ Control /\ Requests /\ Notices /\ Authority /\ Counted
  BY Zenon DEF DispatcherIInv
<1>2. /\ pc = "loop" /\ active # NoEvent /\ work = NoEvent
      /\ pc' = "select" /\ PollsFirst
      /\ UNCHANGED <<channel, open, sent, held, stopping, work, active, ready,
                     deferred, observed, sessions, nextRef, reply, revoked, owed,
                     told, overtaken>>
  BY <1>1, Zenon DEF EnterSelect, Control, history
<1>3. /\ burst \in 0 .. MaxBurst /\ MaxBurst \in Nat \ {0} /\ overtaken \in Nat
      /\ prefer' \in {"event", "callback"}
  BY <1>1, <1>2, DispatcherAssumption, Zenon
     DEF Types, TypeOK, BoundsAssumption, PollsFirst
<1>4. burst' \in 0 .. MaxBurst
  BY <1>2, <1>3, SMT DEF PollsFirst
<1>5. Kept' = Kept /\ Pending' = Pending /\ Resting' = Resting
  BY <1>2, Zenon DEF Kept, Pending, Resting
<1>6. RegistrySound /\ \A t \in sessions' : t.active /\ Alive(t.app) =>
                         \E s \in RemoveDead : s.app = t.app /\ s.active
  BY <1>2, RegistryKept, Zenon
<1>7. Requests' /\ Barred' /\ Inactive' /\ Cleared' /\ Seen'
  <2>1. \A e \in Pending : e.id \in Ids(Pending')
    BY <1>5, Zenon DEF Ids
  <2> QED
    BY <1>2, <1>5, <1>6, <2>1, HandlerStep, Zenon
<1>8. Types'
  BY <1>1, <1>2, <1>3, <1>4, Zenon DEF Types, TypeOK
<1>9. Control' /\ Asked'
  BY <1>1, <1>2, Zenon DEF Control, Asked, Authority
<1>10. Counted'
  <2>1. /\ overtaken <= MaxBurst /\ (ready => overtaken <= burst)
    BY <1>1, <1>2, Zenon DEF Counted
  <2>2. CASE burst >= MaxBurst
    BY <1>2, <1>3, <2>1, <2>2, SMT DEF Counted, PollsFirst
  <2>3. CASE ~(burst >= MaxBurst)
    BY <1>2, <1>3, <2>1, <2>3, SMT DEF Counted, PollsFirst
  <2> QED
    BY <2>2, <2>3, Zenon
<1>11. Notices'
  <2>1. Told' /\ Room'
    BY <1>1, <1>2, Zenon DEF Notices, Told, Room
  <2>2. Owed'
    BY <1>1, <1>2, Zenon DEF Notices, Owed, Delivered
  <2> QED
    BY <2>1, <2>2, Zenon DEF Notices
<1> QED
  BY <1>7, <1>8, <1>9, <1>10, <1>11, Zenon DEF DispatcherIInv, Authority

LEMMA SelectCallbackStep ==
  ASSUME DispatcherIInv, SelectCallback
  PROVE  DispatcherIInv'
<1>1. Types /\ Control /\ Requests /\ Notices /\ Authority /\ Counted
  BY Zenon DEF DispatcherIInv
<1>2. /\ pc = "select" /\ active # NoEvent /\ work = NoEvent
      /\ pc' = "loop" /\ active' = NoEvent /\ ready' = FALSE /\ burst' = 0
      /\ Answer(Ids(DecisionsIn({active})), "outcome")
      /\ UNCHANGED <<channel, open, sent, held, stopping, prefer, work, deferred,
                     observed, sessions, nextRef, revoked, owed, told, overtaken>>
  BY <1>1, Zenon DEF SelectCallback, Control
<1>3. active \in Event /\ active.id \in 1 .. MaxEvents
  BY <1>1, <1>2, EventFields, Zenon DEF Types, TypeOK
<1>4. /\ reply' \in [1 .. MaxEvents -> Reply]
      /\ \A i \in 1 .. MaxEvents : reply[i] # "none" => reply'[i] # "none"
      /\ reply'[active.id] # "none"
  <2>1. "outcome" \in Reply /\ "outcome" # "none"
    BY Zenon DEF Reply
  <2>2. /\ reply' \in [1 .. MaxEvents -> Reply]
        /\ \A i \in 1 .. MaxEvents :
             reply[i] # "none" \/ i \in Ids(DecisionsIn({active})) => reply'[i] # "none"
    BY <1>2, <2>1, AnswerKeeps, Zenon
  <2>3. IsDecision(active) => active.id \in Ids(DecisionsIn({active}))
    BY <1>2, Zenon DEF Ids, DecisionsIn
  <2>4. ~IsDecision(active) => reply[active.id] # "none"
    BY <1>1, <1>2, Zenon DEF Requests, Settled, Resting
  <2> QED
    BY <1>3, <2>2, <2>3, <2>4, Zenon
<1>5. /\ Kept' \subseteq Kept /\ Pending' \subseteq Pending /\ Resting' \subseteq Resting
      /\ \A e \in Pending : e \in Pending' \/ e = active
  BY <1>2, Zenon DEF Kept, Pending, Resting
<1>6. RegistrySound /\ \A t \in sessions' : t.active /\ Alive(t.app) =>
                         \E s \in RemoveDead : s.app = t.app /\ s.active
  BY <1>2, RegistryKept, Zenon
<1>7. Requests' /\ Barred' /\ Inactive' /\ Cleared' /\ Seen'
  <2>1. \A e \in Pending : reply'[e.id] # "none" \/ e.id \in Ids(Pending')
    BY <1>4, <1>5, Zenon DEF Ids
  <2> QED
    BY <1>2, <1>4, <1>5, <1>6, <2>1, HandlerStep, Zenon
<1>8. Types'
  <2>1. 0 \in 0 .. MaxBurst
    BY DispatcherAssumption, SMT DEF BoundsAssumption
  <2> QED
    BY <1>1, <1>2, <1>4, <2>1, Zenon DEF Types, TypeOK
<1>9. Control' /\ Asked'
  BY <1>1, <1>2, Zenon DEF Control, Asked
<1>10. Counted'
  BY <1>1, <1>2, Zenon DEF Counted
<1>11. Notices'
  <2>1. Told' /\ Room'
    BY <1>2, Zenon DEF Told, Room
  <2>2. Owed'
    BY <1>1, <1>2, Zenon DEF Notices, Owed, Delivered
  <2> QED
    BY <2>1, <2>2, Zenon DEF Notices
<1> QED
  BY <1>7, <1>8, <1>9, <1>10, <1>11, Zenon DEF DispatcherIInv, Authority

-----------------------------------------------------------------------------
(* Events the handler receives                                             *)

LEMMA ReceiveFacts ==
  ASSUME DispatcherIInv, NEW e, Receive(e)
  PROVE  /\ e \in Event /\ e \in Range(channel) /\ e.app \in App /\ Alive(e.app)
         /\ e.id \in 1 .. MaxEvents
         /\ channel' \in Seq(Event) /\ Range(channel) = {e} \cup Range(channel')
         /\ work = NoEvent /\ pc \in {"loop", "select"}
         /\ UNCHANGED <<open, sent, held, stopping, prefer, active, ready, sessions,
                        nextRef, revoked, owed, told>>
         /\ observed' \in Seq(App) /\ e.app \in Range(observed')
         /\ \A a \in Range(observed) : Alive(a) => a \in Range(observed')
         /\ burst' \in 0 .. MaxBurst /\ overtaken' \in Nat /\ overtaken' <= MaxBurst
         /\ ready' => overtaken' <= burst'
<1>1. Types /\ Control /\ Counted
  BY Zenon DEF DispatcherIInv
<1>2. /\ Receiving /\ channel # <<>> /\ e = Head(channel) /\ channel' = Tail(channel)
      /\ Track(e.app)
      /\ overtaken' = IF ready THEN overtaken + 1 ELSE 0
      /\ burst' = IF active = NoEvent THEN burst ELSE burst + 1
      /\ UNCHANGED <<open, sent, held, stopping, prefer, active, ready, sessions,
                     nextRef, revoked, owed, told>>
  BY Zenon DEF Receive
<1>3. channel \in Seq(Event)
  BY <1>1, Zenon DEF Types, TypeOK
<1>4. /\ e \in Event /\ e \in Range(channel)
      /\ channel' \in Seq(Event) /\ Range(channel) = {e} \cup Range(channel')
  BY <1>2, <1>3, RangeTail, Zenon
<1>5. e.app \in App /\ e.id \in 1 .. MaxEvents /\ Alive(e.app)
  BY <1>4, EventFields, Zenon DEF Alive
<1>6. /\ observed' \in Seq(App) /\ e.app \in Range(observed')
      /\ \A a \in Range(observed) : Alive(a) => a \in Range(observed')
  BY <1>2, <1>5, TrackKeeps, Zenon
<1>7. /\ work = NoEvent /\ pc \in {"loop", "select"}
      /\ active # NoEvent => pc = "select"
      /\ pc = "select" /\ ready => prefer = "event"
  BY <1>1, <1>2, Zenon DEF Receiving, Control
<1>8. burst' \in 0 .. MaxBurst /\ overtaken' \in Nat /\ overtaken' <= MaxBurst
      /\ (ready => overtaken' <= burst')
  <2>1. /\ burst \in 0 .. MaxBurst /\ overtaken \in Nat /\ MaxBurst \in Nat
        /\ ready => active # NoEvent
    BY <1>1, DispatcherAssumption, Zenon DEF Types, TypeOK, BoundsAssumption
  <2>2. /\ active # NoEvent => burst < MaxBurst
        /\ ready => overtaken <= burst
    BY <1>1, <1>7, <2>1, SMT DEF Counted
  <2>3. CASE ready
    <3>1. overtaken' = overtaken + 1 /\ burst' = burst + 1
      BY <1>2, <2>1, <2>3, Zenon
    <3> QED
      BY <2>1, <2>2, <2>3, <3>1, SMT
  <2>4. CASE ~ready
    <3>1. overtaken' = 0 /\ (burst' = burst \/ (active # NoEvent /\ burst' = burst + 1))
      BY <1>2, <2>4, Zenon
    <3> QED
      BY <2>1, <2>2, <2>4, <3>1, SMT
  <2> QED
    BY <2>3, <2>4, Zenon
<1> QED
  BY <1>2, <1>4, <1>5, <1>6, <1>7, <1>8, Zenon

LEMMA ReceivedStep ==
  ASSUME DispatcherIInv, NEW e, Receive(e), pc' \notin {"select", "ended"},
         \A d \in Pending' :
           \E c \in Pending : /\ d.id = c.id /\ d.kind = c.kind /\ d.app = c.app
                              /\ d.kind = "disconnect" /\ d.admission => c.admission,
         \A i \in 1 .. MaxEvents : reply[i] # "none" => reply'[i] # "none",
         \A d \in Pending : reply'[d.id] # "none" \/ d.id \in Ids(Pending'),
         \A d \in Resting' : d \in Resting \/ IsDecision(d),
         \A d \in Kept' : d \in Kept \/ d.app = e.app
  PROVE  Requests' /\ Barred' /\ Inactive' /\ Cleared' /\ Seen' /\ Counted'
<1>1. /\ UNCHANGED <<sent, held, stopping, sessions, nextRef, revoked>>
      /\ e.app \in Range(observed')
      /\ \A a \in Range(observed) : Alive(a) => a \in Range(observed')
      /\ overtaken' <= MaxBurst /\ (ready' => overtaken' <= burst')
  BY ReceiveFacts, Zenon
<1>2. Requests'
  BY <1>1, RequestsStep, Zenon
<1>3. \A a : Alive(a)' => Alive(a)
  BY <1>1, AliveIs, Zenon
<1>4. RegistrySound /\ \A t \in sessions' : t.active /\ Alive(t.app) =>
                         \E s \in RemoveDead : s.app = t.app /\ s.active
  BY <1>1, RegistryKept, Zenon
<1>5. Barred' /\ Inactive' /\ Cleared'
  BY <1>1, <1>3, <1>4, AuthorityStep, Zenon
<1>6. Seen'
  <2> SUFFICES ASSUME NEW d \in Kept'
               PROVE  d.app \in Range(observed')
    BY Zenon DEF Seen
  <2>1. CASE d \in Kept
    <3>1. d.app \in Range(observed)
      BY <2>1, Zenon DEF DispatcherIInv, Authority, Seen
    <3>2. Alive(d.app)
      BY <2>1, AliveIs, Zenon DEF Pending
    <3> QED
      BY <1>1, <3>1, <3>2, Zenon
  <2> QED
    BY <1>1, <2>1, Zenon
<1>7. Counted'
  BY <1>1, Zenon DEF Counted
<1> QED
  BY <1>2, <1>5, <1>6, <1>7, Zenon

LEMMA ReceiveDecisionStep ==
  ASSUME DispatcherIInv, ReceiveDecision
  PROVE  DispatcherIInv'
<1>1. Types /\ Control /\ Requests /\ Notices /\ Authority /\ Counted
  BY Zenon DEF DispatcherIInv
<1>2. PICK e \in Range(channel) :
        /\ IsDecision(e) /\ Receive(e)
        /\ \/ /\ active = NoEvent /\ work' = e /\ pc' = "prepare"
              /\ UNCHANGED <<deferred, reply>>
           \/ /\ active # NoEvent /\ Len(deferred) < MaxDeferred
              /\ deferred' = Append(deferred, e) /\ pc' = "loop"
              /\ UNCHANGED <<work, reply>>
           \/ /\ active # NoEvent /\ Len(deferred) >= MaxDeferred
              /\ Answer({e.id}, "failed") /\ pc' = "loop"
              /\ UNCHANGED <<work, deferred>>
  BY Zenon DEF ReceiveDecision
<1>3. /\ e \in Event /\ e.id \in 1 .. MaxEvents
      /\ channel' \in Seq(Event) /\ Range(channel) = {e} \cup Range(channel')
      /\ work = NoEvent /\ pc \in {"loop", "select"}
      /\ UNCHANGED <<open, sent, held, stopping, prefer, active, ready, sessions,
                     nextRef, revoked, owed, told>>
      /\ observed' \in Seq(App)
      /\ burst' \in 0 .. MaxBurst /\ overtaken' \in Nat
  BY <1>2, ReceiveFacts, Zenon
<1>4. e # NoEvent
  BY <1>3, EventFields, Zenon
<1>5. /\ pc' \in {"prepare", "loop"} /\ Control'
      /\ deferred' \in Seq(Event) /\ Len(deferred') <= MaxDeferred
      /\ work' \in Event \cup {NoEvent}
      /\ reply' \in [1 .. MaxEvents -> Reply]
      /\ \A i \in 1 .. MaxEvents : reply[i] # "none" => reply'[i] # "none"
      /\ Pending' \subseteq Pending
      /\ \A d \in Kept' : d \in Kept \/ d = e
      /\ \A d \in Resting' : d \in Resting \/ d = e
      /\ \A d \in Pending : d \in Pending' \/ (d = e /\ reply'[d.id] # "none")
      /\ Range(deferred) \subseteq Range(deferred')
  <2>1. /\ deferred \in Seq(Event) /\ Len(deferred) <= MaxDeferred
        /\ MaxDeferred \in Nat /\ reply \in [1 .. MaxEvents -> Reply]
    BY <1>1, DispatcherAssumption, Zenon DEF Types, TypeOK, BoundsAssumption
  <2>2. CASE /\ active = NoEvent /\ work' = e /\ pc' = "prepare"
             /\ UNCHANGED <<deferred, reply>>
    <3>1. Control'
      BY <1>2, <1>3, <1>4, <2>2, Zenon DEF Control
    <3>2. Kept' = Kept \cup {e} /\ Pending' = Pending /\ Resting' \subseteq Resting
      BY <1>3, <1>4, <2>2, Zenon DEF Kept, Pending, Resting
    <3> QED
      BY <1>3, <2>1, <2>2, <3>1, <3>2, Zenon
  <2>3. CASE /\ active # NoEvent /\ Len(deferred) < MaxDeferred
             /\ deferred' = Append(deferred, e) /\ pc' = "loop"
             /\ UNCHANGED <<work, reply>>
    <3>1. /\ deferred' \in Seq(Event) /\ Len(deferred') = Len(deferred) + 1
          /\ Range(deferred') = Range(deferred) \cup {e}
      <4>1. /\ Append(deferred, e) \in Seq(Event)
            /\ Len(Append(deferred, e)) = Len(deferred) + 1
            /\ Range(Append(deferred, e)) = Range(deferred) \cup {e}
        BY <1>3, <2>1, RangeAppend
      <4> QED
        BY <2>3, <4>1, Zenon
    <3>2. Len(deferred') <= MaxDeferred
      BY <2>1, <2>3, <3>1, SMT
    <3>3. Control'
      BY <1>3, <2>3, Zenon DEF Control
    <3>4. Kept' = Kept \cup {e} /\ Pending' = Pending /\ Resting' \subseteq Resting \cup {e}
      BY <1>3, <2>3, <3>1, Zenon DEF Kept, Pending, Resting
    <3> QED
      BY <1>3, <2>1, <2>3, <3>1, <3>2, <3>3, <3>4, Zenon
  <2>4. CASE /\ active # NoEvent /\ Len(deferred) >= MaxDeferred
             /\ Answer({e.id}, "failed") /\ pc' = "loop"
             /\ UNCHANGED <<work, deferred>>
    <3>1. /\ reply' \in [1 .. MaxEvents -> Reply]
          /\ \A i \in 1 .. MaxEvents : reply[i] # "none" \/ i = e.id => reply'[i] # "none"
      <4>1. "failed" \in Reply /\ "failed" # "none"
        BY Zenon DEF Reply
      <4> QED
        BY <2>4, <4>1, AnswerKeeps, Zenon
    <3>2. Control'
      BY <1>3, <2>4, Zenon DEF Control
    <3>3. /\ Kept' = Kept /\ Pending' \subseteq Pending /\ Resting' \subseteq Resting
          /\ \A d \in Pending : d \in Pending' \/ d = e
      BY <1>3, <2>4, Zenon DEF Kept, Pending, Resting
    <3> QED
      BY <1>3, <2>1, <2>4, <3>1, <3>2, <3>3, Zenon
  <2> QED
    BY <1>2, <2>2, <2>3, <2>4, Zenon
<1>6. Requests' /\ Barred' /\ Inactive' /\ Cleared' /\ Seen' /\ Counted'
  <2>1. \A d \in Pending : reply'[d.id] # "none" \/ d.id \in Ids(Pending')
    BY <1>5, Zenon DEF Ids
  <2> QED
    BY <1>2, <1>5, <2>1, ReceivedStep, Zenon
<1>7. Types'
  BY <1>1, <1>3, <1>5, Zenon DEF Types, TypeOK
<1>8. Asked'
  BY <1>1, <1>3, <1>5, Zenon DEF Authority, Asked
<1>9. Notices'
  <2>1. Told'
    BY <1>1, <1>3, Zenon DEF Notices, Told
  <2>2. Room'
    BY <1>5, Zenon DEF Room
  <2>3. Owed'
    BY <1>1, <1>3, <1>5, Zenon DEF Notices, Owed, Delivered
  <2> QED
    BY <2>1, <2>2, <2>3, Zenon DEF Notices
<1> QED
  BY <1>5, <1>6, <1>7, <1>8, <1>9, Zenon DEF DispatcherIInv, Authority

LEMMA ReceiveLifecycleStep ==
  ASSUME DispatcherIInv, ReceiveLifecycle
  PROVE  DispatcherIInv'
<1> DEFINE Mine(e) == {d \in Range(deferred) : IsDecisionFor(d, e.app)}
           Admissions(e) == {d \in Mine(e) \cup DecisionsIn({active}) :
                               d.app = e.app /\ d.kind = "application"}
<1>1. Types /\ Control /\ Requests /\ Notices /\ Authority /\ Counted
  BY Zenon DEF DispatcherIInv
<1>2. PICK e \in Range(channel) :
        /\ ~IsDecision(e) /\ Receive(e)
        /\ deferred' \in Retained(deferred, Range(deferred) \ Mine(e))
        /\ Answer(Ids(Mine(e)), "failed")
        /\ work' = [e EXCEPT !.admission = e.kind = "cancel" /\ Admissions(e) # {}]
        /\ pc' = "revoke"
  BY Zenon DEF ReceiveLifecycle
<1>3. /\ e \in Event /\ e.id \in 1 .. MaxEvents
      /\ channel' \in Seq(Event) /\ Range(channel) = {e} \cup Range(channel')
      /\ work = NoEvent /\ pc \in {"loop", "select"}
      /\ UNCHANGED <<open, sent, held, stopping, prefer, active, ready, sessions,
                     nextRef, revoked, owed, told>>
      /\ observed' \in Seq(App)
      /\ burst' \in 0 .. MaxBurst /\ overtaken' \in Nat
  BY <1>2, ReceiveFacts, Zenon
<1>4. /\ deferred \in Seq(Event) /\ Len(deferred) <= MaxDeferred /\ MaxDeferred \in Nat
      /\ Range(deferred) \subseteq Event
  BY <1>1, DispatcherAssumption, RangeSeq, Zenon DEF Types, TypeOK, BoundsAssumption
<1>5. /\ work' \in Event /\ work'.id = e.id /\ work'.kind = e.kind /\ work'.app = e.app
      /\ work'.admission => e.kind = "cancel" /\ Admissions(e) # {}
  <2>1. (e.kind = "cancel" /\ Admissions(e) # {}) \in BOOLEAN
    OBVIOUS
  <2>2. \A b \in BOOLEAN : LET w == [e EXCEPT !.admission = b]
                           IN  /\ w \in Event /\ w.id = e.id /\ w.kind = e.kind
                               /\ w.app = e.app /\ w.admission = b
    BY <1>3, Zenon DEF Event
  <2> HIDE DEF Admissions
  <2>3. /\ work' \in Event /\ work'.id = e.id /\ work'.kind = e.kind
        /\ work'.app = e.app
        /\ work'.admission = (e.kind = "cancel" /\ Admissions(e) # {})
    BY <1>2, <2>1, <2>2, Zenon
  <2> QED
    BY <2>3, Zenon
<1>6. /\ deferred' \in Seq(Event) /\ Len(deferred') <= Len(deferred)
      /\ Range(deferred') = {d \in Range(deferred) : d \in Range(deferred) \ Mine(e)}
  <2> DEFINE T == Range(deferred) \ Mine(e)
  <2>1. deferred' \in Retained(deferred, T)
    BY <1>2, Zenon
  <2> HIDE DEF T
  <2>2. /\ deferred' \in Seq(Event) /\ Len(deferred') <= Len(deferred)
        /\ Range(deferred') = {d \in Range(deferred) : d \in T}
    BY <1>4, <2>1, RangeRetained
  <2> QED
    BY <2>2, Zenon DEF T
<1>7. Len(deferred') <= MaxDeferred
  BY <1>4, <1>6, SMT
<1>8. /\ reply' \in [1 .. MaxEvents -> Reply]
      /\ \A i \in 1 .. MaxEvents :
           reply[i] # "none" \/ i \in Ids(Mine(e)) => reply'[i] # "none"
  <2>1. "failed" \in Reply /\ "failed" # "none"
    BY Zenon DEF Reply
  <2> HIDE DEF Mine
  <2> QED
    BY <1>2, <2>1, AnswerKeeps, Zenon
<1>9. work' # NoEvent /\ ~IsDecision(work')
  BY <1>2, <1>5, EventFields, Zenon DEF IsDecision
<1>10. Control'
  BY <1>2, <1>9, Zenon DEF Control
<1>11. Types'
  BY <1>1, <1>2, <1>3, <1>5, <1>6, <1>7, <1>8, Zenon DEF Types, TypeOK
<1>12. /\ \A d \in Pending' : d \in Pending \/ d = work'
       /\ \A d \in Kept' : d \in Kept \/ d = work'
       /\ Resting' \subseteq Resting
       /\ \A d \in Pending : d \in Pending' \/ d = e \/ d \in Mine(e)
       /\ e \in Pending /\ work' \in Pending'
  <2>1. /\ Range(deferred') \subseteq Range(deferred)
        /\ \A d \in Range(deferred) : d \in Range(deferred') \/ d \in Mine(e)
    BY <1>6, Zenon
  <2> HIDE DEF Mine
  <2> QED
    BY <1>2, <1>3, <1>9, <2>1, Zenon DEF Pending, Kept, Resting
<1>13. Requests' /\ Barred' /\ Inactive' /\ Cleared' /\ Seen' /\ Counted'
  <2>1. \A d \in Pending' :
          \E c \in Pending : /\ d.id = c.id /\ d.kind = c.kind /\ d.app = c.app
                             /\ d.kind = "disconnect" /\ d.admission => c.admission
    BY <1>5, <1>12, Zenon
  <2>2. \A d \in Pending : reply'[d.id] # "none" \/ d.id \in Ids(Pending')
    <3>1. \A d \in Mine(e) : d.id \in Ids(Mine(e)) /\ d.id \in 1 .. MaxEvents
      BY <1>4, EventFields, Zenon DEF Ids
    <3> QED
      BY <1>5, <1>8, <1>12, <3>1, Zenon DEF Ids
  <2>3. \A d \in Kept' : d \in Kept \/ d.app = e.app
    BY <1>5, <1>12, Zenon
  <2> QED
    BY <1>2, <1>8, <1>12, <2>1, <2>2, <2>3, ReceivedStep, Zenon
<1>14. Asked'
  BY <1>1, <1>2, <1>3, Zenon DEF Authority, Asked
<1>15. Told'
  BY <1>1, <1>3, Zenon DEF Notices, Told
<1>16. Owed'
  <2> SUFFICES ASSUME NEW n \in owed
               PROVE  Delivered(n)'
    BY <1>1, <1>3, Zenon DEF Notices, Owed
  <2>1. n.kind \in Lifecycle /\ Delivered(n)
    BY <1>1, <1>3, Zenon DEF Notices, Owed
  <2>2. CASE n \in told
    BY <1>3, <2>2, Zenon DEF Delivered
  <2>3. CASE \E d \in Range(deferred) : n = Note(d)
    <3>1. PICK d \in Range(deferred) : n = Note(d)
      BY <2>3, Zenon
    <3>2. ~IsDecision(d)
      <4>1. d.kind = n.kind
        BY <3>1, Zenon DEF Note
      <4> QED
        BY <1>4, <2>1, <4>1, EventFields, Zenon
    <3>3. d \in Range(deferred')
      BY <1>6, <3>2, Zenon DEF IsDecisionFor
    <3> QED
      BY <3>1, <3>3, Zenon DEF Delivered
  <2> QED
    BY <1>3, <2>1, <2>2, <2>3, Zenon DEF Delivered
<1>17. Room'
  <2> SUFFICES ASSUME work'.kind = "cancel", work'.admission
               PROVE  Len(deferred') < MaxDeferred \/ CancelsActive(work.app)'
    BY <1>2, Zenon DEF Room
  <2>1. PICK d \in Admissions(e) : TRUE
    BY <1>5, Zenon
  <2>2. CASE d \in Mine(e)
    <3> DEFINE T == Range(deferred) \ Mine(e)
    <3>1. deferred' \in Retained(deferred, T) /\ d \in Range(deferred) /\ d \notin T
      BY <1>2, <2>2, Zenon
    <3> HIDE DEF T
    <3>2. Len(deferred') < Len(deferred)
      BY <1>4, <3>1, RetainedShorter
    <3> QED
      BY <1>4, <1>6, <3>2, SMT
  <2>3. CASE d \in DecisionsIn({active})
    <3>1. active # NoEvent /\ IsDecision(active) /\ active.app = e.app
      BY <2>1, <2>3, Zenon DEF DecisionsIn
    <3> QED
      BY <1>3, <1>5, <3>1, Zenon DEF CancelsActive, IsDecisionFor
  <2> QED
    BY <2>1, <2>2, <2>3, Zenon
<1> QED
  BY <1>10, <1>11, <1>13, <1>14, <1>15, <1>16, <1>17, Zenon
     DEF DispatcherIInv, Notices, Authority

-----------------------------------------------------------------------------
(* Revocation, overload and the end of the handler                         *)

LEMMA RangeOne ==
  ASSUME NEW S, NEW a \in S
  PROVE  <<a>> \in Seq(S) /\ Len(<<a>>) = 1 /\ Range(<<a>>) = {a}
<1>1. <<a>> \in Seq(S) /\ Len(<<a>>) = 1 /\ DOMAIN <<a>> = {1} /\ <<a>>[1] = a
  BY SMT
<1> QED
  BY <1>1, Zenon DEF Range

LEMMA RevokeStep ==
  ASSUME DispatcherIInv, Revoke
  PROVE  DispatcherIInv'
<1>1. Types /\ Control /\ Requests /\ Notices /\ Authority /\ Counted
  BY Zenon DEF DispatcherIInv
<1>2. /\ pc = "revoke" /\ pc' = "notify" /\ work # NoEvent /\ ~IsDecision(work)
      /\ UNCHANGED <<channel, open, sent, held, stopping, prefer, work, deferred,
                     burst, observed, told, overtaken>>
      /\ \/ active' = NoEvent /\ ready' = FALSE /\ CancelsActive(work.app)
         \/ UNCHANGED <<active, ready>> /\ ~CancelsActive(work.app)
  BY <1>1, Zenon DEF Revoke, Control
<1>3. /\ Alive(work.app) /\ work.app \in App /\ work \in Event
      /\ work.id \in 1 .. MaxEvents /\ work.kind \in Lifecycle
  BY <1>2, WorkIsAlive, EventFields, Zenon
<1>4. /\ RegistrySound
      /\ \A t \in sessions' :
           t.active /\ Alive(t.app) => \E s \in RemoveDead : s.app = t.app /\ s.active
      /\ revoked' \subseteq revoked \cup {work.app}
      /\ Revokes(work) /\ Projects(work.app) => \E s \in sessions' : s.app = work.app
  <2>1. CASE Revokes(work)
    <3>1. /\ <<work.app>> \in Seq(App) /\ Len(<<work.app>>) = 1
          /\ Range(<<work.app>>) = {work.app}
      BY <1>3, RangeOne
    <3>2. Invalidate(<<work.app>>) /\ revoked' = revoked \cup Range(<<work.app>>)
      BY <2>1, <3>1, Zenon DEF Revoke
    <3> QED
      BY <3>1, <3>2, InvalidateSound, Zenon
  <2>2. CASE ~Revokes(work)
    <3>1. UNCHANGED <<sessions, nextRef, revoked>>
      BY <2>2, Zenon DEF Revoke
    <3> QED
      BY <2>2, <3>1, RegistryKept, Zenon
  <2> QED
    BY <2>1, <2>2, Zenon
<1>5. /\ reply' \in [1 .. MaxEvents -> Reply]
      /\ \A i \in 1 .. MaxEvents :
           \/ reply[i] # "none"
           \/ work.kind = "cancel" /\ i = work.id
           \/ CancelsActive(work.app) /\ i = active.id
           => reply'[i] # "none"
  <2> DEFINE acknowledged == IF work.kind = "cancel" THEN {work.id} ELSE {}
             cancelled == IF CancelsActive(work.app) THEN {active.id} ELSE {}
  <2>1. reply \in [1 .. MaxEvents -> Reply]
    BY <1>1, Zenon DEF Types
  <2>2. reply' = [i \in DOMAIN reply |->
                    CASE i \in acknowledged -> "acknowledged"
                      [] i \in cancelled -> "failed"
                      [] OTHER -> reply[i]]
    BY Zenon DEF Revoke
  <2>3. /\ work.kind = "cancel" => work.id \in acknowledged
        /\ CancelsActive(work.app) => active.id \in cancelled
    OBVIOUS
  <2> HIDE DEF acknowledged, cancelled
  <2>4. /\ "acknowledged" \in Reply /\ "failed" \in Reply
        /\ "acknowledged" # "none" /\ "failed" # "none"
    BY Zenon DEF Reply
  <2>5. ASSUME NEW i \in 1 .. MaxEvents
        PROVE  /\ reply'[i] \in Reply
               /\ reply[i] # "none" \/ i \in acknowledged \/ i \in cancelled
                    => reply'[i] # "none"
    <3>1. reply'[i] = CASE i \in acknowledged -> "acknowledged"
                        [] i \in cancelled -> "failed"
                        [] OTHER -> reply[i]
      BY <2>1, <2>2, Zenon
    <3>2. reply[i] \in Reply
      BY <2>1, Zenon
    <3> QED
      BY <2>4, <3>1, <3>2, SMT
  <2>6. reply' \in [1 .. MaxEvents -> Reply]
    <3>1. DOMAIN reply' = 1 .. MaxEvents /\ reply' = [i \in DOMAIN reply' |-> reply'[i]]
      BY <2>1, <2>2, SMT
    <3> QED
      BY <2>5, <3>1, SMT
  <2> QED
    BY <2>3, <2>5, <2>6, Zenon
<1>6. /\ Kept' \subseteq Kept /\ Pending' \subseteq Pending
      /\ \A e \in Pending :
           e \in Pending' \/ (e = active /\ e # NoEvent /\ CancelsActive(work.app))
      /\ \A e \in Resting' : e \in Resting \/ e = work
  BY <1>2, Zenon DEF Kept, Pending, Resting
<1>7. Requests' /\ Barred' /\ Inactive' /\ Cleared' /\ Seen'
  <2>1. \A e \in Pending : e.id \in 1 .. MaxEvents
    BY <1>1, PendingEvents, EventFields, Zenon
  <2>2. \A e \in Pending : reply'[e.id] # "none" \/ e.id \in Ids(Pending')
    BY <1>5, <1>6, <2>1, Zenon DEF Ids
  <2>3. reply'[work.id] # "none"
    <3>1. work \in Pending
      BY <1>2, Zenon DEF Pending, Kept
    <3>2. work.kind = "disconnect" => reply[work.id] # "none"
      BY <1>1, <3>1, Zenon DEF Requests, Marked
    <3> QED
      BY <1>3, <1>5, <3>2, Zenon DEF Lifecycle
  <2> QED
    BY <1>2, <1>4, <1>5, <1>6, <2>2, <2>3, HandlerStep, Zenon
<1>8. Types'
  <2>1. sessions' \subseteq SessionEntry /\ nextRef' \in 1 .. MaxRef
    BY <1>4, Zenon DEF RegistrySound
  <2>2. revoked' \subseteq App
    BY <1>1, <1>3, <1>4, Zenon DEF Types
  <2>3. active' \in Event \cup {NoEvent} /\ ready' \in BOOLEAN
        /\ (ready' => active' # NoEvent)
    <3>1. CASE active' = NoEvent /\ ready' = FALSE
      BY <3>1, Zenon
    <3>2. CASE UNCHANGED <<active, ready>>
      BY <1>1, <3>2, Zenon DEF Types, TypeOK
    <3> QED
      BY <1>2, <3>1, <3>2, Zenon
  <2> QED
    BY <1>1, <1>2, <1>5, <2>1, <2>2, <2>3, Zenon DEF Types, TypeOK
<1>9. Control'
  BY <1>2, Zenon DEF Control
<1>10. Asked'
  BY <1>1, <1>2, <1>4, Zenon DEF Authority, Asked, CancelsActive, IsDecisionFor
<1>11. Counted'
  <2>1. CASE ready' = FALSE
    BY <1>1, <1>2, <2>1, Zenon DEF Counted
  <2>2. CASE ready' = ready
    BY <1>1, <1>2, <2>2, Zenon DEF Counted
  <2> QED
    BY <1>2, <2>1, <2>2, Zenon
<1>12. Told'
  BY <1>1, <1>2, Zenon DEF Notices, Told
<1>13. Room'
  BY <1>1, <1>2, Zenon DEF Notices, Room
<1>14. Owed'
  <2> SUFFICES ASSUME NEW n \in owed'
               PROVE  /\ n.kind \in Lifecycle /\ (n.kind = "cancel" => n.admission)
                      /\ Delivered(n)'
    BY Zenon DEF Owed
  <2>1. CASE n \in owed
    BY <1>1, <1>2, <2>1, Zenon DEF Notices, Owed, Delivered
  <2>2. CASE n = Note(work) /\ Revokes(work) /\ Projects(work.app)
    <3>1. n.kind = work.kind /\ n.admission = work.admission
      BY <2>2, Zenon DEF Note
    <3>2. n.kind = "cancel" => n.admission
      <4>1. "cancel" # "disconnect"
        OBVIOUS
      <4> QED
        BY <2>2, <3>1, <4>1, Zenon DEF Revokes
    <3>3. Delivered(n)'
      BY <1>2, <1>4, <2>2, Zenon DEF Delivered, Note
    <3> QED
      BY <1>3, <3>1, <3>2, <3>3, Zenon
  <2> QED
    BY <2>1, <2>2, Zenon DEF Revoke, Note
<1> QED
  BY <1>7, <1>8, <1>9, <1>10, <1>11, <1>12, <1>13, <1>14, Zenon
     DEF DispatcherIInv, Notices, Authority

LEMMA OverloadStep ==
  ASSUME DispatcherIInv, Overload
  PROVE  DispatcherIInv'
<1>1. Types /\ Control /\ Requests /\ Notices /\ Authority /\ Counted
  BY Zenon DEF DispatcherIInv
<1>2. /\ pc = "overload" /\ pc' = "loop" /\ work # NoEvent /\ ~IsDecision(work)
      /\ active # NoEvent /\ work' = NoEvent /\ Start(work)
      /\ Answer(Ids(DecisionsIn({active})), "failed")
      /\ UNCHANGED <<channel, open, sent, held, stopping, prefer, deferred,
                     observed, owed>>
  BY <1>1, Zenon DEF Overload, FailActive, Control
<1>3. work \in Event
  BY <1>2, WorkIsAlive, Zenon
<1>4. /\ active' = work /\ ready' = FALSE /\ overtaken' = 0
      /\ burst' \in 0 .. MaxBurst /\ overtaken' \in Nat
      /\ told \subseteq told' /\ Told'
  BY <1>2, <1>3, StartFacts, Zenon
<1>5. active \in Event /\ active.app \in App /\ active.id \in 1 .. MaxEvents
  BY <1>1, <1>2, EventFields, Zenon DEF Types, TypeOK
<1>6. /\ RegistrySound
      /\ \A t \in sessions' :
           t.active /\ Alive(t.app) => \E s \in RemoveDead : s.app = t.app /\ s.active
      /\ revoked' \subseteq App
  <2>1. revoked \subseteq App
    BY <1>1, Zenon DEF Types
  <2>2. CASE active.kind = "application"
    <3>1. <<active.app>> \in Seq(App) /\ Range(<<active.app>>) = {active.app}
      BY <1>5, RangeOne
    <3>2. Invalidate(<<active.app>>) /\ revoked' = revoked \cup Range(<<active.app>>)
      BY <2>2, <3>1, Zenon DEF Overload
    <3>3. revoked' \subseteq App
      BY <1>5, <2>1, <3>1, <3>2, Zenon
    <3> QED
      BY <3>1, <3>2, <3>3, InvalidateSound, Zenon
  <2>3. CASE active.kind # "application"
    <3>1. UNCHANGED <<sessions, nextRef, revoked>>
      BY <2>3, Zenon DEF Overload
    <3> QED
      BY <2>1, <3>1, RegistryKept, Zenon
  <2> QED
    BY <2>2, <2>3, Zenon
<1>7. /\ reply' \in [1 .. MaxEvents -> Reply]
      /\ \A i \in 1 .. MaxEvents :
           reply[i] # "none" \/ i \in Ids(DecisionsIn({active})) => reply'[i] # "none"
  <2>1. "failed" \in Reply /\ "failed" # "none"
    BY Zenon DEF Reply
  <2> QED
    BY <1>2, <2>1, AnswerKeeps, Zenon
<1>8. /\ Kept' \subseteq Kept /\ Pending' \subseteq Pending /\ Resting' \subseteq Resting
      /\ \A e \in Pending : e \in Pending' \/ e = active
  BY <1>2, <1>4, Zenon DEF Kept, Pending, Resting
<1>9. reply'[active.id] # "none"
  <2>1. CASE IsDecision(active)
    <3>1. active.id \in Ids(DecisionsIn({active}))
      BY <1>2, <2>1, Zenon DEF Ids, DecisionsIn
    <3> QED
      BY <1>5, <1>7, <3>1, Zenon
  <2>2. CASE ~IsDecision(active)
    <3>1. reply[active.id] # "none"
      BY <1>1, <1>2, <2>2, Zenon DEF Requests, Settled, Resting
    <3> QED
      BY <1>5, <1>7, <3>1, Zenon
  <2> QED
    BY <2>1, <2>2, Zenon
<1>10. Requests' /\ Barred' /\ Inactive' /\ Cleared' /\ Seen'
  <2>1. \A e \in Pending : reply'[e.id] # "none" \/ e.id \in Ids(Pending')
    BY <1>8, <1>9, Zenon DEF Ids
  <2> QED
    BY <1>2, <1>6, <1>7, <1>8, <2>1, HandlerStep, Zenon
<1>11. Types'
  <2>1. sessions' \subseteq SessionEntry /\ nextRef' \in 1 .. MaxRef
    BY <1>6, Zenon DEF RegistrySound
  <2> QED
    BY <1>1, <1>2, <1>3, <1>4, <1>6, <1>7, <2>1, Zenon DEF Types, TypeOK
<1>12. Control' /\ Asked'
  BY <1>2, <1>4, Zenon DEF Control, Asked
<1>13. Counted'
  <2>1. MaxBurst \in Nat
    BY DispatcherAssumption, Zenon DEF BoundsAssumption
  <2>2. overtaken' <= MaxBurst
    BY <1>4, <2>1, SMT
  <2> QED
    BY <1>2, <1>4, <2>2, Zenon DEF Counted
<1>14. Room'
  BY <1>2, Zenon DEF Room
<1>15. Owed'
  <2>1. Note(work) \in told'
    BY <1>2, <1>4, Zenon DEF Told, Note
  <2> QED
    BY <1>1, <1>2, <1>4, <2>1, Zenon DEF Notices, Owed, Delivered
<1> QED
  BY <1>4, <1>10, <1>11, <1>12, <1>13, <1>14, <1>15, Zenon
     DEF DispatcherIInv, Notices, Authority

LEMMA ReceiveClosedStep ==
  ASSUME DispatcherIInv, ReceiveClosed
  PROVE  DispatcherIInv'
<1>1. Types /\ Control /\ Requests /\ Notices /\ Authority /\ Counted
  BY Zenon DEF DispatcherIInv
<1>2. /\ pc \in {"loop", "select"} /\ work = NoEvent /\ pc' = "ended"
      /\ channel = <<>> /\ ~open /\ active' = NoEvent /\ ready' = FALSE
      /\ deferred' = <<>>
      /\ Answer(Ids(DecisionsIn(Remaining)), "failed")
      /\ UNCHANGED <<channel, open, sent, held, stopping, prefer, work, burst,
                     observed, owed, told, overtaken>>
  BY <1>1, Zenon DEF ReceiveClosed, Receiving, Control
<1> DEFINE There == {b \in App : Alive(b)}
<1>3. PICK states \in Retained(observed, There) :
        Invalidate(states) /\ revoked' = revoked \cup Range(states)
  BY Zenon DEF ReceiveClosed, Outlived
<1>4. states \in Seq(App) /\ Range(states) = {b \in Range(observed) : b \in There}
  <2>1. observed \in Seq(App)
    BY <1>1, Zenon DEF Types, TypeOK
  <2>2. states \in Retained(observed, There)
    OBVIOUS
  <2> HIDE DEF There
  <2> QED
    BY <2>1, <2>2, RangeRetained
<1>5. Range(states) \subseteq App
  BY <1>4, RangeSeq, Zenon
<1>6. /\ RegistrySound
      /\ \A t \in sessions' : t.active =>
           /\ t.app \notin Range(states)
           /\ \E s \in RemoveDead : s.app = t.app /\ s.active
  <2> HIDE DEF There
  <2> QED
    BY <1>3, <1>4, InvalidateSound, Zenon
<1>7. /\ reply' \in [1 .. MaxEvents -> Reply]
      /\ \A i \in 1 .. MaxEvents :
           reply[i] # "none" \/ i \in Ids(DecisionsIn(Remaining)) => reply'[i] # "none"
  <2>1. "failed" \in Reply /\ "failed" # "none"
    BY Zenon DEF Reply
  <2> QED
    BY <1>2, <2>1, AnswerKeeps, Zenon
<1>8. Range(<<>>) = {} /\ <<>> \in Seq(Event) /\ Len(<<>>) = 0
  BY SMT DEF Range
<1>9. Kept' = {} /\ Pending' = {} /\ Resting' = {} /\ Pending = Resting
  BY <1>2, <1>8, Zenon DEF Kept, Pending, Resting
<1>10. \A e \in Pending : reply'[e.id] # "none"
  <2> SUFFICES ASSUME NEW e \in Pending
               PROVE  reply'[e.id] # "none"
    OBVIOUS
  <2>1. e.id \in 1 .. MaxEvents
    BY <1>1, PendingEvents, EventFields, Zenon
  <2>2. CASE IsDecision(e)
    <3>1. e \in Remaining /\ e # NoEvent
      BY <1>1, <1>2, <1>9, PendingEvents, EventFields, Zenon DEF Resting, Remaining
    <3>2. e.id \in Ids(DecisionsIn(Remaining))
      BY <2>2, <3>1, Zenon DEF Ids, DecisionsIn
    <3> QED
      BY <1>7, <2>1, <3>2, Zenon
  <2>3. CASE ~IsDecision(e)
    BY <1>1, <1>7, <1>9, <2>1, <2>3, Zenon DEF Requests, Settled
  <2> QED
    BY <2>2, <2>3, Zenon
<1>11. Requests'
  BY <1>2, <1>7, <1>9, <1>10, RequestsStep, Zenon
<1>12. \A a : Alive(a)' => Alive(a)
  BY <1>2, <1>9, AliveIs, Zenon
<1>13. Barred' /\ Inactive'
  BY <1>6, <1>12, Zenon DEF RegistrySound, Barred, Inactive
<1>14. Cleared'
  <2> SUFFICES ASSUME stopping' = "done", NEW t \in RemoveDead', t.active
               PROVE  FALSE
    BY Zenon DEF Cleared
  <2>1. t \in sessions' /\ Alive(t.app)
    BY <1>12, Zenon DEF RemoveDead
  <2>2. PICK s \in RemoveDead : s.app = t.app /\ s.active
    BY <1>6, <2>1, Zenon
  <2>3. t.app \in Range(observed)
    BY <1>1, <1>2, <2>2, Zenon DEF Authority, Cleared
  <2>4. t.app \in App
    <3>1. t \in SessionEntry
      BY <1>6, <2>1, Zenon DEF RegistrySound
    <3> QED
      BY <3>1, Zenon DEF SessionEntry
  <2> QED
    BY <1>4, <1>6, <2>1, <2>3, <2>4, Zenon
<1>15. Seen' /\ Asked'
  BY <1>2, <1>9, Zenon DEF Seen, Asked
<1>16. Types'
  <2>1. sessions' \subseteq SessionEntry /\ nextRef' \in 1 .. MaxRef
    BY <1>6, Zenon DEF RegistrySound
  <2>2. revoked' \subseteq App
    BY <1>1, <1>3, <1>5, Zenon DEF Types
  <2>3. deferred' \in Seq(Event) /\ Len(deferred') <= MaxDeferred
    <3>1. MaxDeferred \in Nat
      BY DispatcherAssumption, Zenon DEF BoundsAssumption
    <3>2. 0 <= MaxDeferred
      BY <3>1, SMT
    <3> QED
      BY <1>2, <1>8, <3>2, Zenon
  <2> QED
    BY <1>1, <1>2, <1>7, <2>1, <2>2, <2>3, Zenon DEF Types, TypeOK
<1>17. Control'
  BY <1>2, Zenon DEF Control
<1>18. Counted'
  BY <1>1, <1>2, Zenon DEF Counted
<1>19. Told' /\ Room'
  BY <1>2, Zenon DEF Told, Room
<1>20. Owed'
  BY <1>1, <1>2, Zenon DEF Notices, Owed
<1> QED
  BY <1>11, <1>13, <1>14, <1>15, <1>16, <1>17, <1>18, <1>19, <1>20, Zenon
     DEF DispatcherIInv, Notices, Authority

-----------------------------------------------------------------------------
(* A notification that is prepared                                         *)

LEMMA DeferDisconnectFacts ==
  ASSUME DispatcherIInv, pc = "notify", active # NoEvent,
         work.kind = "disconnect", DeferDisconnect(work),
         UNCHANGED <<channel, active, told>>
  PROVE  /\ deferred' \in Seq(Event) /\ Len(deferred') <= MaxDeferred
         /\ work' \in Event \cup {NoEvent} /\ pc' \in {"loop", "overload"}
         /\ pc' = "loop" => work' = NoEvent
         /\ pc' = "overload" => work' # NoEvent /\ ~IsDecision(work')
         /\ reply' \in [1 .. MaxEvents -> Reply]
         /\ \A i \in 1 .. MaxEvents : reply[i] # "none" => reply'[i] # "none"
         /\ Kept' \subseteq Kept /\ Resting' \subseteq Resting
         /\ \A e \in Kept :
              \/ e \in Kept' \/ e = work
              \/ IsDecision(e) /\ reply'[e.id] # "none"
         /\ \A n : n = Note(work) => Delivered(n)'
         /\ \A n : n.kind \in Lifecycle /\ (\E e \in Range(deferred) : n = Note(e))
              => Delivered(n)'
<1> DEFINE same == {d \in Range(deferred) \cup {active} :
                      d.kind = "disconnect" /\ d.app = work.app}
           decisions == {i \in DOMAIN deferred : IsDecision(deferred[i])}
<1>1. Types /\ Control /\ Requests /\ Notices
  BY Zenon DEF DispatcherIInv
<1>2. /\ deferred \in Seq(Event) /\ Len(deferred) <= MaxDeferred /\ Len(deferred) \in Nat
      /\ MaxDeferred \in Nat \ {0} /\ reply \in [1 .. MaxEvents -> Reply]
      /\ Range(deferred) \subseteq Event
      /\ DOMAIN deferred = 1 .. Len(deferred)
  <2>1. /\ deferred \in Seq(Event) /\ Len(deferred) <= MaxDeferred
        /\ MaxDeferred \in Nat \ {0} /\ reply \in [1 .. MaxEvents -> Reply]
    BY <1>1, DispatcherAssumption, Zenon DEF Types, TypeOK, BoundsAssumption
  <2>2. Len(deferred) \in Nat /\ DOMAIN deferred = 1 .. Len(deferred)
    BY <2>1, SMT
  <2> QED
    BY <2>1, <2>2, RangeSeq, Zenon
<1>3. work # NoEvent /\ work \in Event /\ ~IsDecision(work) /\ active \in Event
  BY <1>1, WorkIsAlive, Zenon DEF Control, Types, TypeOK
<1>4. work \in Kept /\ work \in Resting /\ Range(deferred) \subseteq Kept
  BY <1>3, Zenon DEF Kept, Resting
<1>5. CASE /\ same # {} /\ work' = NoEvent /\ pc' = "loop"
           /\ UNCHANGED <<deferred, reply>>
  <2>1. /\ Kept' \subseteq Kept /\ Resting' \subseteq Resting
        /\ \A e \in Kept : e \in Kept' \/ e = work
    BY <1>5, Zenon DEF Kept, Resting
  <2>2. PICK d \in same : TRUE
    BY <1>5, Zenon
  <2>3. /\ d \in Range(deferred) \cup {active} /\ d \in Event
        /\ d.kind = "disconnect" /\ d.app = work.app
    BY <1>2, <1>3, <2>2, Zenon
  <2>4. d \in Pending /\ work \in Pending
    BY <1>4, <2>3, Zenon DEF Pending, Kept
  <2>5. ~d.admission /\ ~work.admission
    BY <1>1, <2>3, <2>4, Zenon DEF Requests, Marked
  <2>6. d.admission = work.admission
    BY <1>3, <2>3, <2>5, EventFields, SMT
  <2>7. Note(d) = Note(work)
    BY <2>3, <2>6, Zenon DEF Note
  <2>8. ASSUME NEW n, n = Note(work)
        PROVE  Delivered(n)'
    <3>1. CASE d \in Range(deferred)
      BY <1>5, <2>7, <2>8, <3>1, Zenon DEF Delivered, Note
    <3>2. CASE d = active
      <4>1. ~IsDecision(active)
        BY <2>3, <3>2, EventFields, Zenon DEF Lifecycle
      <4>2. Note(work) \in told
        BY <1>1, <2>7, <3>2, <4>1, Zenon DEF Notices, Told
      <4> QED
        BY <2>8, <4>2, Zenon DEF Delivered
    <3> QED
      BY <2>3, <3>1, <3>2, Zenon
  <2>9. \A n : (\E e \in Range(deferred) : n = Note(e)) => Delivered(n)'
    BY <1>5, Zenon DEF Delivered, Note
  <2> HIDE DEF same, decisions
  <2> QED
    BY <1>2, <1>5, <2>1, <2>8, <2>9, Zenon
<1>6. CASE /\ Len(deferred) < MaxDeferred /\ deferred' = Append(deferred, work)
           /\ work' = NoEvent /\ pc' = "loop" /\ UNCHANGED reply
  <2>1. /\ Append(deferred, work) \in Seq(Event)
        /\ Len(Append(deferred, work)) = Len(deferred) + 1
        /\ Range(Append(deferred, work)) = Range(deferred) \cup {work}
    BY <1>2, <1>3, RangeAppend
  <2>2. /\ deferred' \in Seq(Event) /\ Len(deferred') = Len(deferred) + 1
        /\ Range(deferred') = Range(deferred) \cup {work}
    BY <1>6, <2>1, Zenon
  <2>3. Len(deferred') <= MaxDeferred
    BY <1>2, <1>6, <2>2, SMT
  <2>4. /\ Kept' \subseteq Kept /\ Resting' \subseteq Resting
        /\ \A e \in Kept : e \in Kept' \/ e = work
    BY <1>4, <1>6, <2>2, Zenon DEF Kept, Resting
  <2>5. \A n : (\E e \in Range(deferred) \cup {work} : n = Note(e)) => Delivered(n)'
    BY <2>2, Zenon DEF Delivered, Note
  <2> HIDE DEF same, decisions
  <2> QED
    BY <1>2, <1>6, <2>2, <2>3, <2>4, <2>5, Zenon
<1>7. ASSUME NEW first \in decisions, deferred' = Append(Removed(deferred, first), work),
             Answer({deferred[first].id}, "failed"), work' = NoEvent, pc' = "loop",
             Len(deferred) >= MaxDeferred
      PROVE  /\ deferred' \in Seq(Event) /\ Len(deferred') <= MaxDeferred
             /\ reply' \in [1 .. MaxEvents -> Reply]
             /\ \A i \in 1 .. MaxEvents : reply[i] # "none" => reply'[i] # "none"
             /\ Kept' \subseteq Kept /\ Resting' \subseteq Resting
             /\ \A e \in Kept :
                  \/ e \in Kept' \/ e = work
                  \/ IsDecision(e) /\ reply'[e.id] # "none"
             /\ \A n : n.kind \in Lifecycle
                       /\ (\E e \in Range(deferred) \cup {work} : n = Note(e))
                  => Delivered(n)'
  <2> DEFINE out == deferred[first]
  <2>1. first \in 1 .. Len(deferred) /\ IsDecision(out) /\ out \in Range(deferred)
    BY <1>2, Zenon DEF Range
  <2>2. out \in Event /\ out.id \in 1 .. MaxEvents /\ out.kind \notin Lifecycle
    BY <1>2, <2>1, EventFields, Zenon
  <2>3. /\ Removed(deferred, first) \in Seq(Event)
        /\ Len(Removed(deferred, first)) = Len(deferred) - 1
        /\ Range(deferred) = {out} \cup Range(Removed(deferred, first))
    BY <1>2, <2>1, RangeRemoved, Zenon
  <2> DEFINE rest == Removed(deferred, first)
  <2> HIDE DEF rest
  <2>4. /\ Append(rest, work) \in Seq(Event)
        /\ Len(Append(rest, work)) = Len(rest) + 1
        /\ Range(Append(rest, work)) = Range(rest) \cup {work}
    <3>1. rest \in Seq(Event)
      BY <2>3, Zenon DEF rest
    <3> QED
      BY <1>3, <3>1, RangeAppend
  <2>5. /\ deferred' \in Seq(Event) /\ Len(deferred') = Len(rest) + 1
        /\ Range(deferred') = Range(rest) \cup {work}
        /\ Len(rest) = Len(deferred) - 1 /\ Range(deferred) = {out} \cup Range(rest)
    BY <1>7, <2>3, <2>4, Zenon DEF rest
  <2>6. Len(deferred') <= MaxDeferred
    BY <1>2, <2>5, SMT
  <2>7. /\ reply' \in [1 .. MaxEvents -> Reply]
        /\ \A i \in 1 .. MaxEvents :
             reply[i] # "none" \/ i = out.id => reply'[i] # "none"
    <3>1. "failed" \in Reply /\ "failed" # "none"
      BY Zenon DEF Reply
    <3> QED
      BY <1>7, <3>1, AnswerKeeps, Zenon
  <2> HIDE DEF out, decisions
  <2>8. /\ Kept' \subseteq Kept /\ Resting' \subseteq Resting
        /\ \A e \in Kept : e \in Kept' \/ e = work \/ e = out
    BY <1>4, <1>7, <2>5, Zenon DEF Kept, Resting
  <2>9. ASSUME NEW n, n.kind \in Lifecycle,
               NEW e \in Range(deferred) \cup {work}, n = Note(e)
        PROVE  Delivered(n)'
    <3>1. e.kind = n.kind
      BY <2>9, Zenon DEF Note
    <3>2. e \in Range(deferred')
      BY <2>2, <2>5, <2>9, <3>1, Zenon
    <3> QED
      BY <2>9, <3>2, Zenon DEF Delivered, Note
  <2> QED
    BY <2>1, <2>2, <2>5, <2>6, <2>7, <2>8, <2>9, Zenon
<1>8. CASE /\ Len(deferred) >= MaxDeferred /\ decisions = {}
           /\ deferred' = Append(Tail(deferred), work)
           /\ work' = Head(deferred) /\ pc' = "overload" /\ UNCHANGED reply
  <2>1. deferred # <<>>
    BY <1>2, <1>8, SMT
  <2> DEFINE rest == Tail(deferred)
  <2>2. /\ Head(deferred) \in Event /\ rest \in Seq(Event)
        /\ Len(rest) = Len(deferred) - 1
        /\ Range(deferred) = {Head(deferred)} \cup Range(rest)
        /\ deferred' = Append(rest, work)
    BY <1>2, <1>8, <2>1, RangeTail
  <2> HIDE DEF rest
  <2>3. /\ Append(rest, work) \in Seq(Event)
        /\ Len(Append(rest, work)) = Len(rest) + 1
        /\ Range(Append(rest, work)) = Range(rest) \cup {work}
    BY <1>3, <2>2, RangeAppend
  <2>4. /\ deferred' \in Seq(Event) /\ Len(deferred') = Len(rest) + 1
        /\ Range(deferred') = Range(rest) \cup {work}
        /\ Range(deferred) = {work'} \cup Range(rest) /\ work' \in Event
    BY <1>8, <2>2, <2>3, Zenon
  <2>5. Len(deferred') <= MaxDeferred
    BY <1>2, <2>2, <2>4, SMT
  <2>6. work' # NoEvent /\ ~IsDecision(work')
    <3>1. \A e \in Range(deferred) : ~IsDecision(e)
      BY <1>8, Zenon DEF Range
    <3> QED
      BY <2>4, <3>1, EventFields, Zenon
  <2> HIDE DEF same, decisions
  <2>7. /\ Kept' \subseteq Kept /\ Resting' \subseteq Resting
        /\ \A e \in Kept : e \in Kept' \/ e = work
    BY <1>4, <1>8, <2>4, <2>6, Zenon DEF Kept, Resting
  <2>8. \A n : (\E e \in Range(deferred) \cup {work} : n = Note(e)) => Delivered(n)'
    BY <1>8, <2>4, <2>6, Zenon DEF Delivered, Note
  <2> QED
    BY <1>2, <1>8, <2>4, <2>5, <2>6, <2>7, <2>8, Zenon
<1>9. Note(work).kind \in Lifecycle
  BY <1>3, EventFields, Zenon DEF Note
<1>10. CASE \E first \in decisions :
              /\ deferred' = Append(Removed(deferred, first), work)
              /\ Answer({deferred[first].id}, "failed")
              /\ work' = NoEvent /\ pc' = "loop" /\ Len(deferred) >= MaxDeferred
  <2> HIDE DEF decisions, same
  <2> QED
    BY <1>7, <1>9, <1>10, Zenon
<1> QED
  BY <1>5, <1>6, <1>8, <1>10, Zenon DEF DeferDisconnect

LEMMA NotifyFacts ==
  ASSUME DispatcherIInv, Notify
  PROVE  /\ deferred' \in Seq(Event) /\ Len(deferred') <= MaxDeferred
         /\ work' \in Event \cup {NoEvent} /\ pc' \in {"loop", "overload"}
         /\ pc' = "loop" => work' = NoEvent
         /\ pc' = "overload" => work' # NoEvent /\ ~IsDecision(work') /\ active' # NoEvent
         /\ active' \in Event \cup {NoEvent}
         /\ active' # NoEvent /\ IsDecision(active') => active' = active
         /\ ready' \in BOOLEAN /\ (ready' => active' # NoEvent)
         /\ burst' \in 0 .. MaxBurst /\ overtaken' \in Nat /\ overtaken' <= MaxBurst
         /\ ready' => overtaken' <= burst'
         /\ reply' \in [1 .. MaxEvents -> Reply]
         /\ \A i \in 1 .. MaxEvents : reply[i] # "none" => reply'[i] # "none"
         /\ Kept' \subseteq Kept /\ Resting' \subseteq Resting
         /\ \A e \in Kept : e \in Kept' \/ e = work \/ reply'[e.id] # "none"
         /\ Told' /\ \A n \in owed : Delivered(n)'
<1>1. Types /\ Control /\ Requests /\ Notices /\ Counted
  BY Zenon DEF DispatcherIInv
<1>2. /\ pc = "notify" /\ UNCHANGED <<channel, owed>>
      /\ work # NoEvent /\ ~IsDecision(work)
  BY <1>1, Zenon DEF Notify, Control
<1>3. /\ Alive(work.app) /\ work \in Event /\ work.kind \in Lifecycle
  BY <1>2, WorkIsAlive, EventFields, Zenon
<1>4. /\ deferred \in Seq(Event) /\ Len(deferred) <= MaxDeferred /\ Len(deferred) \in Nat
      /\ MaxDeferred \in Nat /\ reply \in [1 .. MaxEvents -> Reply]
      /\ active \in Event \cup {NoEvent} /\ ready \in BOOLEAN
      /\ (ready => active # NoEvent) /\ burst \in 0 .. MaxBurst
      /\ overtaken \in Nat
  <2>1. deferred \in Seq(Event)
    BY <1>1, Zenon DEF Types, TypeOK
  <2>2. Len(deferred) \in Nat
    BY <2>1, SMT
  <2> QED
    BY <1>1, <2>2, DispatcherAssumption, Zenon DEF Types, TypeOK, BoundsAssumption
<1>5. overtaken <= MaxBurst /\ (ready => overtaken <= burst)
  <2>1. pc # "select"
    BY <1>2
  <2> QED
    BY <1>1, <2>1, Zenon DEF Counted
<1>6. work \in Kept /\ work \in Resting /\ Range(deferred) \subseteq Kept
  BY <1>2, Zenon DEF Kept, Resting
<1>7. ASSUME NEW n \in owed
      PROVE  /\ n.kind \in Lifecycle /\ (n.kind = "cancel" => n.admission)
             /\ \/ n \in told \/ \E e \in Range(deferred) : n = Note(e)
                \/ n = Note(work) /\ \E s \in sessions : s.app = work.app
  <2>1. pc # "ended" /\ pc # "overload"
    BY <1>2
  <2> QED
    BY <1>1, <2>1, Zenon DEF Notices, Owed, Delivered
<1>8. CASE /\ ~Projects(work.app) /\ work' = NoEvent /\ pc' = "loop"
           /\ UNCHANGED <<active, ready, deferred, burst, reply, overtaken, told>>
  <2>1. ~\E s \in sessions : s.app = work.app
    BY <1>3, <1>8, Zenon DEF Projects, Of, RemoveDead
  <2>2. \A n \in owed : Delivered(n)'
    BY <1>7, <1>8, <2>1, Zenon DEF Delivered, Note
  <2>3. /\ Kept' \subseteq Kept /\ Resting' \subseteq Resting
        /\ \A e \in Kept : e \in Kept' \/ e = work
    BY <1>8, Zenon DEF Kept, Resting
  <2>4. Told'
    BY <1>1, <1>8, Zenon DEF Notices, Told, Note
  <2>5. pc' # "overload"
    BY <1>8
  <2> QED
    BY <1>4, <1>5, <1>8, <2>2, <2>3, <2>4, <2>5, Zenon
<1>9. CASE /\ active = NoEvent /\ Start(work) /\ work' = NoEvent /\ pc' = "loop"
           /\ UNCHANGED <<deferred, reply>>
  <2>1. /\ active' = work /\ ready' = FALSE /\ overtaken' = 0
        /\ burst' \in 0 .. MaxBurst /\ overtaken' \in Nat
        /\ told \subseteq told' /\ Told'
    BY <1>3, <1>9, StartFacts, Zenon
  <2>2. \A n : n = Note(work) => n \in told'
    BY <1>2, <2>1, Zenon DEF Told, Note
  <2>3. \A n \in owed : Delivered(n)'
    BY <1>7, <1>9, <2>1, <2>2, Zenon DEF Delivered, Note
  <2>4. /\ Kept' \subseteq Kept /\ Resting' \subseteq Resting
        /\ \A e \in Kept : e \in Kept' \/ e = work
    BY <1>6, <1>9, <2>1, Zenon DEF Kept, Resting
  <2>5. pc' # "overload"
    BY <1>9
  <2>6. overtaken' <= MaxBurst
    BY <1>4, <2>1, DispatcherAssumption, SMT DEF BoundsAssumption
  <2> QED
    BY <1>2, <1>3, <1>4, <1>9, <2>1, <2>3, <2>4, <2>5, <2>6, Zenon
<1>10. CASE /\ active # NoEvent /\ work.kind = "disconnect" /\ DeferDisconnect(work)
            /\ UNCHANGED <<active, ready, burst, overtaken, told>>
  <2>1. /\ deferred' \in Seq(Event) /\ Len(deferred') <= MaxDeferred
        /\ work' \in Event \cup {NoEvent} /\ pc' \in {"loop", "overload"}
        /\ pc' = "loop" => work' = NoEvent
        /\ pc' = "overload" => work' # NoEvent /\ ~IsDecision(work')
        /\ reply' \in [1 .. MaxEvents -> Reply]
        /\ \A i \in 1 .. MaxEvents : reply[i] # "none" => reply'[i] # "none"
        /\ Kept' \subseteq Kept /\ Resting' \subseteq Resting
        /\ \A e \in Kept :
             \/ e \in Kept' \/ e = work
             \/ IsDecision(e) /\ reply'[e.id] # "none"
        /\ \A n : n = Note(work) => Delivered(n)'
        /\ \A n : n.kind \in Lifecycle /\ (\E e \in Range(deferred) : n = Note(e))
             => Delivered(n)'
    BY <1>2, <1>10, DeferDisconnectFacts, Zenon
  <2>2. \A n \in told : Delivered(n)'
    BY <1>10, Zenon DEF Delivered
  <2>3. \A n \in owed : Delivered(n)'
    BY <1>7, <2>1, <2>2, Zenon
  <2>4. Told'
    BY <1>1, <1>10, Zenon DEF Notices, Told, Note
  <2> QED
    BY <1>4, <1>5, <1>10, <2>1, <2>3, <2>4, Zenon
<1>11. CASE /\ active # NoEvent /\ work.kind = "cancel" /\ DeferCancel(work)
            /\ UNCHANGED <<active, ready, burst, overtaken, told>>
  <2>1. work' = NoEvent /\ pc' = "loop" /\ UNCHANGED reply
    BY <1>11, Zenon DEF DeferCancel
  <2>2. /\ deferred' \in Seq(Event) /\ Len(deferred') <= MaxDeferred
        /\ Range(deferred) \subseteq Range(deferred')
        /\ Range(deferred') \subseteq Range(deferred) \cup {work}
        /\ work.admission => work \in Range(deferred')
    <3>1. CASE Len(deferred) < MaxDeferred
      <4>1. /\ Append(deferred, work) \in Seq(Event)
            /\ Len(Append(deferred, work)) = Len(deferred) + 1
            /\ Range(Append(deferred, work)) = Range(deferred) \cup {work}
        BY <1>3, <1>4, RangeAppend
      <4>2. /\ deferred' \in Seq(Event) /\ Len(deferred') = Len(deferred) + 1
            /\ Range(deferred') = Range(deferred) \cup {work}
        BY <1>11, <3>1, <4>1, Zenon DEF DeferCancel
      <4>3. Len(deferred') <= MaxDeferred
        BY <1>4, <3>1, <4>2, SMT
      <4> QED
        BY <4>2, <4>3, Zenon
    <3>2. CASE ~(Len(deferred) < MaxDeferred)
      <4>1. deferred' = deferred
        BY <1>11, <3>2, Zenon DEF DeferCancel
      <4>2. pc # "revoke"
        BY <1>2
      <4>3. ~work.admission
        BY <1>1, <1>2, <1>11, <3>2, <4>2, Zenon DEF Notices, Room
      <4> QED
        BY <1>4, <4>1, <4>3, Zenon
    <3> QED
      BY <3>1, <3>2, Zenon
  <2>3. ASSUME NEW n \in owed
        PROVE  Delivered(n)'
    <3>1. CASE n \in told
      BY <1>11, <3>1, Zenon DEF Delivered
    <3>2. CASE \E e \in Range(deferred) : n = Note(e)
      BY <2>2, <3>2, Zenon DEF Delivered, Note
    <3>3. CASE n = Note(work)
      <4>1. n.kind = work.kind /\ n.admission = work.admission
        BY <3>3, Zenon DEF Note
      <4>2. work \in Range(deferred')
        BY <1>7, <1>11, <2>2, <4>1, Zenon
      <4> QED
        BY <3>3, <4>2, Zenon DEF Delivered, Note
    <3> QED
      BY <1>7, <3>1, <3>2, <3>3, Zenon
  <2>4. /\ Kept' \subseteq Kept /\ Resting' \subseteq Resting
        /\ \A e \in Kept : e \in Kept' \/ e = work
    BY <1>6, <1>11, <2>1, <2>2, Zenon DEF Kept, Resting
  <2>5. Told'
    BY <1>1, <1>11, Zenon DEF Notices, Told, Note
  <2>6. pc' # "overload"
    BY <2>1
  <2> QED
    BY <1>4, <1>5, <1>11, <2>1, <2>2, <2>3, <2>4, <2>5, <2>6, Zenon
<1> QED
  BY <1>8, <1>9, <1>10, <1>11, Zenon DEF Notify

LEMMA NotifyStep ==
  ASSUME DispatcherIInv, Notify
  PROVE  DispatcherIInv'
<1>1. Types /\ Control /\ Requests /\ Notices /\ Authority
  BY Zenon DEF DispatcherIInv
<1>2. /\ pc = "notify" /\ work # NoEvent /\ ~IsDecision(work) /\ Project(work.app)
      /\ UNCHANGED <<channel, open, sent, held, stopping, prefer, observed, revoked,
                     owed>>
  BY <1>1, Zenon DEF Notify, Control
<1>3. Alive(work.app) /\ work.app \in App /\ work \in Event /\ work.id \in 1 .. MaxEvents
  BY <1>2, WorkIsAlive, EventFields, Zenon
<1>4. work.app \in Range(observed)
  BY <1>1, <1>2, Zenon DEF Authority, Seen, Kept
<1>5. RegistrySound /\ OnlyActive({work.app})
  BY <1>2, <1>3, ProjectSound, Zenon
<1>6. pc' \in {"loop", "overload"} /\ pc' \notin {"ended", "select", "start", "revoke",
                                                  "notify", "prepare"}
  BY NotifyFacts, SMT
<1>7. Requests' /\ Barred' /\ Inactive' /\ Cleared' /\ Seen'
  <2>1. reply[work.id] # "none"
    BY <1>1, <1>2, Zenon DEF Requests, Settled, Resting
  <2>2. Pending' \subseteq Pending
    BY <1>2, NotifyFacts, Zenon DEF Pending
  <2>3. \A e \in Pending : reply'[e.id] # "none" \/ e.id \in Ids(Pending')
    BY <1>2, <1>3, <2>1, NotifyFacts, Zenon DEF Pending, Ids
  <2>4. \A t \in sessions' :
          t.active /\ Alive(t.app) =>
            \/ t.app \in Range(observed)
            \/ \E s \in RemoveDead : s.app = t.app /\ s.active
    BY <1>4, <1>5, Zenon DEF OnlyActive
  <2>5. pc' # "ended"
    BY <1>6, Zenon
  <2> QED
    BY <1>2, <1>5, <2>2, <2>3, <2>4, <2>5, NotifyFacts, HandlerStep, Zenon
<1>8. Types'
  <2>1. sessions' \subseteq SessionEntry /\ nextRef' \in 1 .. MaxRef
    BY <1>5, Zenon DEF RegistrySound
  <2> QED
    BY <1>1, <1>2, <2>1, NotifyFacts, Zenon DEF Types, TypeOK
<1>9. Control'
  BY <1>6, NotifyFacts, Zenon DEF Control
<1>10. Asked'
  BY <1>1, <1>2, <1>6, NotifyFacts, Zenon DEF Authority, Asked
<1>11. Counted'
  BY <1>6, NotifyFacts, Zenon DEF Counted
<1>12. Notices'
  BY <1>1, <1>2, <1>6, NotifyFacts, Zenon DEF Notices, Owed, Room
<1> QED
  BY <1>7, <1>8, <1>9, <1>10, <1>11, <1>12, Zenon DEF DispatcherIInv, Authority

-----------------------------------------------------------------------------

LEMMA DispatcherStep ==
  ASSUME DispatcherIInv, [Next]_vars
  PROVE  DispatcherIInv'
<1>1. CASE UNCHANGED vars
  <2>1. UNCHANGED <<channel, open, sent, held, stopping, pc, prefer, work, active, ready,
                    deferred, burst, observed, sessions, nextRef, reply, revoked, owed,
                    told, overtaken>>
    BY <1>1, Zenon DEF vars, history
  <2>2. Types' /\ Control' /\ Counted'
    BY <2>1, Zenon DEF DispatcherIInv, Types, TypeOK, Control, Counted
  <2>3. RegistrySound /\ \A t \in sessions' : t.active /\ Alive(t.app) =>
                           \E s \in RemoveDead : s.app = t.app /\ s.active
    BY <2>1, RegistryKept, Zenon
  <2>4. Requests' /\ Notices' /\ Authority'
    BY <2>1, <2>3, QuietStep, Zenon
  <2> QED
    BY <2>2, <2>4, Zenon DEF DispatcherIInv
<1>2. CASE Dispatch
  BY <1>2, TakeDeferredStep, PrepareRefusedStep, PrepareRegistersStep, StartDecisionStep,
     EnterSelectStep, SelectCallbackStep, ReceiveDecisionStep, ReceiveLifecycleStep,
     RevokeStep, NotifyStep, OverloadStep, ReceiveClosedStep, Zenon DEF Dispatch
<1>3. CASE Next /\ ~Dispatch
  BY <1>3, OutsideStep, SendStep, Zenon DEF Next
<1> QED
  BY <1>1, <1>2, <1>3, Zenon

LEMMA DispatcherInvariant == Spec => []DispatcherIInv
<1>1. Init => DispatcherIInv
  BY InitHolds, Zenon
<1>2. DispatcherIInv /\ [Next]_vars => DispatcherIInv'
  BY DispatcherStep, Zenon
<1> QED
  BY <1>1, <1>2, PTL DEF Spec

\* No path of the handler forgets a caller that awaits its reply, or a
\* notification that Dart has to get: for every bound of the queue and the burst.
THEOREM NothingIsForgotten == Spec => []NothingForgotten
<1>1. DispatcherIInv => NothingForgotten
  <2> SUFFICES ASSUME DispatcherIInv
               PROVE  NothingForgotten
    OBVIOUS
  <2>1. TypeOK /\ Awaited /\ Owed
    BY Zenon DEF DispatcherIInv, Types, Requests, Notices
  <2> QED
    BY <2>1, Zenon DEF NothingForgotten, Awaited, Pending, Kept, Owed, Delivered, Note
<1> QED
  BY <1>1, DispatcherInvariant, PTL

\* After the handler has invalidated an application, no projection, listing or
\* registration gives it an active reference again; none is active once stop_xswd
\* has cleared the registry and the handler has ended.
THEOREM NoAuthorityIsFresh == Spec => []NoFreshAuthority
<1>1. DispatcherIInv => NoFreshAuthority
  BY Zenon DEF DispatcherIInv, Authority, Inactive, Cleared, NoFreshAuthority
<1> QED
  BY <1>1, DispatcherInvariant, PTL

\* No decision is with the user for an application that a disconnection, a
\* cancelled admission or an overload has invalidated.
THEOREM NoDecisionIsLate == Spec => []NoDecisionAfterRevocation
<1>1. DispatcherIInv => NoDecisionAfterRevocation
  BY Zenon DEF DispatcherIInv, Authority, Asked, NoDecisionAfterRevocation
<1> QED
  BY <1>1, DispatcherInvariant, PTL

\* The biased select receives at most MAX_XSWD_RECEIVE_BURST events before it
\* takes the outcome of a completed callback.
THEOREM CallbackIsNotStarved == Spec => []CallbackNotStarved
<1>1. DispatcherIInv => CallbackNotStarved
  BY Zenon DEF DispatcherIInv, Counted, CallbackNotStarved
<1> QED
  BY <1>1, DispatcherInvariant, PTL

-----------------------------------------------------------------------------
(* XswdCalls                                                               *)

Location == {"idle", "begun", "serverTaken", "serverStopped", "relayerTaken",
             "relayerClosed", "initialised", "added", "server", "relayer", "closing"}

PlainCall == [op : {"none", "start", "stop", "add", "close"}, pc : Location,
              target : Session \cup {NoSession}]
ModifyCall == [op : {"modify"}, pc : Location, target : Session, updates : Update]

CallsTypeOK ==
  /\ perms \in [Session -> [Permission -> {"Ask", "Allow", "Reject"}]]
  /\ call \in [Call -> PlainCall \cup ModifyCall]

\* The updates a call will apply, if any, are the user's.
CallsAsked(c) ==
  call[c].op = "modify" =>
    \A p \in DOMAIN call[c].updates :
      call[c].updates[p] = "Accept" => <<call[c].target, p>> \in granted

CallsIInv == CallsTypeOK /\ (\A c \in Call : CallsAsked(c)) /\ Calls!AuthorityGranted

-----------------------------------------------------------------------------

LEMMA IdleType == Calls!Idle \in PlainCall /\ Calls!Idle.op = "none"
BY Zenon DEF Calls!Idle, PlainCall, Location

LEMMA CallsInitIInv == Calls!Init => CallsIInv
<1>. SUFFICES ASSUME Calls!Init PROVE CallsIInv
  OBVIOUS
<1>1. CallsTypeOK
  BY IdleType, Zenon DEF Calls!Init, CallsTypeOK
<1>2. \A c \in Call : CallsAsked(c)
  BY IdleType, Zenon DEF Calls!Init, CallsAsked
<1>3. Calls!AuthorityGranted
  BY Zenon DEF Calls!Init, Calls!AuthorityGranted
<1>. QED BY <1>1, <1>2, <1>3, Zenon DEF CallsIInv

\* The calls after a step: one moves on, keeping what it asked for, or is a call
\* that updates nothing.
CallMoves(c) ==
  \/ \E to \in Location : Calls!Goto(c, to)
  \/ \E new \in PlainCall : call' = [call EXCEPT ![c] = new]

LEMMA CallsAfter ==
  ASSUME CallsTypeOK, NEW c \in Call, CallMoves(c)
  PROVE  /\ call' \in [Call -> PlainCall \cup ModifyCall]
         /\ \A d \in Call : call'[d].op = "modify" =>
              /\ call[d].op = "modify"
              /\ call'[d].target = call[d].target
              /\ call'[d].updates = call[d].updates
<1>1. ASSUME NEW to \in Location, Calls!Goto(c, to)
      PROVE  /\ call' \in [Call -> PlainCall \cup ModifyCall]
             /\ \A d \in Call : call'[d].op = "modify" =>
                  /\ call[d].op = "modify"
                  /\ call'[d].target = call[d].target
                  /\ call'[d].updates = call[d].updates
  <2>. DEFINE new == [call[c] EXCEPT !.pc = to]
  <2>1. call' = [call EXCEPT ![c] = new]
    BY <1>1, Zenon DEF Calls!Goto
  <2>2. CASE call[c] \in PlainCall
    <3>1. new \in PlainCall
      BY <2>2, Zenon DEF PlainCall
    <3>2. new.op # "modify"
      BY <3>1, Zenon DEF PlainCall
    <3>. HIDE DEF new
    <3>. QED BY <2>1, <3>1, <3>2, Zenon DEF CallsTypeOK
  <2>3. CASE call[c] \in ModifyCall
    <3>1. /\ new \in ModifyCall /\ call[c].op = "modify"
          /\ new.target = call[c].target /\ new.updates = call[c].updates
      BY <2>3, Zenon DEF ModifyCall
    <3>. HIDE DEF new
    <3>. QED BY <2>1, <3>1, Zenon DEF CallsTypeOK
  <2>. QED BY <2>2, <2>3, Zenon DEF CallsTypeOK
<1>2. ASSUME NEW new \in PlainCall, call' = [call EXCEPT ![c] = new]
      PROVE  /\ call' \in [Call -> PlainCall \cup ModifyCall]
             /\ \A d \in Call : call'[d].op = "modify" =>
                  /\ call[d].op = "modify"
                  /\ call'[d].target = call[d].target
                  /\ call'[d].updates = call[d].updates
  <2>1. new.op # "modify"
    BY Zenon DEF PlainCall
  <2>. QED BY <1>2, <2>1, Zenon DEF CallsTypeOK
<1>. QED BY <1>1, <1>2, Zenon DEF CallMoves

\* A step in which one call moves, permissions change for what was granted and
\* nothing granted is forgotten.
LEMMA GrantStep ==
  ASSUME CallsIInv, UNCHANGED call \/ \E c \in Call : CallMoves(c),
         granted \subseteq granted',
         perms' \in [Session -> [Permission -> {"Ask", "Allow", "Reject"}]],
         \A s \in Session, p \in Permission :
           perms'[s][p] = "Allow" => perms[s][p] = "Allow" \/ <<s, p>> \in granted'
  PROVE  CallsIInv'
<1>1. /\ call' \in [Call -> PlainCall \cup ModifyCall]
      /\ \A d \in Call : call'[d].op = "modify" =>
           /\ call[d].op = "modify"
           /\ call'[d].target = call[d].target
           /\ call'[d].updates = call[d].updates
  BY CallsAfter, Zenon DEF CallsIInv, CallsTypeOK
<1>2. CallsTypeOK'
  BY <1>1, Zenon DEF CallsTypeOK
<1>3. ASSUME NEW d \in Call PROVE CallsAsked(d)'
  BY <1>1, Zenon DEF CallsIInv, CallsAsked
<1>4. Calls!AuthorityGranted'
  BY Zenon DEF CallsIInv, Calls!AuthorityGranted
<1>. QED BY <1>2, <1>3, <1>4, Zenon DEF CallsIInv

\* The steps that touch no permission.
LEMMA PlainStep ==
  ASSUME CallsIInv, UNCHANGED call \/ \E c \in Call : CallMoves(c),
         UNCHANGED <<perms, granted>>
  PROVE  CallsIInv'
BY GrantStep, Zenon DEF CallsIInv, CallsTypeOK

-----------------------------------------------------------------------------
(* Calls that change no permission                                         *)

LEMMA BeginStep ==
  ASSUME CallsIInv, NEW c \in Call,
         \/ Calls!BeginLifecycle(c, "start") \/ Calls!BeginLifecycle(c, "stop")
         \/ \E s \in Session : Calls!BeginApplication(c, "add", s) \/ Calls!BeginApplication(c, "close", s)
  PROVE  CallsIInv'
<1>1. UNCHANGED <<perms, granted>>
  BY Zenon DEF Calls!BeginLifecycle, Calls!BeginApplication
<1>2. \E new \in PlainCall : call' = [call EXCEPT ![c] = new]
  BY Zenon DEF Calls!BeginLifecycle, Calls!BeginApplication, PlainCall, Location
<1>. QED BY <1>1, <1>2, PlainStep, Zenon DEF CallMoves

LEMMA CallsServiceStep ==
  ASSUME CallsIInv, NEW c \in Call,
         \/ Calls!StartXswd(c)
         \/ Calls!StopServer(c) \/ Calls!StopServerEnds(c) \/ Calls!StopRelayer(c)
         \/ Calls!StopRelayerEnds(c) \/ Calls!StopClears(c)
         \/ Calls!AddRelayerInit(c) \/ Calls!AddRelayerConnects(c) \/ Calls!AddRelayerEnds(c)
  PROVE  CallsIInv'
<1>1. UNCHANGED <<perms, granted>>
  BY Zenon
     DEF Calls!StartXswd, Calls!StopServer, Calls!StopServerEnds, Calls!StopRelayer,
         Calls!StopRelayerEnds, Calls!StopClears, Calls!AddRelayerInit,
         Calls!AddRelayerConnects, Calls!AddRelayerEnds, Calls!EndApplication, Calls!history
<1>2. Calls!Return(c) \/ \E to \in Location : Calls!Goto(c, to)
  BY Zenon
     DEF Calls!StartXswd, Calls!StopServer, Calls!StopServerEnds, Calls!StopRelayer,
         Calls!StopRelayerEnds, Calls!StopClears, Calls!AddRelayerInit,
         Calls!AddRelayerConnects, Calls!AddRelayerEnds, Calls!EndApplication, Location
<1>. QED BY <1>1, <1>2, IdleType, PlainStep, Zenon DEF CallMoves, Calls!Return

LEMMA CallsCloseStep ==
  ASSUME CallsIInv, NEW c \in Call,
         \/ Calls!CloseResolves(c) \/ Calls!CloseLocal(c)
         \/ Calls!CloseRelayed(c) \/ Calls!CloseRelayedEnds(c)
  PROVE  CallsIInv'
<1>1. UNCHANGED <<perms, granted>>
  BY Zenon
     DEF Calls!CloseResolves, Calls!CloseLocal, Calls!CloseRelayed, Calls!CloseRelayedEnds,
         Calls!EndApplication, Calls!history
<1>2. Calls!Return(c) \/ \E to \in Location : Calls!Goto(c, to)
  BY Zenon
     DEF Calls!CloseResolves, Calls!CloseLocal, Calls!CloseRelayed, Calls!CloseRelayedEnds,
         Calls!EndApplication, Location
<1>. QED BY <1>1, <1>2, IdleType, PlainStep, Zenon DEF CallMoves, Calls!Return

LEMMA ExternalStep ==
  ASSUME CallsIInv,
         \/ UNCHANGED Calls!vars
         \/ \E s \in Session : \/ Calls!ConnectLocal(s) \/ Calls!PeerCloses(s)
                               \/ \E o \in Calls!Outcome : Calls!DecideApplication(s, o)
         \/ \E s \in Session : \/ Calls!Register(s) \/ Calls!RefuseAdmission(s)
                               \/ Calls!Invalidate(s)
         \/ Calls!HandlerEnds \/ \E b \in BOOLEAN : Calls!List(b)
  PROVE  CallsIInv'
<1>1. UNCHANGED <<perms, granted, call>>
  BY Zenon
     DEF Calls!ConnectLocal, Calls!PeerCloses, Calls!DecideApplication, Calls!Register,
         Calls!RefuseAdmission, Calls!Invalidate, Calls!HandlerEnds, Calls!List,
         Calls!history, Calls!vars
<1>. QED BY <1>1, PlainStep, Zenon

-----------------------------------------------------------------------------
(* Permissions                                                             *)

\* The user's updates are granted for the session they name.
LEMMA BeginModifyStep ==
  ASSUME CallsIInv, NEW c \in Call, NEW s \in Session, NEW u \in Update,
         Calls!BeginModify(c, s, u)
  PROVE  CallsIInv'
<1>. DEFINE new == [op |-> "modify", pc |-> "server", target |-> s, updates |-> u]
<1>1. /\ UNCHANGED perms /\ granted \subseteq granted'
      /\ \A p \in DOMAIN u : u[p] = "Accept" => <<s, p>> \in granted'
      /\ call' = [call EXCEPT ![c] = new]
  BY Zenon DEF Calls!BeginModify
<1>2. /\ new \in ModifyCall
      /\ new.target = s /\ new.updates = u
  BY Zenon DEF ModifyCall, Location
<1>. HIDE DEF new
<1>3. /\ CallsTypeOK' /\ call'[c] = new
      /\ \A d \in Call \ {c} : call'[d] = call[d]
  BY <1>1, <1>2, Zenon DEF CallsIInv, CallsTypeOK
<1>4. ASSUME NEW d \in Call PROVE CallsAsked(d)'
  <2>1. CASE d = c
    BY <1>1, <1>2, <1>3, <2>1, Zenon DEF CallsAsked
  <2>2. CASE d # c
    BY <1>1, <1>3, <2>2, Zenon DEF CallsIInv, CallsAsked
  <2>. QED BY <2>1, <2>2, Zenon
<1>5. Calls!AuthorityGranted'
  BY <1>1, Zenon DEF CallsIInv, Calls!AuthorityGranted
<1>. QED BY <1>3, <1>4, <1>5, Zenon DEF CallsIInv

\* apply_permission_updates allows only what the updates accept.
LEMMA UpdatesApplied ==
  ASSUME NEW current \in [Permission -> {"Ask", "Allow", "Reject"}], NEW u
  PROVE  LET new == Calls!ApplyPermissionUpdates(current, u) IN
         /\ new \in [Permission -> {"Ask", "Allow", "Reject"}]
         /\ \A p \in Permission : new[p] = "Allow" =>
              current[p] = "Allow" \/ (p \in DOMAIN u /\ u[p] = "Accept")
BY Zenon DEF Calls!ApplyPermissionUpdates, Calls!PermissionFromPolicy

\* They are applied to the session that was named, and no other.
LEMMA ModifyStep ==
  ASSUME CallsIInv, NEW c \in Call, Calls!ModifyLocal(c) \/ Calls!ModifyRelayed(c)
  PROVE  CallsIInv'
<1>1. call[c].op = "modify" /\ UNCHANGED granted
  BY Zenon DEF Calls!ModifyLocal, Calls!ModifyRelayed, Calls!At, Calls!history
<1>2. CASE Calls!Goto(c, "relayer") /\ UNCHANGED perms
  BY <1>1, <1>2, PlainStep, Zenon DEF CallMoves, Location
<1>3. ASSUME NEW found, \A s \in found : s = call[c].target, Calls!Modifies(c, found)
      PROVE  CallsIInv'
  <2>1. ASSUME NEW s \in Session
        PROVE  /\ perms'[s] \in [Permission -> {"Ask", "Allow", "Reject"}]
               /\ \A p \in Permission : perms'[s][p] = "Allow" =>
                    perms[s][p] = "Allow" \/ <<s, p>> \in granted'
    <3>1. perms[s] \in [Permission -> {"Ask", "Allow", "Reject"}]
      BY Zenon DEF CallsIInv, CallsTypeOK
    <3>2. CASE s \notin found
      BY <1>3, <3>1, <3>2, Zenon DEF Calls!Modifies
    <3>3. CASE s \in found
      <4>1. perms'[s] = Calls!ApplyPermissionUpdates(perms[s], call[c].updates)
        BY <1>3, <3>3, Zenon DEF Calls!Modifies
      <4>2. s = call[c].target
        BY <1>3, <3>3, Zenon
      <4>. QED BY <1>1, <3>1, <4>1, <4>2, UpdatesApplied DEF CallsIInv, CallsAsked
    <3>. QED BY <3>2, <3>3, Zenon
  <2>2. perms' = [s \in Session |-> perms'[s]]
    BY <1>3, Zenon DEF Calls!Modifies
  <2>3. perms' \in [Session -> [Permission -> {"Ask", "Allow", "Reject"}]]
    BY <2>1, <2>2, Zenon
  <2>4. CallMoves(c)
    BY <1>3, IdleType, Zenon DEF Calls!Modifies, Calls!Return, CallMoves
  <2>. QED BY <1>1, <2>1, <2>3, <2>4, GrantStep, Zenon
<1>4. \A b : \A s \in Calls!Found(call[c].target, b) : s = call[c].target
  BY Zenon DEF Calls!Found, Calls!Same
<1>5. CASE Calls!ModifyLocal(c)
  BY <1>2, <1>3, <1>4, <1>5, Zenon DEF Calls!ModifyLocal
<1>6. CASE Calls!ModifyRelayed(c)
  BY <1>3, <1>4, <1>6, Zenon DEF Calls!ModifyRelayed
<1>. QED BY <1>5, <1>6, Zenon

\* A remembered answer and a prefetch allow what the user has just accepted.
LEMMA DecideStep ==
  ASSUME CallsIInv, NEW s \in Session, NEW o \in Calls!Outcome,
         \/ \E p \in Permission : Calls!DecidePermission(s, p, o)
         \/ \E asked \in SUBSET Permission : Calls!DecidePrefetch(s, asked, o)
  PROVE  CallsIInv'
<1>. DEFINE Policy == {"Ask", "Allow", "Reject"}
<1>1. perms[s] \in [Permission -> Policy] /\ perms \in [Session -> [Permission -> Policy]]
  BY Zenon DEF CallsIInv, CallsTypeOK
<1>2. UNCHANGED call
  BY Zenon DEF Calls!DecidePermission, Calls!DecidePrefetch
<1>3. ASSUME NEW p \in Permission, Calls!DecidePermission(s, p, o)
      PROVE  CallsIInv'
  <2>. DEFINE v == CASE Calls!PermissionResult(o) = "AlwaysAccept" -> "Allow"
                     [] Calls!PermissionResult(o) = "AlwaysReject" -> "Reject"
                     [] OTHER -> perms[s][p]
              row == [perms[s] EXCEPT ![p] = v]
  <2>1. /\ perms' = [perms EXCEPT ![s] = row]
        /\ granted' = IF Calls!Accepts(o) THEN granted \cup {<<s, p>>} ELSE granted
    BY <1>3, Zenon DEF Calls!DecidePermission
  <2>2. v \in Policy /\ (v = "Allow" => Calls!Accepts(o) \/ perms[s][p] = "Allow")
    BY <1>1, Zenon DEF Calls!PermissionResult, Calls!Accepts
  <2>. HIDE DEF v
  <2>3. /\ row \in [Permission -> Policy] /\ row[p] = v
        /\ \A q \in Permission \ {p} : row[q] = perms[s][q]
    BY <1>1, <2>2, Zenon
  <2>. HIDE DEF row
  <2>4. /\ perms' \in [Session -> [Permission -> Policy]] /\ perms'[s] = row
        /\ \A t \in Session \ {s} : perms'[t] = perms[t]
    BY <1>1, <2>1, <2>3, Zenon
  <2>5. \A t \in Session, q \in Permission :
          perms'[t][q] = "Allow" => perms[t][q] = "Allow" \/ <<t, q>> \in granted'
    BY <2>1, <2>2, <2>3, <2>4, Zenon
  <2>. QED BY <1>2, <2>1, <2>4, <2>5, GrantStep, Zenon
<1>4. ASSUME NEW asked \in SUBSET Permission, Calls!DecidePrefetch(s, asked, o)
      PROVE  CallsIInv'
  <2>. DEFINE row == [q \in Permission |->
                        IF q \in Calls!PrefetchResult(o, asked) THEN "Allow" ELSE perms[s][q]]
  <2>1. /\ perms' = [perms EXCEPT ![s] = row]
        /\ granted' = IF Calls!Accepts(o) THEN granted \cup {<<s, q>> : q \in asked} ELSE granted
    BY <1>4, Zenon DEF Calls!DecidePrefetch
  <2>2. \A q \in Calls!PrefetchResult(o, asked) : Calls!Accepts(o) /\ q \in asked
    BY Zenon DEF Calls!PrefetchResult, Calls!PermissionResult, Calls!Accepts
  <2>3. /\ row \in [Permission -> Policy]
        /\ \A q \in Permission : row[q] = "Allow" =>
             perms[s][q] = "Allow" \/ <<s, q>> \in granted'
    BY <1>1, <2>1, <2>2, Zenon
  <2>. HIDE DEF row
  <2>4. /\ perms' \in [Session -> [Permission -> Policy]] /\ perms'[s] = row
        /\ \A t \in Session \ {s} : perms'[t] = perms[t]
    BY <1>1, <2>1, <2>3, Zenon
  <2>5. \A t \in Session, q \in Permission :
          perms'[t][q] = "Allow" => perms[t][q] = "Allow" \/ <<t, q>> \in granted'
    BY <2>3, <2>4, Zenon
  <2>6. granted \subseteq granted'
    BY <2>1, Zenon
  <2>. QED BY <1>2, <2>4, <2>5, <2>6, GrantStep, Zenon
<1>. QED BY <1>3, <1>4, Zenon

-----------------------------------------------------------------------------

LEMMA CallsNextIInv == CallsIInv /\ [Calls!Next]_(Calls!vars) => CallsIInv'
<1>. SUFFICES ASSUME CallsIInv, [Calls!Next]_(Calls!vars) PROVE CallsIInv'
  OBVIOUS
<1>. QED BY BeginStep, CallsServiceStep, CallsCloseStep, ExternalStep, BeginModifyStep,
            ModifyStep, DecideStep, Zenon DEF Calls!Next

\* Whatever overlaps, modify_application_permissions and the callbacks give a
\* session no permission that the user did not allow for that very session.
THEOREM OnlyGrantedAuthority == Calls!Spec => []AuthorityGranted
<1>1. CallsIInv => AuthorityGranted
  BY Zenon DEF CallsIInv, AuthorityGranted
<1>. QED BY <1>1, CallsInitIInv, CallsNextIInv, PTL DEF Calls!Spec

-----------------------------------------------------------------------------
(* A completed stop                                                        *)

\* The calls of start and stop, and those that add or close an application.
Starts(c) == call[c].op \in {"start", "stop"}
Admits(c) == call[c].op \in {"add", "close"}
Stopping(at) == \E c \in Call : call[c].op = "stop" /\ call[c].pc \in at

SessionRecord ==
  [state : {"new", "admitting", "live", "closing", "gone"}, is_relayer : BOOLEAN]

ServiceType ==
  /\ server \in BOOLEAN /\ relayer \in BOOLEAN /\ handler \in BOOLEAN
  /\ lifecycle \in BOOLEAN /\ stopped \in BOOLEAN
  /\ session \in [Session -> SessionRecord]
  /\ registry \in [Session -> {"none", "active", "inactive"}]

\* The adapter runs start and stop alone, and one call per application.
Excluded ==
  /\ \A c \in Call : Starts(c) => lifecycle /\ ops = {}
  /\ \A c \in Call : Admits(c) => /\ ~lifecycle /\ call[c].target \in Session
                                  /\ AppId[call[c].target] \in ops
  /\ \A c, d \in Call : Starts(c) /\ Starts(d) => c = d
  /\ \A c, d \in Call :
       Admits(c) /\ Admits(d) /\ AppId[call[c].target] = AppId[call[d].target] => c = d

\* A connected session has a handler, and the service it came through, unless a
\* stop has taken that and not yet ended its sessions.
Served ==
  /\ server \/ relayer => handler
  /\ \A s \in Session : Calls!Connected(s) =>
       /\ handler
       /\ ~session[s].is_relayer => server \/ Stopping({"serverTaken"})
       /\ session[s].is_relayer => relayer \/ Stopping({"relayerTaken"})
  /\ Stopping({"serverTaken", "serverStopped", "relayerTaken", "relayerClosed"}) => ~server
  /\ Stopping({"relayerTaken", "relayerClosed"}) => ~relayer

\* A session has nothing in the registry before it connects, and a reference
\* that works from the moment its request has been reached until it is refused
\* or ends; no reference works without a handler.
Referenced(s) ==
  /\ session[s].state = "new" => registry[s] = "none" /\ s \notin requests
  /\ session[s].state = "admitting" => Calls!Referable(s)
  /\ session[s].state = "live" => registry[s] = "active"
  /\ registry[s] = "active" => handler

AtRest ==
  stopped =>
    /\ ~server /\ ~relayer
    /\ \A s \in Session : ~Calls!Connected(s) /\ (Calls!Referable(s) => s \in late)
    /\ \A c \in Call : ~Starts(c) /\ call[c].op # "add"

StopInv ==
  /\ CallsTypeOK /\ ServiceType /\ Excluded /\ Served
  /\ \A s \in Session : Referenced(s)
  /\ AtRest

\* Call c becomes op at `to` with a target; every other call is as before.
Becomes(c, op, to, target) ==
  /\ call'[c].op = op /\ call'[c].pc = to /\ call'[c].target = target
  /\ \A d \in Call \ {c} : call'[d] = call[d]

\* Sessions are refused, closed or end, and none connects.
Ebbs ==
  \A s \in Session :
    \/ session'[s] = session[s]
    \/ session'[s].state = "gone"
    \/ /\ session'[s].state = "closing" /\ Calls!Connected(s)
       /\ session'[s].is_relayer = session[s].is_relayer

\* No session connects, and none gets a reference or waits for one.
Calm ==
  \A s \in Session :
    /\ Calls!Connected(s)' =>
         Calls!Connected(s) /\ session'[s].is_relayer = session[s].is_relayer
    /\ Calls!Referable(s)' => Calls!Referable(s)

LEMMA GotoBecomes ==
  ASSUME CallsTypeOK, NEW c \in Call, NEW to, Calls!Goto(c, to)
  PROVE  Becomes(c, call[c].op, to, call[c].target)
<1>. DEFINE new == [call[c] EXCEPT !.pc = to]
<1>1. call' = [call EXCEPT ![c] = new]
  BY Zenon DEF Calls!Goto
<1>2. new.op = call[c].op /\ new.pc = to /\ new.target = call[c].target
  <2>1. CASE call[c] \in PlainCall
    BY <2>1, Zenon DEF PlainCall
  <2>2. CASE call[c] \in ModifyCall
    BY <2>2, Zenon DEF ModifyCall
  <2>. QED BY <2>1, <2>2, Zenon DEF CallsTypeOK
<1>. HIDE DEF new
<1>. QED BY <1>1, <1>2, Zenon DEF CallsTypeOK, Becomes

LEMMA ReturnBecomes ==
  ASSUME CallsTypeOK, NEW c \in Call, Calls!Return(c)
  PROVE  Becomes(c, "none", "idle", NoSession)
<1>1. Calls!Idle.op = "none" /\ Calls!Idle.pc = "idle" /\ Calls!Idle.target = NoSession
  BY Zenon DEF Calls!Idle
<1>. QED BY <1>1, Zenon DEF CallsTypeOK, Becomes, Calls!Return

\* A session ends for good.
LEMMA DisconnectedEbbs ==
  ASSUME ServiceType, NEW S, Calls!Disconnected(S)
  PROVE  /\ session' \in [Session -> SessionRecord] /\ Ebbs
         /\ \A s \in Session \cap S : ~Calls!Connected(s)'
<1>. DEFINE new == [state |-> "gone", is_relayer |-> FALSE]
<1>1. new.state = "gone" /\ new \in SessionRecord
  BY Zenon DEF SessionRecord
<1>2. session' = [s \in Session |-> IF s \in S THEN new ELSE session[s]]
  BY Zenon DEF Calls!Disconnected
<1>. HIDE DEF new
<1>3. session' \in [Session -> SessionRecord]
  BY <1>1, <1>2, Zenon DEF ServiceType
<1>. QED BY <1>1, <1>2, <1>3, Zenon DEF Ebbs, Calls!Connected

\* A session in a set is closed, but still connected.
LEMMA ClosingEbbs ==
  ASSUME ServiceType, NEW S, \A s \in S : Calls!Connected(s),
         session' = [s \in Session |->
           IF s \in S THEN [session[s] EXCEPT !.state = "closing"] ELSE session[s]]
  PROVE  session' \in [Session -> SessionRecord] /\ Ebbs
<1>1. ASSUME NEW s \in Session
      PROVE  /\ session'[s] \in SessionRecord
             /\ s \in S => /\ session'[s].state = "closing"
                           /\ session'[s].is_relayer = session[s].is_relayer
             /\ s \notin S => session'[s] = session[s]
  <2>. DEFINE new == [session[s] EXCEPT !.state = "closing"]
  <2>1. /\ new.state = "closing" /\ new \in SessionRecord
        /\ new.is_relayer = session[s].is_relayer
    BY Zenon DEF ServiceType, SessionRecord
  <2>2. session'[s] = IF s \in S THEN new ELSE session[s]
    BY Zenon
  <2>. HIDE DEF new
  <2>. QED BY <2>1, <2>2, Zenon DEF ServiceType
<1>2. session' = [s \in Session |-> session'[s]]
  BY Zenon
<1>. QED BY <1>1, <1>2, Zenon DEF Ebbs

\* A refused application is no longer being admitted.
LEMMA RefusedEbbs ==
  ASSUME ServiceType, NEW s \in Session, Calls!Refused(s)
  PROVE  /\ session' \in [Session -> SessionRecord] /\ Ebbs
         /\ session'[s].state # "admitting"
         /\ \A t \in Session \ {s} : session'[t] = session[t]
<1>1. CASE session[s].state = "admitting"
  <2>. DEFINE new == [session[s] EXCEPT !.state = "closing"]
  <2>1. /\ new.state = "closing" /\ new \in SessionRecord
        /\ new.is_relayer = session[s].is_relayer
    BY Zenon DEF ServiceType, SessionRecord
  <2>2. session' = [session EXCEPT ![s] = new]
    BY <1>1, Zenon DEF Calls!Refused
  <2>. HIDE DEF new
  <2>. QED BY <1>1, <2>1, <2>2 DEF ServiceType, Ebbs, Calls!Connected
<1>2. CASE session[s].state # "admitting"
  BY <1>2, Zenon DEF Calls!Refused, ServiceType, Ebbs
<1>. QED BY <1>1, <1>2

LEMMA EbbsCalm ==
  ASSUME Ebbs, \A s \in Session : Calls!Referable(s)' => Calls!Referable(s)
  PROVE  Calm
BY DEF Ebbs, Calm, Calls!Connected

\* An ebb that leaves the registry alone.
LEMMA EbbsReferenced ==
  ASSUME StopInv, Ebbs, UNCHANGED <<registry, requests, handler>>
  PROVE  Calm /\ \A s \in Session : Referenced(s)'
<1>1. Calm
  BY EbbsCalm, Zenon DEF Calls!Referable
<1>2. ASSUME NEW s \in Session PROVE Referenced(s)'
  <2>1. Referenced(s)
    BY Zenon DEF StopInv
  <2>. QED BY <2>1 DEF Ebbs, Referenced, Calls!Referable
<1>. QED BY <1>1, <1>2

\* A session that connects waits for a reference.
LEMMA ConnectsReferenced ==
  ASSUME StopInv, NEW s \in Session, NEW b \in BOOLEAN, Calls!Connects(s, b),
         UNCHANGED <<registry, handler>>
  PROVE  /\ session' \in [Session -> SessionRecord] /\ session'[s].is_relayer = b
         /\ \A t \in Session \ {s} : session'[t] = session[t]
         /\ \A t \in Session : Referenced(t)'
<1>. DEFINE new == [state |-> "admitting", is_relayer |-> b]
<1>1. new.is_relayer = b /\ new.state = "admitting" /\ new \in SessionRecord
  BY Zenon DEF SessionRecord
<1>2. /\ session[s].state = "new" /\ session' = [session EXCEPT ![s] = new]
      /\ requests' = requests \cup {s}
  BY Zenon DEF Calls!Connects
<1>. HIDE DEF new
<1>3. /\ session' \in [Session -> SessionRecord] /\ session'[s] = new
      /\ \A t \in Session \ {s} : session'[t] = session[t]
  BY <1>1, <1>2, Zenon DEF StopInv, ServiceType
<1>4. ASSUME NEW t \in Session PROVE Referenced(t)'
  <2>1. Referenced(t)
    BY Zenon DEF StopInv
  <2>2. CASE t = s
    BY <1>1, <1>2, <1>3, <2>1, <2>2, Zenon DEF Referenced, Calls!Referable
  <2>3. CASE t # s
    BY <1>2, <1>3, <2>1, <2>3, Zenon DEF Referenced, Calls!Referable
  <2>. QED BY <2>2, <2>3
<1>. QED BY <1>1, <1>3, <1>4

\* Every step keeps the calls well formed.
LEMMA CallTypes == CallsIInv /\ [Calls!Next]_(Calls!vars) => CallsTypeOK'
BY CallsNextIInv, Zenon DEF CallsIInv

-----------------------------------------------------------------------------

\* The calls that are neither start nor stop, add nor close.
LEMMA OtherStep ==
  ASSUME StopInv, CallsTypeOK',
         UNCHANGED call \/ \E c \in Call : \E t :
             /\ call[c].op \in {"none", "modify"}
             /\ Becomes(c, "modify", "server", t) \/ Becomes(c, "modify", "relayer", t)
                  \/ Becomes(c, "none", "idle", t),
         UNCHANGED <<server, relayer, handler, session, registry, requests, lifecycle, ops,
                     stopped, late>>
  PROVE  StopInv'
<1>0. \A d \in Call : /\ Starts(d) \/ Starts(d)' => call'[d] = call[d]
                      /\ Admits(d) \/ Admits(d)' => call'[d] = call[d]
                      /\ call'[d].op = "add" => call[d].op = "add"
  BY Zenon DEF Becomes, Starts, Admits
<1>1. ServiceType'
  BY Zenon DEF StopInv, ServiceType
<1>2. Excluded'
  BY <1>0, Zenon DEF StopInv, Excluded, Starts, Admits
<1>3. \A at : Stopping(at)' <=> Stopping(at)
  BY <1>0, Zenon DEF Stopping, Starts
<1>4. Served'
  BY <1>3, Zenon DEF StopInv, Served, Calls!Connected
<1>5. AtRest'
  BY <1>0, Zenon DEF StopInv, AtRest, Calls!Connected, Calls!Referable, Starts
<1>6. \A s \in Session : Referenced(s)'
  BY Zenon DEF StopInv, Referenced, Calls!Referable
<1>. QED BY <1>1, <1>2, <1>4, <1>5, <1>6, Zenon DEF StopInv

\* A step of no call that starts and stops nothing.
LEMMA CallsQuietStep ==
  ASSUME StopInv, CallsTypeOK', session' \in [Session -> SessionRecord],
         registry' \in [Session -> {"none", "active", "inactive"}],
         Calm, \A s \in Session : Referenced(s)',
         UNCHANGED <<server, relayer, handler, call, lifecycle, ops, stopped, late>>
  PROVE  StopInv'
<1>1. Excluded'
  BY Zenon DEF StopInv, Excluded, Starts, Admits
<1>2. Served'
  BY Zenon DEF StopInv, Served, Stopping, Calm
<1>3. AtRest'
  BY Zenon DEF StopInv, AtRest, Starts, Calm
<1>4. ServiceType'
  BY Zenon DEF StopInv, ServiceType
<1>. QED BY <1>1, <1>2, <1>3, <1>4, Zenon DEF StopInv

LEMMA ConnectLocalStep ==
  ASSUME StopInv, CallsTypeOK', NEW s \in Session, Calls!ConnectLocal(s)
  PROVE  StopInv'
<1>1. /\ server
      /\ UNCHANGED <<server, relayer, handler, registry, call, lifecycle, ops, stopped, late>>
      /\ Calls!Connects(s, FALSE)
  BY Zenon DEF Calls!ConnectLocal, Calls!xswd, Calls!adapter, Calls!history
<1>2. /\ session' \in [Session -> SessionRecord] /\ session'[s].is_relayer = FALSE
      /\ \A t \in Session \ {s} : session'[t] = session[t]
      /\ \A t \in Session : Referenced(t)'
  BY <1>1, ConnectsReferenced, Zenon
<1>3. ServiceType'
  BY <1>1, <1>2, Zenon DEF StopInv, ServiceType
<1>4. Excluded'
  BY <1>1, Zenon DEF StopInv, Excluded, Starts, Admits
<1>5. Served'
  BY <1>1, <1>2, Zenon DEF StopInv, Served, Calls!Connected, Stopping
<1>6. AtRest'
  BY <1>1, Zenon DEF StopInv, AtRest
<1>. QED BY <1>2, <1>3, <1>4, <1>5, <1>6, Zenon DEF StopInv

LEMMA PeerClosesStep ==
  ASSUME StopInv, CallsTypeOK', NEW s \in Session, Calls!PeerCloses(s)
  PROVE  StopInv'
<1>1. /\ UNCHANGED <<server, relayer, handler, registry, requests, call, lifecycle, ops,
                     stopped, late>>
      /\ Calls!Disconnected({s})
  BY Zenon DEF Calls!PeerCloses, Calls!xswd, Calls!adapter, Calls!references, Calls!history
<1>2. session' \in [Session -> SessionRecord] /\ Ebbs
  BY <1>1, DisconnectedEbbs, Zenon DEF StopInv
<1>3. Calm /\ \A t \in Session : Referenced(t)'
  BY <1>1, <1>2, EbbsReferenced, Zenon
<1>. QED BY <1>1, <1>2, <1>3, CallsQuietStep, Zenon DEF StopInv, ServiceType

LEMMA DecideApplicationStep ==
  ASSUME StopInv, CallsTypeOK', NEW s \in Session, NEW o \in Calls!Outcome,
         Calls!DecideApplication(s, o)
  PROVE  StopInv'
<1>1. UNCHANGED <<server, relayer, handler, registry, requests, call, lifecycle, ops,
                  stopped, late>>
  BY Zenon
     DEF Calls!DecideApplication, Calls!xswd, Calls!adapter, Calls!references, Calls!history
<1>2. CASE Calls!Refused(s)
  <2>1. session' \in [Session -> SessionRecord] /\ Ebbs
    BY <1>2, RefusedEbbs, Zenon DEF StopInv
  <2>2. Calm /\ \A t \in Session : Referenced(t)'
    BY <1>1, <2>1, EbbsReferenced, Zenon
  <2>. QED BY <1>1, <2>1, <2>2, CallsQuietStep, Zenon DEF StopInv, ServiceType
<1>3. CASE session' = [session EXCEPT ![s].state = "live"]
  <2>. DEFINE new == [session[s] EXCEPT !.state = "live"]
  <2>1. new \in SessionRecord /\ new.state = "live" /\ new.is_relayer = session[s].is_relayer
    BY Zenon DEF StopInv, ServiceType, SessionRecord
  <2>2. /\ session' = [session EXCEPT ![s] = new] /\ session[s].state = "admitting"
        /\ s \notin requests
    BY <1>3, Zenon DEF Calls!DecideApplication
  <2>. HIDE DEF new
  <2>3. /\ session' \in [Session -> SessionRecord] /\ session'[s] = new
        /\ \A t \in Session \ {s} : session'[t] = session[t]
    BY <2>1, <2>2, Zenon DEF StopInv, ServiceType
  <2>4. Calm
    BY <1>1, <2>1, <2>2, <2>3, Zenon DEF Calm, Calls!Connected, Calls!Referable
  <2>5. ASSUME NEW t \in Session PROVE Referenced(t)'
    <3>1. Referenced(t)
      BY Zenon DEF StopInv
    <3>. QED BY <1>1, <2>1, <2>2, <2>3, <3>1 DEF Referenced, Calls!Referable
  <2>. QED BY <1>1, <2>3, <2>4, <2>5, CallsQuietStep, Zenon DEF StopInv, ServiceType
<1>. QED BY <1>2, <1>3, Zenon DEF Calls!DecideApplication

-----------------------------------------------------------------------------
(* The steps of the dispatcher, and the list of applications               *)

\* The request that waited has a reference, or is refused.
LEMMA RegisterStep ==
  ASSUME StopInv, CallsTypeOK', NEW s \in Session, Calls!Register(s)
  PROVE  StopInv'
<1>1. /\ s \in requests /\ requests' = requests \ {s} /\ handler
      /\ UNCHANGED <<server, relayer, handler, call, lifecycle, ops, stopped, late>>
  BY Zenon DEF Calls!Register, Calls!xswd, Calls!adapter, Calls!history
<1>2. Referenced(s) /\ \A t \in Session : Referenced(t)
  BY Zenon DEF StopInv
<1>3. CASE registry[s] # "inactive" /\ Calls!Project({s}) /\ UNCHANGED session
  <2>1. /\ registry' \in [Session -> {"none", "active", "inactive"}]
        /\ registry'[s] = "active"
        /\ \A t \in Session \ {s} : registry'[t] = registry[t]
    BY <1>3, Zenon DEF StopInv, ServiceType, Calls!Project
  <2>2. Calls!Referable(s)
    BY <1>1, <1>3, Zenon DEF StopInv, ServiceType, Calls!Referable
  <2>3. Calm
    BY <1>1, <1>3, <2>1, <2>2, Zenon DEF Calm, Calls!Connected, Calls!Referable
  <2>4. ASSUME NEW t \in Session PROVE Referenced(t)'
    BY <1>1, <1>2, <1>3, <2>1, Zenon DEF Referenced, Calls!Referable
  <2>. QED BY <1>1, <1>3, <2>1, <2>3, <2>4, CallsQuietStep, Zenon DEF StopInv, ServiceType
<1>4. CASE registry[s] = "inactive" /\ Calls!Refused(s) /\ UNCHANGED registry
  <2>1. /\ session' \in [Session -> SessionRecord] /\ Ebbs
        /\ session'[s].state # "admitting"
        /\ \A t \in Session \ {s} : session'[t] = session[t]
    BY <1>4, RefusedEbbs, Zenon DEF StopInv
  <2>2. Calm
    <3>1. \A t \in Session : Calls!Referable(t)' => Calls!Referable(t)
      BY <1>1, <1>4, Zenon DEF Calls!Referable
    <3>. QED BY <2>1, <3>1, EbbsCalm, Zenon
  <2>3. ASSUME NEW t \in Session PROVE Referenced(t)'
    <3>1. CASE t = s
      BY <1>1, <1>2, <1>4, <2>1, <3>1, Zenon DEF Referenced, Ebbs
    <3>2. CASE t # s
      BY <1>1, <1>2, <1>4, <2>1, <3>2, Zenon DEF Referenced, Calls!Referable
    <3>. QED BY <3>1, <3>2
  <2>. QED BY <1>1, <1>4, <2>1, <2>2, <2>3, CallsQuietStep, Zenon DEF StopInv, ServiceType
<1>. QED BY <1>3, <1>4, Zenon DEF Calls!Register

LEMMA RefuseAdmissionStep ==
  ASSUME StopInv, CallsTypeOK', NEW s \in Session, Calls!RefuseAdmission(s)
  PROVE  StopInv'
<1>1. /\ requests' = requests \ {s} /\ Calls!Refused(s)
      /\ UNCHANGED <<server, relayer, handler, call, lifecycle, ops, stopped, late>>
      /\ \/ s \in requests /\ UNCHANGED registry
         \/ /\ s \notin requests /\ session[s].state = "admitting"
            /\ registry' = [registry EXCEPT ![s] = "inactive"]
  BY Zenon DEF Calls!RefuseAdmission, Calls!xswd, Calls!adapter, Calls!history
<1>2. \A t \in Session : Referenced(t)
  BY Zenon DEF StopInv
<1>3. /\ session' \in [Session -> SessionRecord] /\ Ebbs
      /\ session'[s].state # "admitting"
      /\ \A t \in Session \ {s} : session'[t] = session[t]
  BY <1>1, RefusedEbbs, Zenon DEF StopInv
<1>4. /\ registry' \in [Session -> {"none", "active", "inactive"}]
      /\ \A t \in Session \ {s} : registry'[t] = registry[t]
      /\ registry'[s] = registry[s] \/ (registry'[s] = "inactive" /\ session[s].state = "admitting")
  BY <1>1, Zenon DEF StopInv, ServiceType
<1>5. Calm
  <2>1. \A t \in Session : Calls!Referable(t)' => Calls!Referable(t)
    BY <1>1, <1>4, Zenon DEF Calls!Referable
  <2>. QED BY <1>3, <2>1, EbbsCalm, Zenon
<1>6. ASSUME NEW t \in Session PROVE Referenced(t)'
  <2>1. CASE t = s
    BY <1>1, <1>2, <1>3, <1>4, <2>1, Zenon DEF Referenced, Ebbs
  <2>2. CASE t # s
    BY <1>1, <1>2, <1>3, <1>4, <2>2, Zenon DEF Referenced, Calls!Referable
  <2>. QED BY <2>1, <2>2
<1>. QED BY <1>1, <1>3, <1>4, <1>5, <1>6, CallsQuietStep, Zenon

LEMMA InvalidateStep ==
  ASSUME StopInv, CallsTypeOK', NEW s \in Session, Calls!Invalidate(s)
  PROVE  StopInv'
<1>1. /\ session[s].state = "gone" /\ requests' = requests \ {s}
      /\ UNCHANGED <<server, relayer, handler, session, call, lifecycle, ops, stopped, late>>
      /\ registry' = [registry EXCEPT ![s] = "inactive"]
  BY Zenon DEF Calls!Invalidate, Calls!xswd, Calls!adapter, Calls!history
<1>2. \A t \in Session : Referenced(t)
  BY Zenon DEF StopInv
<1>3. /\ registry' \in [Session -> {"none", "active", "inactive"}]
      /\ registry'[s] = "inactive"
      /\ \A t \in Session \ {s} : registry'[t] = registry[t]
  BY <1>1, Zenon DEF StopInv, ServiceType
<1>4. Calm
  BY <1>1, <1>3, Zenon DEF Calm, Calls!Connected, Calls!Referable
<1>5. ASSUME NEW t \in Session PROVE Referenced(t)'
  BY <1>1, <1>2, <1>3, Zenon DEF Referenced, Calls!Referable
<1>. QED BY <1>1, <1>3, <1>4, <1>5, CallsQuietStep, Zenon DEF StopInv, ServiceType

\* Every reference goes with the handler.
LEMMA HandlerEndsStep ==
  ASSUME StopInv, CallsTypeOK', Calls!HandlerEnds
  PROVE  StopInv'
<1>1. /\ ~server /\ ~relayer /\ \A s \in Session : ~Calls!Connected(s)
      /\ handler' = FALSE /\ requests' = {}
      /\ registry' = [s \in Session |->
           IF session[s].state = "new" THEN registry[s] ELSE "inactive"]
      /\ UNCHANGED <<server, relayer, session, call, lifecycle, ops, stopped, late>>
  BY Zenon DEF Calls!HandlerEnds, Calls!adapter, Calls!history
<1>2. \A s \in Session : ~Calls!Connected(s)'
  BY <1>1, Zenon DEF Calls!Connected
<1>3. ASSUME NEW s \in Session
      PROVE  /\ registry'[s] \in {"none", "inactive"}
             /\ session[s].state = "new" => registry'[s] = "none"
  <2>1. Referenced(s)
    BY Zenon DEF StopInv
  <2>. QED BY <1>1, <2>1, Zenon DEF Referenced
<1>4. ServiceType'
  <2>1. registry' \in [Session -> {"none", "active", "inactive"}]
    BY <1>1, <1>3, Zenon
  <2>. QED BY <1>1, <2>1, Zenon DEF StopInv, ServiceType
<1>5. Excluded'
  BY <1>1, Zenon DEF StopInv, Excluded, Starts, Admits
<1>6. Served'
  BY <1>1, <1>2, Zenon DEF Served
<1>7. ASSUME NEW s \in Session PROVE Referenced(s)' /\ ~Calls!Referable(s)'
  BY <1>1, <1>2, <1>3, Zenon DEF Referenced, Calls!Referable, Calls!Connected
<1>8. AtRest'
  BY <1>1, <1>2, <1>7, Zenon DEF StopInv, AtRest, Starts
<1>. QED BY <1>4, <1>5, <1>6, <1>7, <1>8, Zenon DEF StopInv

\* A list gives references to connected sessions only.
LEMMA ListStep ==
  ASSUME StopInv, CallsTypeOK', NEW b \in BOOLEAN, Calls!List(b)
  PROVE  StopInv'
<1>1. /\ server \/ relayer
      /\ Calls!Project(Calls!Of(b))
      /\ UNCHANGED <<server, relayer, handler, session, requests, call, lifecycle, ops,
                     stopped, late>>
  BY Zenon DEF Calls!List, Calls!xswd, Calls!adapter, Calls!history
<1>2. \A s \in Calls!Of(b) : Calls!Connected(s)
  BY Zenon DEF Calls!Of
<1>3. /\ registry' \in [Session -> {"none", "active", "inactive"}]
      /\ \A s \in Session : \/ registry'[s] = registry[s]
                            \/ /\ registry[s] = "none" /\ registry'[s] = "active"
                               /\ Calls!Connected(s)
  BY <1>1, <1>2, Zenon DEF StopInv, ServiceType, Calls!Project
<1>4. handler /\ ~stopped
  BY <1>1, Zenon DEF StopInv, Served, AtRest
<1>5. ASSUME NEW s \in Session PROVE Referenced(s)'
  <2>1. Referenced(s)
    BY Zenon DEF StopInv
  <2>. QED BY <1>1, <1>3, <1>4, <2>1 DEF Referenced, Calls!Referable, Calls!Connected
<1>6. ServiceType' /\ Excluded' /\ Served'
  <2>1. ServiceType'
    BY <1>1, <1>3, Zenon DEF StopInv, ServiceType
  <2>2. Excluded'
    BY <1>1, Zenon DEF StopInv, Excluded, Starts, Admits
  <2>3. Served'
    BY <1>1, Zenon DEF StopInv, Served, Calls!Connected, Stopping
  <2>. QED BY <2>1, <2>2, <2>3
<1>. QED BY <1>1, <1>4, <1>5, <1>6, Zenon DEF StopInv, AtRest

-----------------------------------------------------------------------------
(* The steps of start and stop                                             *)

LEMMA BeginLifecycleStep ==
  ASSUME StopInv, CallsTypeOK', NEW c \in Call, NEW op \in {"start", "stop"},
         Calls!BeginLifecycle(c, op)
  PROVE  StopInv'
<1>1. /\ ~lifecycle /\ ops = {} /\ lifecycle' = TRUE /\ stopped' = FALSE
      /\ UNCHANGED <<server, relayer, handler, session, registry, requests, ops>>
  BY Zenon DEF Calls!BeginLifecycle, Calls!MayRunLifecycle, Calls!xswd, Calls!references
<1>2. Becomes(c, op, "begun", NoSession) /\ call[c].op = "none"
  <2>. DEFINE new == [op |-> op, pc |-> "begun", target |-> NoSession]
  <2>1. new.op = op /\ new.pc = "begun" /\ new.target = NoSession /\ Calls!Idle.op = "none"
    BY Zenon DEF Calls!Idle
  <2>2. call[c] = Calls!Idle /\ call' = [call EXCEPT ![c] = new]
    BY Zenon DEF Calls!BeginLifecycle
  <2>. HIDE DEF new
  <2>. QED BY <2>1, <2>2, Zenon DEF StopInv, CallsTypeOK, Becomes
<1>3. ServiceType'
  BY <1>1, Zenon DEF StopInv, ServiceType
<1>4. \A d \in Call : ~Starts(d) /\ ~Admits(d)
  BY <1>1, Zenon DEF StopInv, Excluded
<1>5. Excluded'
  BY <1>1, <1>2, <1>4, Zenon DEF Becomes, Excluded, Starts, Admits
<1>6. \A at : "begun" \notin at => ~Stopping(at)' /\ ~Stopping(at)
  BY <1>2, <1>4, Zenon DEF Becomes, Stopping, Starts
<1>7. Served'
  BY <1>1, <1>6, Zenon DEF StopInv, Served, Calls!Connected
<1>8. AtRest'
  BY <1>1, Zenon DEF AtRest
<1>9. \A s \in Session : Referenced(s)'
  BY <1>1, Zenon DEF StopInv, Referenced, Calls!Referable
<1>. QED BY <1>3, <1>5, <1>7, <1>8, <1>9, Zenon DEF StopInv

\* A call that runs alone because it is start or stop.
LEMMA Alone ==
  ASSUME StopInv, NEW c \in Call, Starts(c)
  PROVE  /\ lifecycle /\ ops = {}
         /\ \A d \in Call : ~Admits(d) /\ (Starts(d) => d = c)
BY Zenon DEF StopInv, Excluded

LEMMA StartXswdStep ==
  ASSUME StopInv, CallsTypeOK', NEW c \in Call, Calls!StartXswd(c)
  PROVE  StopInv'
<1>1. /\ Starts(c) /\ ~lifecycle' /\ lifecycle' \in BOOLEAN
      /\ UNCHANGED <<relayer, session, registry, requests, ops, stopped, late>>
  BY Zenon DEF Calls!StartXswd, Calls!At, Calls!references, Calls!history, Starts
<1>2. \/ server' = TRUE /\ handler' = TRUE
      \/ UNCHANGED <<server, handler>>
  BY Zenon DEF Calls!StartXswd
<1>3. Becomes(c, "none", "idle", NoSession) /\ call[c].op = "start"
  BY ReturnBecomes, Zenon DEF StopInv, Calls!StartXswd, Calls!At
<1>4. \A d \in Call : ~Admits(d) /\ (Starts(d) => d = c)
  BY <1>1, Alone, Zenon
<1>5. ServiceType'
  BY <1>1, <1>2, Zenon DEF StopInv, ServiceType
<1>6. Excluded'
  BY <1>3, <1>4, Zenon DEF Becomes, Excluded, Starts, Admits
<1>7. \A at : ~Stopping(at)' /\ ~Stopping(at)
  BY <1>3, <1>4, Zenon DEF Becomes, Stopping, Starts
<1>8. (server => server') /\ (handler => handler') /\ (server' => server \/ handler')
  <2>1. CASE server' = TRUE /\ handler' = TRUE
    BY <2>1, Zenon
  <2>2. CASE UNCHANGED <<server, handler>>
    BY <2>2, Zenon
  <2>. QED BY <1>2, <2>1, <2>2
<1>9. Served'
  BY <1>1, <1>7, <1>8, Zenon DEF StopInv, Served, Calls!Connected
<1>10. AtRest'
  BY <1>1, Zenon DEF StopInv, AtRest
<1>11. \A s \in Session : Referenced(s)'
  BY <1>1, <1>8, Zenon DEF StopInv, Referenced, Calls!Referable
<1>. QED BY <1>5, <1>6, <1>9, <1>10, <1>11, Zenon DEF StopInv

\* A stop moves on: it is the only call of its kind before and after.
LEMMA StopMoves ==
  ASSUME StopInv, NEW c \in Call, call[c].op = "stop", NEW to,
         Becomes(c, "stop", to, call[c].target), UNCHANGED <<lifecycle, ops, stopped>>
  PROVE  /\ Excluded'
         /\ \A at : Stopping(at) <=> call[c].pc \in at
         /\ \A at : Stopping(at)' <=> to \in at
         /\ ~stopped /\ ~stopped'
<1>1. /\ lifecycle /\ ops = {}
      /\ \A d \in Call : ~Admits(d) /\ (Starts(d) => d = c)
  BY Alone, Zenon DEF Starts
<1>2. Excluded'
  BY <1>1, Zenon DEF Becomes, Excluded, Starts, Admits
<1>3. \A at : (Stopping(at) <=> call[c].pc \in at) /\ (Stopping(at)' <=> to \in at)
  BY <1>1, Zenon DEF Becomes, Stopping, Starts
<1>4. ~stopped
  BY Zenon DEF StopInv, AtRest, Starts
<1>. QED BY <1>2, <1>3, <1>4, Zenon

LEMMA StopServerStep ==
  ASSUME StopInv, CallsTypeOK', NEW c \in Call, Calls!StopServer(c)
  PROVE  StopInv'
<1>1. /\ call[c].op = "stop" /\ call[c].pc = "begun"
      /\ server' = FALSE /\ UNCHANGED <<relayer, handler, session, registry, requests, lifecycle,
                                        ops, stopped>>
  BY Zenon DEF Calls!StopServer, Calls!At, Calls!adapter, Calls!references, Calls!history
<1>2. Becomes(c, "stop", "serverTaken", call[c].target)
  BY <1>1, GotoBecomes, Zenon DEF StopInv, Calls!StopServer
<1>3. ServiceType'
  BY <1>1, Zenon DEF StopInv, ServiceType
<1>4. /\ Excluded' /\ ~stopped'
      /\ Stopping({"serverTaken"})' /\ ~Stopping({"relayerTaken"})
      /\ ~Stopping({"relayerTaken", "relayerClosed"})'
  <2>1. /\ Excluded' /\ ~stopped'
        /\ \A at : Stopping(at) <=> "begun" \in at
        /\ \A at : Stopping(at)' <=> "serverTaken" \in at
    BY <1>1, <1>2, StopMoves, Zenon
  <2>. QED BY <2>1
<1>5. Served'
  BY <1>1, <1>4, Zenon DEF StopInv, Served, Calls!Connected
<1>6. \A s \in Session : Referenced(s)'
  BY <1>1, Zenon DEF StopInv, Referenced, Calls!Referable
<1>. QED BY <1>3, <1>4, <1>5, <1>6, Zenon DEF StopInv, AtRest

LEMMA StopServerEndsStep ==
  ASSUME StopInv, CallsTypeOK', NEW c \in Call, Calls!StopServerEnds(c)
  PROVE  StopInv'
<1>1. /\ call[c].op = "stop" /\ call[c].pc = "serverTaken"
      /\ UNCHANGED <<server, relayer, handler, registry, requests, lifecycle, ops, stopped>>
      /\ Calls!Disconnected(Calls!Of(FALSE))
  BY Zenon
     DEF Calls!StopServerEnds, Calls!At, Calls!adapter, Calls!xswd, Calls!references, Calls!history
<1>2. Becomes(c, "stop", "serverStopped", call[c].target)
  BY <1>1, GotoBecomes, Zenon DEF StopInv, Calls!StopServerEnds
<1>3. /\ ServiceType' /\ Calm /\ \A s \in Session : Referenced(s)'
      /\ \A s \in Session : Calls!Connected(s)' => session[s].is_relayer
  <2>1. \A s \in Session : Calls!Connected(s) => s \in Calls!Of(FALSE) \/ session[s].is_relayer
    BY Zenon DEF Calls!Of, StopInv, ServiceType, SessionRecord
  <2>2. /\ session' \in [Session -> SessionRecord] /\ Ebbs
        /\ \A s \in Session \cap Calls!Of(FALSE) : ~Calls!Connected(s)'
    BY <1>1, DisconnectedEbbs, Zenon DEF StopInv
  <2>3. Calm /\ \A s \in Session : Referenced(s)'
    BY <1>1, <2>2, EbbsReferenced, Zenon
  <2>. QED BY <1>1, <2>1, <2>2, <2>3, Zenon DEF StopInv, ServiceType, Calm
<1>4. /\ Excluded' /\ ~stopped'
      /\ Stopping({"serverTaken", "serverStopped", "relayerTaken", "relayerClosed"})
      /\ ~Stopping({"relayerTaken"}) /\ ~Stopping({"relayerTaken", "relayerClosed"})'
  <2>1. /\ Excluded' /\ ~stopped'
        /\ \A at : Stopping(at) <=> "serverTaken" \in at
        /\ \A at : Stopping(at)' <=> "serverStopped" \in at
    BY <1>1, <1>2, StopMoves, Zenon
  <2>. QED BY <2>1
<1>5. Served'
  BY <1>1, <1>3, <1>4, Zenon DEF StopInv, Served, Calm
<1>. QED BY <1>3, <1>4, <1>5, Zenon DEF StopInv, AtRest

LEMMA StopRelayerStep ==
  ASSUME StopInv, CallsTypeOK', NEW c \in Call, Calls!StopRelayer(c)
  PROVE  StopInv'
<1>1. /\ call[c].op = "stop" /\ call[c].pc = "serverStopped"
      /\ relayer' = FALSE /\ UNCHANGED <<server, handler, session, registry, requests, lifecycle,
                                        ops, stopped>>
  BY Zenon DEF Calls!StopRelayer, Calls!At, Calls!adapter, Calls!references, Calls!history
<1>2. Becomes(c, "stop", "relayerTaken", call[c].target)
  BY <1>1, GotoBecomes, Zenon DEF StopInv, Calls!StopRelayer
<1>3. ServiceType'
  BY <1>1, Zenon DEF StopInv, ServiceType
<1>4. /\ Excluded' /\ ~stopped'
      /\ Stopping({"serverTaken", "serverStopped", "relayerTaken", "relayerClosed"})
      /\ Stopping({"relayerTaken"})' /\ ~Stopping({"serverTaken"})
  <2>1. /\ Excluded' /\ ~stopped'
        /\ \A at : Stopping(at) <=> "serverStopped" \in at
        /\ \A at : Stopping(at)' <=> "relayerTaken" \in at
    BY <1>1, <1>2, StopMoves, Zenon
  <2>. QED BY <2>1
<1>5. Served'
  BY <1>1, <1>4, Zenon DEF StopInv, Served, Calls!Connected
<1>6. \A s \in Session : Referenced(s)'
  BY <1>1, Zenon DEF StopInv, Referenced, Calls!Referable
<1>. QED BY <1>3, <1>4, <1>5, <1>6, Zenon DEF StopInv, AtRest

\* After that nothing is connected.
LEMMA StopRelayerEndsStep ==
  ASSUME StopInv, CallsTypeOK', NEW c \in Call, Calls!StopRelayerEnds(c)
  PROVE  StopInv'
<1>1. /\ call[c].op = "stop" /\ call[c].pc = "relayerTaken"
      /\ UNCHANGED <<server, relayer, handler, registry, requests, lifecycle, ops, stopped>>
      /\ Calls!Disconnected(Calls!Of(TRUE))
  BY Zenon
     DEF Calls!StopRelayerEnds, Calls!At, Calls!adapter, Calls!xswd, Calls!references, Calls!history
<1>2. Becomes(c, "stop", "relayerClosed", call[c].target)
  BY <1>1, GotoBecomes, Zenon DEF StopInv, Calls!StopRelayerEnds
<1>3. /\ ServiceType' /\ Calm /\ \A s \in Session : Referenced(s)'
      /\ \A s \in Session : Calls!Connected(s)' => Calls!Connected(s) /\ ~session[s].is_relayer
  <2>1. \A s \in Session : Calls!Connected(s) => s \in Calls!Of(TRUE) \/ ~session[s].is_relayer
    BY Zenon DEF Calls!Of, StopInv, ServiceType, SessionRecord
  <2>2. /\ session' \in [Session -> SessionRecord] /\ Ebbs
        /\ \A s \in Session \cap Calls!Of(TRUE) : ~Calls!Connected(s)'
    BY <1>1, DisconnectedEbbs, Zenon DEF StopInv
  <2>3. Calm /\ \A s \in Session : Referenced(s)'
    BY <1>1, <2>2, EbbsReferenced, Zenon
  <2>. QED BY <1>1, <2>1, <2>2, <2>3, Zenon DEF StopInv, ServiceType, Calm
<1>4. /\ Excluded' /\ ~stopped'
      /\ Stopping({"serverTaken", "serverStopped", "relayerTaken", "relayerClosed"})
      /\ Stopping({"relayerTaken", "relayerClosed"}) /\ ~Stopping({"serverTaken"})
  <2>1. /\ Excluded' /\ ~stopped'
        /\ \A at : Stopping(at) <=> "relayerTaken" \in at
        /\ \A at : Stopping(at)' <=> "relayerClosed" \in at
    BY <1>1, <1>2, StopMoves, Zenon
  <2>. QED BY <2>1
<1>5. Served'
  BY <1>1, <1>3, <1>4, Zenon DEF StopInv, Served, Calm
<1>. QED BY <1>3, <1>4, <1>5, Zenon DEF StopInv, AtRest

LEMMA StopClearsStep ==
  ASSUME StopInv, CallsTypeOK', NEW c \in Call, Calls!StopClears(c)
  PROVE  StopInv'
<1>1. /\ call[c].op = "stop" /\ call[c].pc = "relayerClosed" /\ Starts(c)
      /\ lifecycle' = FALSE /\ stopped' = TRUE
      /\ late' = {s \in requests : registry[s] = "none"}
      /\ UNCHANGED <<server, relayer, handler, session, requests, ops>>
      /\ registry' = [s \in Session |-> IF registry[s] = "none" THEN "none" ELSE "inactive"]
  BY Zenon DEF Calls!StopClears, Calls!At, Calls!xswd, Starts
<1>2. Becomes(c, "none", "idle", NoSession)
  BY ReturnBecomes, Zenon DEF StopInv, Calls!StopClears
<1>3. \A d \in Call : ~Admits(d) /\ (Starts(d) => d = c)
  BY <1>1, Alone, Zenon
<1>4. ServiceType'
  BY <1>1, Zenon DEF StopInv, ServiceType
<1>5. Excluded'
  BY <1>2, <1>3, Zenon DEF Becomes, Excluded, Starts, Admits
<1>6. /\ Stopping({"serverTaken", "serverStopped", "relayerTaken", "relayerClosed"})
      /\ Stopping({"relayerTaken", "relayerClosed"})
      /\ ~Stopping({"serverTaken"}) /\ ~Stopping({"relayerTaken"})
  BY <1>1, <1>3, Zenon DEF Stopping, Starts
<1>7. /\ ~server /\ ~relayer /\ \A s \in Session : ~Calls!Connected(s)
  BY <1>6, Zenon DEF StopInv, Served, ServiceType
<1>8. \A s \in Session :
        /\ ~Calls!Connected(s)' /\ registry'[s] # "active"
        /\ Calls!Referable(s)' => s \in late'
  BY <1>1, <1>7, Zenon DEF Calls!Connected, Calls!Referable
<1>9. Served'
  BY <1>1, <1>7, <1>8, Zenon DEF Served
<1>10. AtRest'
  BY <1>1, <1>2, <1>3, <1>7, <1>8, Zenon DEF Becomes, AtRest, Starts, Admits
<1>11. ASSUME NEW s \in Session PROVE Referenced(s)'
  <2>1. Referenced(s)
    BY Zenon DEF StopInv
  <2>. QED BY <1>1, <1>7, <1>8, <2>1, Zenon DEF Referenced, Calls!Connected
<1>. QED BY <1>4, <1>5, <1>9, <1>10, <1>11, Zenon DEF StopInv

-----------------------------------------------------------------------------
(* The steps of the calls for one application                              *)

LEMMA BeginApplicationStep ==
  ASSUME StopInv, CallsTypeOK', NEW c \in Call, NEW op \in {"add", "close"},
         NEW s \in Session,
         Calls!BeginApplication(c, op, s)
  PROVE  StopInv'
<1>1. /\ ~lifecycle /\ AppId[s] \notin ops /\ ops' = ops \cup {AppId[s]}
      /\ stopped' = (stopped /\ op = "close") /\ (op = "close" => late' = late)
      /\ UNCHANGED <<server, relayer, handler, session, registry, requests, lifecycle>>
  BY Zenon DEF Calls!BeginApplication, Calls!MayRunApplication, Calls!xswd, Calls!references
<1>2. Becomes(c, op, "begun", s) /\ call[c].op = "none"
  <2>. DEFINE new == [op |-> op, pc |-> "begun", target |-> s]
  <2>1. new.op = op /\ new.pc = "begun" /\ new.target = s /\ Calls!Idle.op = "none"
    BY Zenon DEF Calls!Idle
  <2>2. call[c] = Calls!Idle /\ call' = [call EXCEPT ![c] = new]
    BY Zenon DEF Calls!BeginApplication
  <2>. HIDE DEF new
  <2>. QED BY <2>1, <2>2, Zenon DEF StopInv, CallsTypeOK, Becomes
<1>3. stopped' \in BOOLEAN /\ (stopped' => stopped /\ op = "close")
  BY <1>1, Zenon
<1>4. ServiceType'
  BY <1>1, <1>3, Zenon DEF StopInv, ServiceType
<1>5. \A d \in Call : ~Starts(d)
  BY <1>1, Zenon DEF StopInv, Excluded
<1>6. Excluded'
  BY <1>1, <1>2, <1>5, SMTT(30) DEF StopInv, Becomes, Excluded, Starts, Admits
<1>7. \A at : ~Stopping(at)' /\ ~Stopping(at)
  BY <1>2, <1>5, Zenon DEF Becomes, Stopping, Starts
<1>8. Served'
  BY <1>1, <1>7, Zenon DEF StopInv, Served, Calls!Connected
<1>9. AtRest'
  BY <1>1, <1>2, <1>3, Zenon
     DEF StopInv, Becomes, AtRest, Calls!Connected, Calls!Referable, Starts
<1>10. \A t \in Session : Referenced(t)'
  BY <1>1, Zenon DEF StopInv, Referenced, Calls!Referable
<1>. QED BY <1>4, <1>6, <1>8, <1>9, <1>10, Zenon DEF StopInv

\* A call for an application returns, or goes on: start and stop wait for it.
LEMMA AdmitMoves ==
  ASSUME StopInv, NEW c \in Call, Admits(c), UNCHANGED <<lifecycle, stopped>>,
         \/ Calls!EndApplication(c)
         \/ UNCHANGED ops /\ \E to : Calls!Goto(c, to)
  PROVE  /\ Excluded'
         /\ \A at : ~Stopping(at) /\ ~Stopping(at)'
         /\ \A d \in Call : ~Starts(d)' /\ (call'[d].op = "add" => call[d].op = "add")
<1>1. /\ ~lifecycle /\ \A d \in Call : ~Starts(d)
  BY Zenon DEF StopInv, Excluded
<1>2. CASE Calls!EndApplication(c)
  <2>1. Becomes(c, "none", "idle", NoSession) /\ ops' = ops \ {AppId[call[c].target]}
    BY <1>2, ReturnBecomes, Zenon DEF StopInv, Calls!EndApplication
  <2>2. Excluded'
    BY <1>1, <2>1, Zenon DEF StopInv, Becomes, Excluded, Starts, Admits
  <2>. QED BY <1>1, <2>1, <2>2, Zenon DEF Becomes, Stopping, Starts
<1>3. ASSUME UNCHANGED ops, NEW to, Calls!Goto(c, to)
      PROVE  /\ Excluded'
             /\ \A at : ~Stopping(at) /\ ~Stopping(at)'
             /\ \A d \in Call : ~Starts(d)' /\ (call'[d].op = "add" => call[d].op = "add")
  <2>1. Becomes(c, call[c].op, to, call[c].target)
    BY <1>3, GotoBecomes, Zenon DEF StopInv
  <2>2. Excluded'
    BY <1>1, <1>3, <2>1, SMTT(30) DEF StopInv, Becomes, Excluded, Starts, Admits
  <2>. QED BY <1>1, <2>1, <2>2, Zenon DEF Becomes, Stopping, Starts
<1>. QED BY <1>2, <1>3, Zenon

LEMMA AddRelayerInitStep ==
  ASSUME StopInv, CallsTypeOK', NEW c \in Call, Calls!AddRelayerInit(c)
  PROVE  StopInv'
<1>1. /\ call[c].op = "add" /\ Admits(c)
      /\ UNCHANGED <<server, session, registry, requests, lifecycle, stopped>>
  BY Zenon
     DEF Calls!AddRelayerInit, Calls!At, Admits, Calls!EndApplication, Calls!references,
         Calls!history
<1>2. Calls!EndApplication(c) \/ (UNCHANGED ops /\ \E to : Calls!Goto(c, to))
  BY Zenon DEF Calls!AddRelayerInit
<1>3. (relayer' = TRUE /\ handler' = TRUE) \/ UNCHANGED <<relayer, handler>>
  BY Zenon DEF Calls!AddRelayerInit
<1>4. /\ Excluded' /\ \A at : ~Stopping(at) /\ ~Stopping(at)'
  BY <1>1, <1>2, AdmitMoves, Zenon
<1>5. ServiceType' /\ ~stopped'
  BY <1>1, <1>3, Zenon DEF StopInv, ServiceType, AtRest
<1>6. (relayer => relayer') /\ (handler => handler') /\ (relayer' => relayer \/ handler')
  <2>1. CASE relayer' = TRUE /\ handler' = TRUE
    BY <2>1, Zenon
  <2>2. CASE UNCHANGED <<relayer, handler>>
    BY <2>2, Zenon
  <2>. QED BY <1>3, <2>1, <2>2
<1>7. Served'
  BY <1>1, <1>4, <1>6, Zenon DEF StopInv, Served, Calls!Connected
<1>8. \A s \in Session : Referenced(s)'
  BY <1>1, <1>6, Zenon DEF StopInv, Referenced, Calls!Referable
<1>. QED BY <1>4, <1>5, <1>7, <1>8, Zenon DEF StopInv, AtRest

LEMMA AddRelayerConnectsStep ==
  ASSUME StopInv, CallsTypeOK', NEW c \in Call, Calls!AddRelayerConnects(c)
  PROVE  StopInv'
<1>. DEFINE s == call[c].target
<1>1. /\ call[c].op = "add" /\ Admits(c) /\ s \in Session
      /\ UNCHANGED <<server, relayer, handler, registry, lifecycle, stopped>>
  BY Zenon
     DEF Calls!AddRelayerConnects, Calls!At, Admits, Calls!EndApplication, Calls!xswd,
         Calls!history, StopInv, Excluded
<1>2. Calls!EndApplication(c) \/ (UNCHANGED ops /\ \E to : Calls!Goto(c, to))
  BY Zenon DEF Calls!AddRelayerConnects
<1>3. (relayer /\ Calls!Connects(s, TRUE)) \/ UNCHANGED <<session, requests>>
  BY Zenon DEF Calls!AddRelayerConnects
<1>. HIDE DEF s
<1>4. /\ Excluded' /\ \A at : ~Stopping(at) /\ ~Stopping(at)'
  BY <1>1, <1>2, AdmitMoves, Zenon
<1>5. ~stopped'
  BY <1>1, Zenon DEF StopInv, AtRest
<1>6. CASE UNCHANGED <<session, requests>>
  <2>1. \A t \in Session : Referenced(t)'
    BY <1>1, <1>6, Zenon DEF StopInv, Referenced, Calls!Referable
  <2>. QED BY <1>1, <1>4, <1>5, <1>6, <2>1, Zenon
           DEF StopInv, ServiceType, Served, AtRest, Calls!Connected
<1>7. CASE relayer /\ Calls!Connects(s, TRUE)
  <2>1. /\ session' \in [Session -> SessionRecord] /\ session'[s].is_relayer = TRUE
        /\ \A t \in Session \ {s} : session'[t] = session[t]
        /\ \A t \in Session : Referenced(t)'
    BY <1>1, <1>7, ConnectsReferenced, Zenon
  <2>2. ServiceType'
    BY <1>1, <2>1, Zenon DEF StopInv, ServiceType
  <2>3. Served'
    BY <1>1, <1>4, <1>7, <2>1, Zenon DEF StopInv, Served, Calls!Connected
  <2>. QED BY <1>4, <1>5, <2>1, <2>2, <2>3, Zenon DEF StopInv, AtRest
<1>. QED BY <1>3, <1>6, <1>7, Zenon

\* A call for an application goes on or ends, and sessions at most end with it.
LEMMA AdmitEbbs ==
  ASSUME StopInv, CallsTypeOK', NEW c \in Call, Admits(c),
         session' \in [Session -> SessionRecord], Ebbs,
         UNCHANGED <<server, relayer, handler, registry, requests, lifecycle, stopped, late>>,
         \/ Calls!EndApplication(c)
         \/ UNCHANGED ops /\ \E to : Calls!Goto(c, to)
  PROVE  StopInv'
<1>1. Calm /\ \A s \in Session : Referenced(s)'
  BY EbbsReferenced, Zenon
<1>2. ServiceType'
  BY Zenon DEF StopInv, ServiceType
<1>3. /\ Excluded' /\ \A at : ~Stopping(at) /\ ~Stopping(at)'
      /\ \A d \in Call : ~Starts(d)' /\ (call'[d].op = "add" => call[d].op = "add")
  BY AdmitMoves, Zenon
<1>4. Served'
  BY <1>1, <1>3, Zenon DEF StopInv, Served, Calm
<1>5. AtRest'
  BY <1>1, <1>3, Zenon DEF StopInv, AtRest, Calm
<1>. QED BY <1>1, <1>2, <1>3, <1>4, <1>5, Zenon DEF StopInv

\* The application has its answer, or its session is looked for.
LEMMA WaitStep ==
  ASSUME StopInv, CallsTypeOK', NEW c \in Call,
         Calls!AddRelayerEnds(c) \/ Calls!CloseResolves(c) \/ Calls!CloseRelayed(c)
  PROVE  StopInv'
<1>1. /\ Admits(c)
      /\ UNCHANGED <<server, relayer, handler, session, registry, requests, lifecycle, stopped,
                     late>>
      /\ \/ Calls!EndApplication(c)
         \/ UNCHANGED ops /\ \E to : Calls!Goto(c, to)
  BY Zenon
     DEF Calls!AddRelayerEnds, Calls!CloseResolves, Calls!CloseRelayed, Calls!At, Admits,
         Calls!EndApplication, Calls!xswd, Calls!references, Calls!history
<1>2. session' \in [Session -> SessionRecord] /\ Ebbs
  BY <1>1, Zenon DEF StopInv, ServiceType, Ebbs
<1>. QED BY <1>1, <1>2, AdmitEbbs, Zenon

\* Its session is closed.
LEMMA CallsClosesStep ==
  ASSUME StopInv, CallsTypeOK', NEW c \in Call,
         Calls!CloseLocal(c) \/ Calls!CloseRelayedEnds(c)
  PROVE  StopInv'
<1>1. /\ Admits(c)
      /\ UNCHANGED <<server, relayer, handler, registry, requests, lifecycle, stopped, late>>
      /\ \/ Calls!EndApplication(c)
         \/ UNCHANGED ops /\ \E to : Calls!Goto(c, to)
  BY Zenon
     DEF Calls!CloseLocal, Calls!CloseRelayedEnds, Calls!At, Admits, Calls!EndApplication,
         Calls!xswd, Calls!references, Calls!history
<1>2. \/ UNCHANGED session
      \/ \E S : Calls!Disconnected(S)
      \/ \E S \in SUBSET Calls!Of(FALSE) :
           session' = [s \in Session |->
             IF s \in S THEN [session[s] EXCEPT !.state = "closing"] ELSE session[s]]
  BY Zenon DEF Calls!CloseLocal, Calls!CloseRelayedEnds, Calls!Found
<1>3. \A s \in Calls!Of(FALSE) : Calls!Connected(s)
  BY Zenon DEF Calls!Of
<1>4. session' \in [Session -> SessionRecord] /\ Ebbs
  <2>1. CASE UNCHANGED session
    BY <2>1, Zenon DEF StopInv, ServiceType, Ebbs
  <2>2. CASE \E S : Calls!Disconnected(S)
    BY <2>2, DisconnectedEbbs, Zenon DEF StopInv
  <2>3. ASSUME NEW S \in SUBSET Calls!Of(FALSE),
               session' = [s \in Session |->
                 IF s \in S THEN [session[s] EXCEPT !.state = "closing"] ELSE session[s]]
        PROVE  session' \in [Session -> SessionRecord] /\ Ebbs
    BY <1>3, <2>3, ClosingEbbs, Zenon DEF StopInv
  <2>. QED BY <1>2, <2>1, <2>2, <2>3, Zenon
<1>. QED BY <1>1, <1>4, AdmitEbbs, Zenon

-----------------------------------------------------------------------------
(* The steps of the other calls                                            *)

LEMMA ModifyCallsStep ==
  ASSUME StopInv, CallsTypeOK', NEW c \in Call,
         \/ \E s \in Session, u \in Update : Calls!BeginModify(c, s, u)
         \/ Calls!ModifyLocal(c) \/ Calls!ModifyRelayed(c)
  PROVE  StopInv'
<1>1. UNCHANGED <<server, relayer, handler, session, registry, requests, lifecycle, ops,
                  stopped, late>>
  BY Zenon DEF Calls!BeginModify, Calls!ModifyLocal, Calls!ModifyRelayed, Calls!xswd,
     Calls!adapter, Calls!references, Calls!history
<1>2. ASSUME NEW s \in Session, NEW u \in Update, Calls!BeginModify(c, s, u)
      PROVE  call[c].op = "none" /\ Becomes(c, "modify", "server", s)
  <2>. DEFINE new == [op |-> "modify", pc |-> "server", target |-> s, updates |-> u]
  <2>1. new.op = "modify" /\ new.pc = "server" /\ new.target = s /\ Calls!Idle.op = "none"
    BY Zenon DEF Calls!Idle
  <2>2. call[c] = Calls!Idle /\ call' = [call EXCEPT ![c] = new]
    BY <1>2, Zenon DEF Calls!BeginModify
  <2>. HIDE DEF new
  <2>. QED BY <2>1, <2>2, Zenon DEF StopInv, CallsTypeOK, Becomes
<1>3. ASSUME Calls!ModifyLocal(c) \/ Calls!ModifyRelayed(c)
      PROVE  /\ call[c].op = "modify"
             /\ \/ Becomes(c, "modify", "relayer", call[c].target)
                \/ Becomes(c, "none", "idle", NoSession)
  <2>1. call[c].op = "modify" /\ (Calls!Goto(c, "relayer") \/ Calls!Return(c))
    BY <1>3, Zenon DEF Calls!ModifyLocal, Calls!ModifyRelayed, Calls!Modifies, Calls!At
  <2>. QED BY <2>1, GotoBecomes, ReturnBecomes, Zenon DEF StopInv
<1>. QED BY <1>1, <1>2, <1>3, OtherStep

LEMMA DecisionStep ==
  ASSUME StopInv, CallsTypeOK',
         \/ UNCHANGED Calls!vars
         \/ \E s \in Session, o \in Calls!Outcome :
              \/ \E p \in Permission : Calls!DecidePermission(s, p, o)
              \/ \E asked \in SUBSET Permission : Calls!DecidePrefetch(s, asked, o)
  PROVE  StopInv'
<1>1. UNCHANGED <<call, server, relayer, handler, session, registry, requests, lifecycle, ops,
                  stopped, late>>
  BY Zenon DEF Calls!DecidePermission, Calls!DecidePrefetch, Calls!vars, Calls!xswd,
     Calls!adapter, Calls!references
<1>. QED BY <1>1, OtherStep, Zenon

LEMMA InitStopInv == Calls!Init => StopInv
<1>. SUFFICES ASSUME Calls!Init PROVE StopInv
  OBVIOUS
<1>1. CallsTypeOK
  BY IdleType, Zenon DEF Calls!Init, CallsTypeOK
<1>2. ServiceType /\ \A s \in Session : ~Calls!Connected(s)
  BY Zenon DEF Calls!Init, ServiceType, SessionRecord, Calls!Connected
<1>3. \A c \in Call : call[c].op = "none"
  BY IdleType, Zenon DEF Calls!Init
<1>4. Excluded
  BY <1>3, Zenon DEF Excluded, Starts, Admits
<1>5. Served
  BY <1>2, <1>3, Zenon DEF Calls!Init, Served, Stopping
<1>6. AtRest
  BY Zenon DEF Calls!Init, AtRest
<1>7. \A s \in Session : Referenced(s)
  BY Zenon DEF Calls!Init, Referenced
<1>. QED BY <1>1, <1>2, <1>4, <1>5, <1>6, <1>7, Zenon DEF StopInv

LEMMA NextStopInv == CallsIInv /\ StopInv /\ [Calls!Next]_(Calls!vars) => StopInv'
<1>. SUFFICES ASSUME CallsIInv, StopInv, [Calls!Next]_(Calls!vars) PROVE StopInv'
  OBVIOUS
<1>1. CallsTypeOK'
  BY CallTypes, Zenon
<1>2. CASE UNCHANGED Calls!vars
  BY <1>1, <1>2, DecisionStep, Zenon
<1>3. CASE Calls!Next
  <2>1. ASSUME NEW c \in Call,
               \/ Calls!BeginLifecycle(c, "start") \/ Calls!BeginLifecycle(c, "stop")
               \/ \E s \in Session :
                    Calls!BeginApplication(c, "add", s) \/ Calls!BeginApplication(c, "close", s)
        PROVE  StopInv'
    BY <1>1, <2>1, BeginLifecycleStep, BeginApplicationStep, Zenon
  <2>2. ASSUME NEW c \in Call,
               \/ Calls!StartXswd(c)
               \/ Calls!StopServer(c) \/ Calls!StopServerEnds(c) \/ Calls!StopRelayer(c)
               \/ Calls!StopRelayerEnds(c) \/ Calls!StopClears(c)
        PROVE  StopInv'
    BY <1>1, <2>2, StartXswdStep, StopServerStep, StopServerEndsStep, StopRelayerStep,
       StopRelayerEndsStep, StopClearsStep, Zenon
  <2>3. ASSUME NEW c \in Call,
               \/ Calls!AddRelayerInit(c) \/ Calls!AddRelayerConnects(c) \/ Calls!AddRelayerEnds(c)
               \/ Calls!CloseResolves(c) \/ Calls!CloseLocal(c)
               \/ Calls!CloseRelayed(c) \/ Calls!CloseRelayedEnds(c)
        PROVE  StopInv'
    BY <1>1, <2>3, AddRelayerInitStep, AddRelayerConnectsStep, WaitStep, CallsClosesStep,
       Zenon
  <2>4. ASSUME NEW s \in Session,
               \/ Calls!ConnectLocal(s) \/ Calls!PeerCloses(s)
               \/ \E o \in Calls!Outcome : Calls!DecideApplication(s, o)
        PROVE  StopInv'
    BY <1>1, <2>4, ConnectLocalStep, PeerClosesStep, DecideApplicationStep, Zenon
  <2>5. ASSUME \/ \E s \in Session : \/ Calls!Register(s) \/ Calls!RefuseAdmission(s)
                                      \/ Calls!Invalidate(s)
               \/ Calls!HandlerEnds \/ \E b \in BOOLEAN : Calls!List(b)
        PROVE  StopInv'
    BY <1>1, <2>5, RegisterStep, RefuseAdmissionStep, InvalidateStep, HandlerEndsStep, ListStep,
       Zenon
  <2>. QED BY <1>1, <1>3, <2>1, <2>2, <2>3, <2>4, <2>5, ModifyCallsStep, DecisionStep, Zenon
              DEF Calls!Next
<1>. QED BY <1>2, <1>3, Zenon

\* stop_xswd leaves nothing connected, whatever else was under way, and takes
\* authority from every reference but those of requests the dispatcher had not
\* reached, which lose it with their handler; outside a stop every connected
\* session has a handler, and one that was not refused a reference, or a request
\* that waits for one.
THEOREM StopIsComplete == Calls!Spec => []StopComplete
<1>1. StopInv => StopComplete
  <2>. SUFFICES ASSUME StopInv PROVE StopComplete
    OBVIOUS
  <2>1. \A s \in Session : Calls!Connected(s) => handler
    BY Zenon DEF StopInv, Served
  <2>2. \A s \in Session :
          /\ registry[s] = "active" => handler /\ Calls!Referable(s)
          /\ session[s].state \in {"admitting", "live"} => Calls!Referable(s)
    BY Zenon DEF StopInv, Referenced, Calls!Referable
  <2>. QED BY <2>1, <2>2, Zenon DEF StopInv, AtRest, StopComplete, Calls!StopComplete
<1>2. Calls!Init => CallsIInv /\ StopInv
  BY CallsInitIInv, InitStopInv, Zenon
<1>3. (CallsIInv /\ StopInv) /\ [Calls!Next]_(Calls!vars) => (CallsIInv /\ StopInv)'
  BY CallsNextIInv, NextStopInv, Zenon
<1>. QED BY <1>1, <1>2, <1>3, PTL DEF Calls!Spec

-----------------------------------------------------------------------------
(* XswdSessions                                                            *)

Native == {"new", "deciding", "accepted", "live", "gone"}
Capability == [known : BOOLEAN, active : BOOLEAN, admitted : BOOLEAN,
               pending : BOOLEAN, held : BOOLEAN]
ReadRecord == [pc : {"idle", "running", "answered", "listing", "listed"},
               overtaken : BOOLEAN, running : BOOLEAN, listed : SUBSET Session]

SessionsTypeOK ==
  /\ terminal \in BOOLEAN
  /\ running \in BOOLEAN
  /\ native \in [Session -> Native]
  /\ cap \in [Session -> Capability]
  /\ notice \subseteq Session
  /\ deciding \subseteq Session
  /\ ended \subseteq Session
  /\ read \in [Read -> ReadRecord]

\* What the native side and the capability of a session have to do with each
\* other.
Faithful(s) ==
  /\ s \in notice => native[s] = "gone"
  /\ s \in deciding => native[s] \in {"deciding", "gone"}
  /\ cap[s].active => cap[s].known
  /\ ~terminal =>
       /\ s \in ended => native[s] = "gone" /\ ~cap[s].active
       /\ cap[s].known /\ ~cap[s].active => native[s] = "gone"

\* What a read that lists a session may count on.
Listing(r, s) ==
  s \in read[r].listed =>
    /\ native[s] \in {"live", "gone"} /\ s \notin deciding
    /\ ~terminal /\ ~read[r].overtaken =>
         IF s \in ended THEN cap[s].known /\ ~cap[s].active
         ELSE cap[s].known => cap[s].active

SessionsIInv ==
  /\ SessionsTypeOK
  /\ \A s \in Session : Faithful(s)
  /\ \A r \in Read, s \in Session : Listing(r, s)

-----------------------------------------------------------------------------

LEMMA RecordTypes ==
  /\ Sessions!NoCap \in Capability /\ ~Sessions!NoCap.known /\ ~Sessions!NoCap.active
  /\ Sessions!FreshCap \in Capability /\ Sessions!FreshCap.known /\ Sessions!FreshCap.active
  /\ Sessions!NoRead \in ReadRecord /\ Sessions!NoRead.listed = {}
BY Zenon DEF Sessions!NoCap, Sessions!FreshCap, Capability, Sessions!NoRead, ReadRecord

LEMMA KnownType ==
  ASSUME SessionsTypeOK, NEW s \in Session
  PROVE  /\ Sessions!Known(s) \in Capability /\ Sessions!Known(s).known
         /\ cap[s].known => Sessions!Known(s) = cap[s]
         /\ ~cap[s].known => Sessions!Known(s).active
BY RecordTypes, Zenon DEF Sessions!Known, SessionsTypeOK

LEMMA InitIInv == Sessions!Init => SessionsIInv
<1>. SUFFICES ASSUME Sessions!Init PROVE SessionsIInv
  OBVIOUS
<1>1. SessionsTypeOK
  BY RecordTypes, Zenon DEF Sessions!Init, SessionsTypeOK, Native
<1>2. \A s \in Session : Faithful(s)
  BY RecordTypes, Zenon DEF Sessions!Init, Faithful
<1>3. \A r \in Read, s \in Session : Listing(r, s)
  BY RecordTypes, Zenon DEF Sessions!Init, Listing
<1>. QED BY <1>1, <1>2, <1>3, Zenon DEF SessionsIInv

\* After a change of the revision every read in progress is overtaken.
LEMMA OvertakeReads ==
  ASSUME SessionsTypeOK, Sessions!Overtake
  PROVE  /\ read' \in [Read -> ReadRecord]
         /\ \A r \in Read : /\ read'[r].listed \subseteq read[r].listed
                            /\ read'[r].overtaken \/ read'[r].listed = {}
<1>1. ASSUME NEW r \in Read
      PROVE  /\ read'[r] \in ReadRecord
             /\ read'[r].listed \subseteq read[r].listed
             /\ read'[r].overtaken \/ read'[r].listed = {}
  <2>1. read[r] \in ReadRecord
    BY Zenon DEF SessionsTypeOK
  <2>2. CASE read[r].pc = "idle"
    BY <2>2, RecordTypes, Zenon DEF Sessions!Overtake
  <2>3. CASE read[r].pc # "idle"
    <3>1. read'[r] = [read[r] EXCEPT !.overtaken = TRUE]
      BY <2>3, Zenon DEF Sessions!Overtake
    <3>. QED BY <2>1, <3>1, Zenon DEF ReadRecord
  <2>. QED BY <2>2, <2>3, Zenon
<1>2. read' = [r \in Read |-> read'[r]]
  BY Zenon DEF Sessions!Overtake
<1>. QED BY <1>1, <1>2, Zenon

\* A step about one session: the others, and what reads say of them, keep
\* everything.
LEMMA SessionStep ==
  ASSUME SessionsIInv, SessionsTypeOK', NEW s \in Session, UNCHANGED terminal,
         \A t \in Session \ {s} :
           /\ cap'[t] = cap[t] /\ native'[t] = native[t]
           /\ t \in notice' => t \in notice
           /\ t \in deciding' => t \in deciding
           /\ t \in ended' <=> t \in ended,
         \A r \in Read : /\ read'[r].listed \subseteq read[r].listed
                         /\ \/ read[r].overtaken => read'[r].overtaken
                            \/ read'[r].listed = {},
         Faithful(s)',
         \A r \in Read : Listing(r, s)'
  PROVE  SessionsIInv'
<1>1. ASSUME NEW t \in Session \ {s} PROVE Faithful(t)'
  BY <1>1, Zenon DEF SessionsIInv, Faithful
<1>2. ASSUME NEW r \in Read, NEW t \in Session \ {s} PROVE Listing(r, t)'
  BY <1>2, Zenon DEF SessionsIInv, Listing
<1>. QED BY <1>1, <1>2, Zenon DEF SessionsIInv

-----------------------------------------------------------------------------
(* The native side                                                         *)

LEMMA NativeStep ==
  ASSUME SessionsIInv, NEW s \in Session, Sessions!Insert(s) \/ Sessions!End(s)
  PROVE  SessionsIInv'
<1>1. /\ UNCHANGED <<terminal, cap, deciding, ended, read, running>>
      /\ notice' \subseteq notice \cup {s} /\ notice' \subseteq Session
      /\ native[s] \in Sessions!Serving
  BY Zenon DEF Sessions!Insert, Sessions!End, Sessions!service, Sessions!dart,
     Sessions!Serving, SessionsIInv, SessionsTypeOK
<1>2. /\ native' \in [Session -> Native]
      /\ \A t \in Session \ {s} : native'[t] = native[t]
      /\ \/ native[s] = "accepted" /\ native'[s] = "live" /\ UNCHANGED notice
         \/ native'[s] = "gone"
  BY Zenon DEF Sessions!Insert, Sessions!End, Sessions!service, SessionsIInv,
     SessionsTypeOK, Native
<1>3. SessionsTypeOK'
  BY <1>1, <1>2, Zenon DEF SessionsIInv, SessionsTypeOK
<1>4. Faithful(s)'
  BY <1>1, <1>2, Zenon DEF SessionsIInv, Faithful
<1>5. \A r \in Read : Listing(r, s)'
  BY <1>1, <1>2, Zenon DEF SessionsIInv, Listing
<1>. QED BY <1>1, <1>2, <1>3, <1>4, <1>5, SessionStep, Zenon

-----------------------------------------------------------------------------
(* Callbacks                                                               *)

LEMMA SessionsStartDecisionStep ==
  ASSUME SessionsIInv, NEW s \in Session, Sessions!StartDecision(s)
  PROVE  SessionsIInv'
<1>. DEFINE k == [Sessions!Known(s) EXCEPT !.pending = TRUE]
<1>1. /\ UNCHANGED <<terminal, running, notice, ended, read>>
      /\ deciding' = deciding \cup {s} /\ native[s] = "new"
      /\ native' = [native EXCEPT ![s] = "deciding"]
      /\ cap' = [cap EXCEPT ![s] = k]
  BY Zenon DEF Sessions!StartDecision, Sessions!service
<1>2. k \in Capability /\ k.known /\ k.active = Sessions!Known(s).active
  BY KnownType, Zenon DEF SessionsIInv, Capability
<1>. HIDE DEF k
<1>3. /\ SessionsTypeOK'
      /\ native'[s] = "deciding" /\ cap'[s] = k
      /\ \A t \in Session \ {s} : native'[t] = native[t] /\ cap'[t] = cap[t]
  BY <1>1, <1>2, Zenon DEF SessionsIInv, SessionsTypeOK, Native
<1>4. ~terminal => k.active
  BY <1>1, <1>2, KnownType, Zenon DEF SessionsIInv, Faithful
<1>5. Faithful(s)'
  BY <1>1, <1>2, <1>3, <1>4, Zenon DEF SessionsIInv, Faithful
<1>6. \A r \in Read : Listing(r, s)'
  BY <1>1, Zenon DEF SessionsIInv, Listing
<1>. QED BY <1>1, <1>3, <1>5, <1>6, SessionStep, Zenon

LEMMA CompleteDecisionStep ==
  ASSUME SessionsIInv, NEW s \in Session, NEW accepted \in BOOLEAN,
         Sessions!CompleteDecision(s, accepted)
  PROVE  SessionsIInv'
<1>1. /\ UNCHANGED <<terminal, running, notice>>
      /\ s \in deciding /\ deciding' = deciding \ {s}
      /\ ended' = IF accepted THEN ended ELSE ended \cup {s}
      /\ native[s] \in {"deciding", "gone"}
      /\ \A r \in Read : s \notin read[r].listed
  BY Zenon DEF Sessions!CompleteDecision, Sessions!service, SessionsIInv, Faithful, Listing
<1>2. /\ native' \in [Session -> Native]
      /\ \A t \in Session \ {s} : native'[t] = native[t]
      /\ native[s] = "gone" => native'[s] = "gone"
      /\ ~accepted => native'[s] = "gone"
  BY <1>1, Zenon DEF Sessions!CompleteDecision, SessionsIInv, SessionsTypeOK, Native
<1>3. /\ read' \in [Read -> ReadRecord]
      /\ \A r \in Read : /\ read'[r].listed \subseteq read[r].listed
                         /\ \/ read[r].overtaken => read'[r].overtaken
                            \/ read'[r].listed = {}
  BY OvertakeReads, Zenon DEF Sessions!CompleteDecision, SessionsIInv, SessionsTypeOK
<1>4. /\ cap' \in [Session -> Capability]
      /\ \A t \in Session \ {s} : cap'[t] = cap[t]
      /\ cap'[s].active => cap'[s].known
      /\ ~accepted => ~cap'[s].active
      /\ accepted => cap'[s].active = cap[s].active /\ cap'[s].known = cap[s].known
  <2>1. cap[s] \in Capability /\ (cap[s].active => cap[s].known)
    BY Zenon DEF SessionsIInv, SessionsTypeOK, Faithful
  <2>2. CASE UNCHANGED cap /\ (~cap[s].known \/ ~cap[s].active)
    BY <2>1, <2>2, Zenon DEF SessionsIInv, SessionsTypeOK
  <2>3. CASE accepted /\ cap' = [cap EXCEPT ![s].pending = TRUE]
    <3>. DEFINE k == [cap[s] EXCEPT !.pending = TRUE]
    <3>1. k \in Capability /\ k.active = cap[s].active /\ k.known = cap[s].known
      BY <2>1, Zenon DEF Capability
    <3>2. cap' = [cap EXCEPT ![s] = k]
      BY <2>3, Zenon
    <3>. HIDE DEF k
    <3>. QED BY <2>1, <2>3, <3>1, <3>2, Zenon DEF SessionsIInv, SessionsTypeOK
  <2>4. CASE ~accepted /\ cap' = [cap EXCEPT ![s] = Sessions!NoCap]
    BY <2>4, RecordTypes, Zenon DEF SessionsIInv, SessionsTypeOK
  <2>. QED BY <2>2, <2>3, <2>4, Zenon DEF Sessions!CompleteDecision
<1>5. SessionsTypeOK'
  BY <1>1, <1>2, <1>3, <1>4, Zenon DEF SessionsIInv, SessionsTypeOK
<1>6. Faithful(s)'
  BY <1>1, <1>2, <1>4, Zenon DEF SessionsIInv, Faithful
<1>7. \A r \in Read : Listing(r, s)'
  BY <1>1, <1>3, Zenon DEF Listing
<1>. QED BY <1>1, <1>2, <1>3, <1>4, <1>5, <1>6, <1>7, SessionStep, Zenon

LEMMA PermissionRequestStep ==
  ASSUME SessionsIInv, NEW s \in Session, Sessions!PermissionRequest(s)
  PROVE  SessionsIInv'
<1>1. /\ UNCHANGED <<terminal, running, notice, native, deciding, ended, read>>
      /\ native[s] = "live"
      /\ cap' = [cap EXCEPT ![s] = Sessions!Known(s)]
  BY Zenon DEF Sessions!PermissionRequest, Sessions!service
<1>2. /\ Sessions!Known(s) \in Capability /\ Sessions!Known(s).known
      /\ ~terminal => Sessions!Known(s).active
  BY <1>1, KnownType, Zenon DEF SessionsIInv, Faithful
<1>3. /\ SessionsTypeOK' /\ cap'[s] = Sessions!Known(s)
      /\ \A t \in Session \ {s} : cap'[t] = cap[t]
  BY <1>1, <1>2, Zenon DEF SessionsIInv, SessionsTypeOK
<1>4. Faithful(s)' /\ \A r \in Read : Listing(r, s)'
  BY <1>1, <1>2, <1>3, Zenon DEF SessionsIInv, Faithful, Listing
<1>. QED BY <1>1, <1>3, <1>4, SessionStep, Zenon

\* Either the tombstone is new and overtakes all reads, or it was there.
LEMMA AnnounceStep ==
  ASSUME SessionsIInv, NEW s \in Session, Sessions!Announce(s)
  PROVE  SessionsIInv'
<1>. DEFINE k == Sessions!Tombstoned(Sessions!Known(s))
<1>1. /\ UNCHANGED <<terminal, running, native, deciding>>
      /\ notice' = notice \ {s} /\ ended' = ended \cup {s}
      /\ native[s] = "gone"
      /\ cap' = [cap EXCEPT ![s] = k]
      /\ IF Sessions!Known(s).active THEN Sessions!Overtake ELSE UNCHANGED read
  BY Zenon DEF Sessions!Announce, Sessions!Tombstone, SessionsIInv, Faithful
<1>2. k \in Capability /\ k.known /\ ~k.active
  BY KnownType, Zenon DEF SessionsIInv, Sessions!Tombstoned, Capability
<1>. HIDE DEF k
<1>3. /\ read' \in [Read -> ReadRecord]
      /\ \A r \in Read : /\ read'[r].listed \subseteq read[r].listed
                         /\ \/ read[r].overtaken => read'[r].overtaken
                            \/ read'[r].listed = {}
  BY <1>1, OvertakeReads, Zenon DEF SessionsIInv, SessionsTypeOK
<1>4. /\ SessionsTypeOK' /\ cap'[s] = k
      /\ \A t \in Session \ {s} : cap'[t] = cap[t]
  BY <1>1, <1>2, <1>3, Zenon DEF SessionsIInv, SessionsTypeOK
<1>5. Faithful(s)'
  BY <1>1, <1>2, <1>4, Zenon DEF SessionsIInv, Faithful
<1>6. \A r \in Read : Listing(r, s)'
  BY <1>1, <1>2, <1>3, <1>4, Zenon DEF SessionsIInv, Listing
<1>. QED BY <1>1, <1>3, <1>4, <1>5, <1>6, SessionStep, Zenon

-----------------------------------------------------------------------------
(* The application's own calls                                             *)

\* Marking the capability that a close has looked up.
LEMMA HeldType ==
  ASSUME NEW k \in Capability, NEW b \in BOOLEAN
  PROVE  LET h == [k EXCEPT !.held = b] IN
         h \in Capability /\ h.known = k.known /\ h.active = k.active
BY Zenon DEF Capability

LEMMA CloseStep ==
  ASSUME SessionsIInv, NEW s \in Session, Sessions!BeginClose(s) \/ Sessions!CloseReturns(s)
  PROVE  SessionsIInv'
<1>1. /\ UNCHANGED <<terminal, running, notice, native, deciding, ended>>
      /\ cap[s] \in Capability
  BY Zenon DEF Sessions!BeginClose, Sessions!CloseReturns, Sessions!service, SessionsIInv,
     SessionsTypeOK
<1>2. CASE UNCHANGED read /\ \E b \in BOOLEAN : cap' = [cap EXCEPT ![s].held = b]
  <2>1. PICK b \in BOOLEAN : cap' = [cap EXCEPT ![s].held = b]
    BY <1>2, Zenon
  <2>. DEFINE k == [cap[s] EXCEPT !.held = b]
  <2>2. k \in Capability /\ k.known = cap[s].known /\ k.active = cap[s].active
    BY <1>1, HeldType, Zenon
  <2>3. cap' = [cap EXCEPT ![s] = k]
    BY <2>1, Zenon
  <2>. HIDE DEF k
  <2>4. /\ SessionsTypeOK' /\ cap'[s] = k
        /\ \A t \in Session \ {s} : cap'[t] = cap[t]
    BY <1>1, <1>2, <2>2, <2>3, Zenon DEF SessionsIInv, SessionsTypeOK
  <2>5. Faithful(s)' /\ \A r \in Read : Listing(r, s)'
    BY <1>1, <1>2, <2>2, <2>4, Zenon DEF SessionsIInv, Faithful, Listing
  <2>. QED BY <1>1, <1>2, <2>4, <2>5, SessionStep, Zenon
<1>3. CASE /\ native[s] = "gone" /\ cap[s].active /\ Sessions!Overtake
           /\ cap' = [cap EXCEPT ![s] = [Sessions!Tombstoned(@) EXCEPT !.held = FALSE]]
  <2>. DEFINE k == [Sessions!Tombstoned(cap[s]) EXCEPT !.held = FALSE]
  <2>1. /\ k \in Capability /\ k.known = cap[s].known /\ ~k.active
    BY <1>1, Zenon DEF Sessions!Tombstoned, Capability
  <2>2. cap' = [cap EXCEPT ![s] = k]
    BY <1>3, Zenon
  <2>. HIDE DEF k
  <2>3. /\ read' \in [Read -> ReadRecord]
        /\ \A r \in Read : /\ read'[r].listed \subseteq read[r].listed
                           /\ read'[r].overtaken \/ read'[r].listed = {}
    BY <1>3, OvertakeReads, Zenon DEF SessionsIInv
  <2>4. /\ SessionsTypeOK' /\ cap'[s] = k
        /\ \A t \in Session \ {s} : cap'[t] = cap[t]
    BY <1>1, <2>1, <2>2, <2>3, Zenon DEF SessionsIInv, SessionsTypeOK
  <2>5. Faithful(s)' /\ \A r \in Read : Listing(r, s)'
    BY <1>1, <1>3, <2>1, <2>3, <2>4, Zenon DEF SessionsIInv, Faithful, Listing
  <2>. QED BY <1>1, <2>3, <2>4, <2>5, SessionStep, Zenon
<1>. QED BY <1>2, <1>3, Zenon DEF Sessions!BeginClose, Sessions!CloseReturns

\* A stop drops every capability, ends every session and overtakes all reads;
\* so does the close of the handle, which is final.
LEMMA DropAllStep ==
  ASSUME SessionsIInv, Sessions!StopReturns \/ Sessions!CloseWallet
  PROVE  SessionsIInv'
<1>1. CASE UNCHANGED <<terminal, running, native, cap, read, ended, notice, deciding>>
  BY <1>1, Zenon DEF SessionsIInv, SessionsTypeOK, Faithful, Listing
<1>2. CASE /\ cap' = [t \in Session |-> Sessions!NoCap]
           /\ Sessions!Overtake
           /\ UNCHANGED <<notice, deciding>>
           /\ \/ /\ native' = [t \in Session |-> IF native[t] = "new" THEN "new" ELSE "gone"]
                 /\ ended' = ended \cup {t \in Session : native[t] # "new"}
                 /\ running' = FALSE /\ UNCHANGED terminal
              \/ terminal' = TRUE /\ ended' = Session /\ UNCHANGED <<running, native>>
  <2>1. /\ read' \in [Read -> ReadRecord]
        /\ \A r \in Read : /\ read'[r].listed \subseteq read[r].listed
                           /\ read'[r].overtaken \/ read'[r].listed = {}
    BY <1>2, OvertakeReads, Zenon DEF SessionsIInv
  <2>2. SessionsTypeOK'
    BY <1>2, <2>1, RecordTypes, Zenon DEF SessionsIInv, SessionsTypeOK, Native
  <2>3. \A t \in Session : ~cap'[t].known /\ ~cap'[t].active
    BY <1>2, RecordTypes, Zenon
  <2>4. ASSUME NEW t \in Session
        PROVE  \/ native'[t] = native[t]
               \/ native[t] # "new" /\ native'[t] = "gone"
    BY <1>2, Zenon
  <2>5. ASSUME NEW t \in Session PROVE Faithful(t)'
    BY <1>2, <2>3, <2>4 DEF SessionsIInv, Faithful
  <2>6. ASSUME NEW r \in Read, NEW t \in Session PROVE Listing(r, t)'
    BY <1>2, <2>1, <2>4, Zenon DEF SessionsIInv, Listing
  <2>. QED BY <2>2, <2>5, <2>6, Zenon DEF SessionsIInv
<1>. QED BY <1>1, <1>2, Zenon DEF Sessions!StopReturns, Sessions!CloseWallet

-----------------------------------------------------------------------------
(* Reads                                                                   *)

\* A read that makes progress; only AnswerList lists sessions.
LEMMA ReadStep ==
  ASSUME SessionsIInv, NEW r \in Read,
         \/ Sessions!BeginRead(r) \/ Sessions!AnswerRunning(r) \/ Sessions!AnswerList(r) \/ Sessions!ReadFails(r)
         \/ Sessions!Retry(r) \/ Sessions!GoOn(r)
  PROVE  SessionsIInv'
<1>1. /\ UNCHANGED <<terminal, running, native, cap, notice, deciding, ended>>
      /\ read[r] \in ReadRecord
  BY Zenon DEF Sessions!BeginRead, Sessions!AnswerRunning, Sessions!AnswerList,
     Sessions!ReadFails, Sessions!Retry, Sessions!GoOn, Sessions!service, Sessions!dart,
         SessionsIInv, SessionsTypeOK
<1>. DEFINE live == {s \in Session : native[s] = "live"}
<1>2. PICK new \in ReadRecord :
        /\ read' = [read EXCEPT ![r] = new]
        /\ \/ new.listed = {} \/ new.listed = live
           \/ new.listed = read[r].listed /\ new.overtaken = read[r].overtaken
  <2>1. CASE Sessions!BeginRead(r) \/ Sessions!Retry(r)
    <3>. DEFINE new == [Sessions!NoRead EXCEPT !.pc = "running"]
    <3>1. new \in ReadRecord /\ new.listed = {}
      BY Zenon DEF Sessions!NoRead, ReadRecord
    <3>. QED BY <2>1, <3>1, Zenon DEF Sessions!BeginRead, Sessions!Retry
  <2>2. CASE Sessions!AnswerRunning(r)
    <3>. DEFINE new == [read[r] EXCEPT !.pc = "answered", !.running = running]
    <3>1. /\ new \in ReadRecord /\ new.listed = read[r].listed
          /\ new.overtaken = read[r].overtaken
      BY <1>1, Zenon DEF ReadRecord, SessionsIInv, SessionsTypeOK
    <3>2. read' = [read EXCEPT ![r] = new]
      BY <2>2, Zenon DEF Sessions!AnswerRunning
    <3>. QED BY <3>1, <3>2, Zenon
  <2>3. CASE Sessions!AnswerList(r)
    <3>. DEFINE new == [read[r] EXCEPT !.pc = "listed", !.listed = live]
    <3>1. new \in ReadRecord /\ new.listed = live
      BY <1>1, Zenon DEF ReadRecord
    <3>2. read' = [read EXCEPT ![r] = new]
      BY <2>3, Zenon DEF Sessions!AnswerList
    <3>. QED BY <3>1, <3>2, Zenon
  <2>4. CASE Sessions!ReadFails(r)
    BY <2>4, RecordTypes, Zenon DEF Sessions!ReadFails
  <2>5. CASE Sessions!GoOn(r)
    <3>. DEFINE new == [read[r] EXCEPT !.pc = "listing"]
    <3>1. /\ new \in ReadRecord /\ new.listed = read[r].listed
          /\ new.overtaken = read[r].overtaken
      BY <1>1, Zenon DEF ReadRecord
    <3>2. read' = [read EXCEPT ![r] = new]
      BY <2>5, Zenon DEF Sessions!GoOn
    <3>. QED BY <3>1, <3>2, Zenon
  <2>. QED BY <2>1, <2>2, <2>3, <2>4, <2>5, Zenon
<1>3. /\ SessionsTypeOK' /\ read'[r] = new
      /\ \A q \in Read \ {r} : read'[q] = read[q]
  BY <1>1, <1>2, Zenon DEF SessionsIInv, SessionsTypeOK
<1>4. \A s \in Session : Faithful(s)'
  BY <1>1, Zenon DEF SessionsIInv, Faithful
<1>5. ASSUME NEW s \in Session PROVE Listing(r, s)'
  <2>1. CASE new.listed = {}
    BY <1>3, <2>1, Zenon DEF Listing
  <2>2. CASE new.listed = live
    BY <1>1, <1>3, <2>2, Zenon DEF SessionsIInv, Faithful, Listing
  <2>3. CASE new.listed = read[r].listed /\ new.overtaken = read[r].overtaken
    BY <1>1, <1>3, <2>3, Zenon DEF SessionsIInv, Listing
  <2>. QED BY <1>2, <2>1, <2>2, <2>3, Zenon
<1>6. ASSUME NEW q \in Read \ {r}, NEW s \in Session PROVE Listing(q, s)'
  BY <1>1, <1>3, Zenon DEF SessionsIInv, Listing
<1>. QED BY <1>3, <1>4, <1>5, <1>6, Zenon DEF SessionsIInv

\* A delivery that drops a capability overtakes the other reads; one that drops
\* none leaves every tombstone they count on.
LEMMA DeliverStep ==
  ASSUME SessionsIInv, NEW r \in Read, Sessions!Deliver(r)
  PROVE  /\ SessionsIInv'
         /\ \A s \in read[r].listed \ ended : Sessions!Operable(s)' \/ terminal
<1>. DEFINE listed == read[r].listed
            dropped == Sessions!Stale(listed) # {}
<1>1. /\ UNCHANGED <<terminal, running, native, notice, deciding, ended>>
      /\ cap' = Sessions!Observed(listed)
      /\ ~read[r].overtaken
  BY Zenon DEF Sessions!Deliver, Sessions!Overtaken, Sessions!service
<1>2. ASSUME NEW q \in Read
      PROVE  /\ read'[q] \in ReadRecord
             /\ read'[q].listed \subseteq read[q].listed
             /\ \/ read'[q].listed = {}
                \/ /\ read[q].overtaken => read'[q].overtaken
                   /\ dropped => read'[q].overtaken
  <2>1. read[q] \in ReadRecord
    BY Zenon DEF SessionsIInv, SessionsTypeOK
  <2>2. CASE q = r \/ read[q].pc = "idle"
    <3>1. read'[q] = Sessions!NoRead
      BY <2>2, Zenon DEF Sessions!Deliver
    <3>. QED BY <3>1, RecordTypes, Zenon
  <2>3. CASE ~(q = r \/ read[q].pc = "idle")
    <3>1. read'[q] = [read[q] EXCEPT !.overtaken = read[q].overtaken \/ dropped]
      BY <2>3, Zenon DEF Sessions!Deliver
    <3>. HIDE DEF dropped
    <3>2. (read[q].overtaken \/ dropped) \in BOOLEAN
      OBVIOUS
    <3>. QED BY <2>1, <3>1, <3>2, Zenon DEF ReadRecord
  <2>. QED BY <2>2, <2>3, Zenon
<1>3. read' \in [Read -> ReadRecord]
  <2>1. read' = [q \in Read |-> read'[q]]
    BY Zenon DEF Sessions!Deliver
  <2>. QED BY <1>2, <2>1, Zenon
<1>4. ASSUME NEW s \in Session
      PROVE  /\ cap'[s] \in Capability
             /\ cap'[s].active => cap'[s].known
             /\ s \in listed =>
                  /\ cap'[s].known /\ cap'[s].admitted
                  /\ cap'[s].active = Sessions!Known(s).active
             /\ \/ s \in listed \/ cap'[s] = cap[s]
                \/ s \in Sessions!Stale(listed) /\ ~cap'[s].known /\ ~cap'[s].active
  <2>1. cap[s] \in Capability /\ (cap[s].active => cap[s].known)
    BY Zenon DEF SessionsIInv, SessionsTypeOK, Faithful
  <2>2. CASE s \in listed
    <3>1. cap'[s] = [Sessions!Known(s) EXCEPT !.admitted = TRUE, !.pending = FALSE]
      BY <1>1, <2>2, Zenon DEF Sessions!Observed
    <3>2. Sessions!Known(s) \in Capability /\ Sessions!Known(s).known
      BY KnownType, Zenon DEF SessionsIInv
    <3>. QED BY <2>2, <3>1, <3>2, Zenon DEF Capability
  <2>3. CASE s \in Sessions!Stale(listed)
    <3>1. cap'[s] = Sessions!NoCap /\ s \notin listed
      BY <1>1, <2>3, Zenon DEF Sessions!Observed, Sessions!Stale
    <3>. QED BY <2>3, <3>1, RecordTypes, Zenon
  <2>4. CASE s \notin listed /\ s \notin Sessions!Stale(listed)
    <3>1. cap'[s] = cap[s]
      BY <1>1, <2>4, Zenon DEF Sessions!Observed, Sessions!Stale
    <3>. QED BY <2>1, <2>4, <3>1, Zenon
  <2>. QED BY <2>2, <2>3, <2>4, Zenon
<1>5. SessionsTypeOK'
  <2>1. cap' = [s \in Session |-> cap'[s]]
    BY <1>1, Zenon DEF Sessions!Observed
  <2>2. cap' \in [Session -> Capability]
    BY <1>4, <2>1, Zenon
  <2>. QED BY <1>1, <1>3, <2>2, Zenon DEF SessionsIInv, SessionsTypeOK
<1>6. ASSUME NEW s \in Session, s \in listed, ~terminal
      PROVE  IF s \in ended THEN ~Sessions!Known(s).active ELSE Sessions!Known(s).active
  BY <1>1, <1>6, KnownType, Zenon DEF SessionsIInv, Listing
<1>7. ASSUME NEW s \in Session PROVE Faithful(s)'
  BY <1>1, <1>4, <1>6, Zenon DEF SessionsIInv, Faithful
<1>8. ASSUME NEW q \in Read, NEW s \in Session PROVE Listing(q, s)'
  <2>1. CASE read'[q].listed = {} \/ s \notin read[q].listed
    BY <1>2, <2>1, Zenon DEF Listing
  <2>2. CASE s \in read[q].listed /\ s \in Sessions!Stale(listed) /\ read'[q].listed # {}
    BY <1>1, <1>2, <2>2, Zenon DEF SessionsIInv, Listing
  <2>3. CASE s \in read[q].listed /\ s \in listed /\ read'[q].listed # {}
    BY <1>1, <1>2, <1>4, <1>6, <2>3, Zenon DEF SessionsIInv, Listing
  <2>4. CASE s \in read[q].listed /\ cap'[s] = cap[s] /\ read'[q].listed # {}
    BY <1>1, <1>2, <2>4, Zenon DEF SessionsIInv, Listing
  <2>. QED BY <1>4, <2>1, <2>2, <2>3, <2>4, Zenon
<1>9. ASSUME NEW s \in listed \ ended PROVE Sessions!Operable(s)' \/ terminal
  <2>1. s \in Session
    BY Zenon DEF SessionsIInv, SessionsTypeOK, ReadRecord
  <2>. QED BY <1>1, <1>4, <1>6, <1>9, <2>1, Zenon DEF Sessions!Operable
<1>. QED BY <1>5, <1>7, <1>8, <1>9, Zenon DEF SessionsIInv

-----------------------------------------------------------------------------

LEMMA ServiceStep ==
  ASSUME SessionsIInv, Sessions!StartXswd \/ Sessions!BeginStop \/ UNCHANGED Sessions!vars
  PROVE  SessionsIInv'
BY Zenon DEF Sessions!StartXswd, Sessions!BeginStop, Sessions!vars, Sessions!dart,
   SessionsIInv, SessionsTypeOK, Faithful, Listing

LEMMA NextIInv == SessionsIInv /\ [Sessions!Next]_(Sessions!vars) => SessionsIInv'
<1>. SUFFICES ASSUME SessionsIInv, [Sessions!Next]_(Sessions!vars) PROVE SessionsIInv'
  OBVIOUS
<1>1. CASE Sessions!StartXswd \/ Sessions!BeginStop \/ UNCHANGED Sessions!vars
  BY <1>1, ServiceStep, Zenon
<1>2. CASE Sessions!StopReturns \/ Sessions!CloseWallet
  BY <1>2, DropAllStep, Zenon
<1>3. ASSUME NEW s \in Session,
             \/ Sessions!Insert(s) \/ Sessions!End(s)
             \/ Sessions!StartDecision(s) \/ Sessions!PermissionRequest(s) \/ Sessions!Announce(s)
             \/ \E accepted \in BOOLEAN : Sessions!CompleteDecision(s, accepted)
             \/ Sessions!BeginClose(s) \/ Sessions!CloseReturns(s)
      PROVE  SessionsIInv'
  BY <1>3, NativeStep, SessionsStartDecisionStep, PermissionRequestStep, AnnounceStep,
     CompleteDecisionStep, CloseStep, Zenon
<1>4. ASSUME NEW r \in Read,
             \/ Sessions!BeginRead(r) \/ Sessions!AnswerRunning(r) \/ Sessions!AnswerList(r) \/ Sessions!ReadFails(r)
             \/ Sessions!Retry(r) \/ Sessions!GoOn(r) \/ Sessions!Deliver(r)
      PROVE  SessionsIInv'
  BY <1>4, ReadStep, DeliverStep, Zenon
<1>. QED BY <1>1, <1>2, <1>3, <1>4, Zenon DEF Sessions!Next

\* Once Dart was told of the end of a session, no late answer of getXswdState
\* and no late callback makes its capability operable again.
THEOREM EndedStaysEnded == Sessions!Spec => []NoRevival
<1>1. SessionsIInv => NoRevival
  BY Zenon DEF SessionsIInv, SessionsTypeOK, Faithful, NoRevival, Sessions!NoRevival,
     Sessions!Operable
<1>. QED BY <1>1, InitIInv, NextIInv, PTL DEF Sessions!Spec

\* Every application in the state that getXswdState returns can be operated on,
\* unless its end was announced or the handle closed.
THEOREM ListedAreOperable == Sessions!Spec => ListedOperable
<1>1. SessionsIInv /\ [Sessions!Next]_(Sessions!vars) =>
        [\A r \in Read : Sessions!Deliver(r) =>
           \A s \in read[r].listed \ ended : Sessions!Operable(s)' \/ terminal]_(Sessions!vars)
  BY DeliverStep, Zenon
<1>. QED BY <1>1, InitIInv, NextIInv, PTL
            DEF Sessions!Spec, ListedOperable, Sessions!ListedOperable

=============================================================================
