---------------------------- MODULE XswdSessions ----------------------------
(***************************************************************************)
(* The XSWD sessions as the Dart wallet handle sees them: callbacks of the *)
(* native dispatcher and reads of the native state arrive in any order,    *)
(* and a revision keeps a read that was overtaken from being believed.     *)
(*                                                                         *)
(* `native[s]` is the native session; its reference is invalidated when it *)
(* is gone, so that it is not listed again (XswdDispatcher and XswdCalls   *)
(* model that side).  `cap[s]` is the entry of _capabilities.  A read      *)
(* compares the revision with the one it began with; here every change of  *)
(* the revision marks the reads in progress as overtaken.                  *)
(***************************************************************************)
EXTENDS Naturals

CONSTANTS Session, Read

VARIABLES
  terminal,   \* the handle is closed
  running,    \* the native XSWD service runs
  native,     \* every native session
  notice,     \* sessions whose end the dispatcher has yet to announce
  cap,        \* the capability of every session
  deciding,   \* sessions with an application callback in Dart
  closing,    \* sessions being closed by the application
  stopping,   \* stopXswd awaits the bridge
  read,       \* the reads in progress
  ended,      \* history: sessions whose end Dart was told of
  identity    \* history: opaque references made for every session, 2 for more

vars == <<terminal, running, native, notice, cap, deciding, closing, stopping,
          read, ended, identity>>

service == <<terminal, running, stopping, notice>>
dart == <<cap, deciding, closing, ended, identity>>

\* `held`: it is the capability that a running close has looked up.
NoCap == [known |-> FALSE, active |-> FALSE, admitted |-> FALSE, pending |-> FALSE,
          held |-> FALSE]
FreshCap == [NoCap EXCEPT !.known = TRUE, !.active = TRUE]

NoRead == [pc |-> "idle", overtaken |-> FALSE, running |-> FALSE, listed |-> {}]

Init ==
  /\ terminal = FALSE /\ running = FALSE /\ stopping = FALSE
  /\ native = [s \in Session |-> "new"]
  /\ cap = [s \in Session |-> NoCap]
  /\ notice = {} /\ deciding = {} /\ closing = {} /\ ended = {}
  /\ read = [r \in Read |-> NoRead]
  /\ identity = [s \in Session |-> 0]

-----------------------------------------------------------------------------
(* _NativeXswdState                                                        *)

\* putIfAbsent
Known(s) == IF cap[s].known THEN cap[s] ELSE FreshCap

\* A capability that is made anew has a new reference.
Counted ==
  identity' = [s \in Session |->
    IF ~cap[s].known /\ cap'[s].known /\ identity[s] < 2 THEN identity[s] + 1
    ELSE identity[s]]

\* Every change of the revision.
Overtake == read' = [r \in Read |-> IF read[r].pc = "idle" THEN NoRead
                                    ELSE [read[r] EXCEPT !.overtaken = TRUE]]

Tombstoned(c) == [c EXCEPT !.active = FALSE, !.pending = FALSE]

\* The end of a session leaves its identity, but nothing to operate.
Tombstone(s) ==
  /\ cap' = [cap EXCEPT ![s] = Tombstoned(Known(s))]
  /\ IF Known(s).active THEN Overtake ELSE UNCHANGED read

\* Mutant: a listed session is not admitted when it is known already.
Observed_KnownKept(listed) ==
  [s \in Session |->
     IF s \in listed THEN IF cap[s].known THEN cap[s]
                          ELSE [FreshCap EXCEPT !.admitted = TRUE]
     ELSE IF cap[s].known /\ ~cap[s].pending THEN NoCap
     ELSE cap[s]]

\* What a state read says of the sessions it lists, and of those it does not.
Observed(listed) ==
  [s \in Session |->
     IF s \in listed THEN [Known(s) EXCEPT !.admitted = TRUE, !.pending = FALSE]
     ELSE IF cap[s].known /\ ~cap[s].pending THEN NoCap
     ELSE cap[s]]

\* Sessions the read invalidates: each bumps the revision.
Stale(listed) == {s \in Session \ listed : cap[s].known /\ ~cap[s].pending}

\* capability(): what an operation on an application needs, after _ensureActive.
Operable(s) == ~terminal /\ cap[s].known /\ cap[s].active /\ cap[s].admitted

-----------------------------------------------------------------------------
(* The native side (external)                                              *)

Serving == {"deciding", "accepted", "live"}

StartXswd ==
  /\ ~running /\ ~stopping /\ ~terminal
  /\ running' = TRUE
  /\ UNCHANGED <<terminal, stopping, notice, native, dart, read>>

\* An accepted application is inserted after its callback has returned.
Insert(s) ==
  /\ native[s] = "accepted"
  /\ native' = [native EXCEPT ![s] = "live"]
  /\ UNCHANGED <<service, dart, read>>

\* The session ends or its admission is cancelled; the callback that tells of
\* it may be abandoned.
End(s) ==
  /\ native[s] \in Serving
  /\ native' = [native EXCEPT ![s] = "gone"]
  /\ notice' \in {notice, notice \cup {s}}
  /\ UNCHANGED <<terminal, running, stopping, dart, read>>

-----------------------------------------------------------------------------
(* Callbacks                                                               *)

\* applicationRequest: _startXswdApplicationDecision
StartDecision(s) ==
  /\ running /\ native[s] = "new"
  /\ native' = [native EXCEPT ![s] = "deciding"]
  /\ deciding' = deciding \cup {s}
  /\ cap' = [cap EXCEPT ![s] = [Known(s) EXCEPT !.pending = TRUE]]
  /\ UNCHANGED <<service, closing, read, ended>>
  /\ Counted

\* _completeXswdApplicationDecision, and the outcome's way back to the native
\* side, which may have ended the session meanwhile.
CompleteDecision(s, accepted) ==
  /\ s \in deciding
  /\ deciding' = deciding \ {s}
  /\ native' = IF native[s] # "deciding" THEN native
               ELSE [native EXCEPT ![s] = IF accepted THEN "accepted" ELSE "gone"]
  /\ IF ~cap[s].known \/ ~cap[s].active
       THEN UNCHANGED <<cap, read>>
       ELSE IF accepted
       THEN cap' = [cap EXCEPT ![s].pending = TRUE] /\ UNCHANGED read
       ELSE cap' = [cap EXCEPT ![s] = NoCap] /\ Overtake
  /\ ended' = IF accepted THEN ended ELSE ended \cup {s}
  /\ UNCHANGED <<service, closing>>
  /\ Counted

\* permissionRequest, prefetchPermissionsRequest: the application is adapted.
PermissionRequest(s) ==
  /\ native[s] = "live"
  /\ cap' = [cap EXCEPT ![s] = Known(s)]
  /\ UNCHANGED <<service, native, deciding, closing, read, ended>>
  /\ Counted

\* applicationDisconnect, or cancelRequest for a cancelled admission.
Announce(s) ==
  /\ s \in notice
  /\ notice' = notice \ {s}
  /\ Tombstone(s)
  /\ ended' = ended \cup {s}
  /\ UNCHANGED <<terminal, running, native, deciding, closing, stopping>>
  /\ Counted

-----------------------------------------------------------------------------
(* getXswdState                                                            *)

BeginRead(r) ==
  /\ read[r].pc = "idle" /\ ~terminal
  /\ read' = [read EXCEPT ![r] = [NoRead EXCEPT !.pc = "running"]]
  /\ UNCHANGED <<service, native, dart>>

\* The native answers; they reach Dart in a later step.
AnswerRunning(r) ==
  /\ read[r].pc = "running"
  /\ read' = [read EXCEPT ![r].pc = "answered", ![r].running = running]
  /\ UNCHANGED <<service, native, dart>>

AnswerList(r) ==
  /\ read[r].pc = "listing"
  /\ read' = [read EXCEPT ![r].pc = "listed",
                          ![r].listed = {s \in Session : native[s] = "live"}]
  /\ UNCHANGED <<service, native, dart>>

\* The bridge fails, or the service no longer runs when the list is asked for.
ReadFails(r) ==
  /\ read[r].pc \in {"running", "listing"}
  /\ read' = [read EXCEPT ![r] = NoRead]
  /\ UNCHANGED <<service, native, dart>>

\* Mutant: the revision is not compared.
Overtaken_Never(r) == FALSE

Overtaken(r) == read[r].overtaken

Retry(r) ==
  /\ read[r].pc \in {"answered", "listed"} /\ Overtaken(r)
  /\ read' = [read EXCEPT ![r] = [NoRead EXCEPT !.pc = "running"]]
  /\ UNCHANGED <<service, native, dart>>

GoOn(r) ==
  /\ read[r].pc = "answered" /\ ~Overtaken(r) /\ read[r].running
  /\ read' = [read EXCEPT ![r].pc = "listing"]
  /\ UNCHANGED <<service, native, dart>>

\* adaptApplication and reconcile
Deliver(r) ==
  LET listed == read[r].listed IN
  /\ \/ read[r].pc = "listed"
     \/ read[r].pc = "answered" /\ ~read[r].running
  /\ ~Overtaken(r)
  /\ cap' = Observed(listed)
  /\ read' = [q \in Read |->
       IF q = r \/ read[q].pc = "idle" THEN NoRead
       ELSE [read[q] EXCEPT !.overtaken = @ \/ Stale(listed) # {}]]
  /\ UNCHANGED <<service, native, deciding, closing, ended>>
  /\ Counted

-----------------------------------------------------------------------------
(* The application's own calls                                             *)

\* closeXswdApplicationSession
BeginClose(s) ==
  /\ Operable(s) /\ s \notin closing /\ ~stopping
  /\ closing' = closing \cup {s}
  /\ cap' = [cap EXCEPT ![s].held = TRUE]
  /\ UNCHANGED <<service, native, deciding, read, ended>>
  /\ Counted

\* The native close fails, or the session is gone when it returns.
CloseReturns(s) ==
  /\ s \in closing
  /\ closing' = closing \ {s}
  /\ \/ /\ cap' = [cap EXCEPT ![s].held = FALSE]
        /\ UNCHANGED read
     \/ /\ native[s] = "gone"
        /\ IF cap[s].held /\ cap[s].active
             THEN cap' = [cap EXCEPT ![s] = [Tombstoned(@) EXCEPT !.held = FALSE]] /\ Overtake
             ELSE cap' = [cap EXCEPT ![s].held = FALSE] /\ UNCHANGED read
  /\ UNCHANGED <<service, native, deciding, ended>>
  /\ Counted

\* stopXswd: excluded while a session is being closed.
BeginStop ==
  /\ ~terminal /\ ~stopping /\ closing = {}
  /\ stopping' = TRUE
  /\ UNCHANGED <<terminal, running, notice, native, dart, read>>

\* The native stop fails, or ends every session before it returns.
StopReturns ==
  /\ stopping
  /\ stopping' = FALSE
  /\ \/ UNCHANGED <<running, native, cap, read, ended>>
     \/ /\ running' = FALSE
        /\ native' = [s \in Session |-> IF native[s] = "new" THEN "new" ELSE "gone"]
        /\ cap' = [s \in Session |-> NoCap]
        /\ Overtake
        /\ ended' = ended \cup {s \in Session : native[s] # "new"}
  /\ UNCHANGED <<terminal, notice, deciding, closing>>
  /\ Counted

\* close(): invalidateAll
CloseWallet ==
  /\ ~terminal
  /\ terminal' = TRUE
  /\ cap' = [s \in Session |-> NoCap]
  /\ Overtake
  /\ ended' = Session
  /\ UNCHANGED <<running, native, notice, deciding, closing, stopping>>
  /\ Counted

Next ==
  \/ StartXswd \/ BeginStop \/ StopReturns \/ CloseWallet
  \/ \E s \in Session :
       \/ Insert(s) \/ End(s)
       \/ StartDecision(s) \/ PermissionRequest(s) \/ Announce(s)
       \/ \E accepted \in BOOLEAN : CompleteDecision(s, accepted)
       \/ BeginClose(s) \/ CloseReturns(s)
  \/ \E r \in Read :
       \/ BeginRead(r) \/ AnswerRunning(r) \/ AnswerList(r) \/ ReadFails(r)
       \/ Retry(r) \/ GoOn(r) \/ Deliver(r)

Spec == Init /\ [][Next]_vars

-----------------------------------------------------------------------------
(* Properties                                                              *)

\* Once Dart was told that a session ended (disconnect, cancelled or refused
\* admission, a stop, the handle's close), no late answer or callback makes it
\* operable again.  A session the application closes is among them when its
\* disconnect is announced.
NoRevival == \A s \in ended : ~Operable(s)

\* The applications of the state a read returns can be operated on, unless
\* their end was announced meanwhile or the handle was closed.
ListedOperable ==
  [][\A r \in Read : Deliver(r) =>
       \A s \in read[r].listed \ ended : Operable(s)' \/ terminal]_vars

\* "Repeated projections of the same native application-state instance compare
\* equal, including between callbacks and state reads": a connected session has
\* one opaque reference.  Two reads that overlap break this: the later one
\* admits the session, then the answer of the earlier one, which had not seen
\* it yet, drops its capability, and the next read makes another.
SameReference ==
  \A s \in Session : ~terminal /\ native[s] = "live" => identity[s] <= 1

=============================================================================
