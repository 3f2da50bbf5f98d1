------------------------- MODULE EventSubscription --------------------------
(***************************************************************************)
(* One wallet event subscription end to end: the bounded broadcast channel *)
(* of the wallet, the pull-driven native cursor                            *)
(* (WalletRuntimeEventSubscription; WalletBusinessEventSubscription has    *)
(* the same control), and the Dart adapter that pumps it into a            *)
(* single-subscription stream.                                             *)
(*                                                                         *)
(* An upstream event is its position in the channel; `events[n]` says      *)
(* whether this subscription reports it.  The native read runs on a worker *)
(* thread; the Dart side is one isolate, so a Dart step is everything      *)
(* between two awaits.                                                     *)
(***************************************************************************)
EXTENDS Naturals, Sequences

CONSTANTS
  Capacity,         \* events the broadcast channel retains
  MaxSequence,      \* u64::MAX, where next_frame reports exhaustion
  MaxEvents,        \* bound on the upstream events of a behaviour
  MaxCancelFailures \* bound on failures of the synchronous cancel call

ASSUME BoundsAssumption ==
  /\ Capacity \in Nat \ {0}
  /\ MaxSequence \in Nat
  /\ MaxEvents \in Nat
  /\ MaxCancelFailures \in Nat

VARIABLES
  events,         \* upstream events so far: reported by this subscription?
  senderClosed,   \* the wallet dropped its event sender
  pos,            \* the receiver's position in the channel
  native,         \* the native cursor
  read,           \* the native read in flight, as Dart sees it
  pump,           \* control point of the Dart pump
  frame,          \* the frame the pump holds
  dart,           \* flags of the Dart adapter
  canceller,      \* control point of the cancellation in progress
  failures,       \* failures of the synchronous cancel call so far
  delivered       \* frames given to the listener

vars == <<events, senderClosed, pos, native, read, pump, frame, dart,
          canceller, failures, delivered>>

NoFrame == [kind |-> "none", first |-> 0, last |-> 0, sequence |-> 0]
Position == 0 .. MaxEvents
Frame == [kind : {"none", "event", "degraded", "closed"},
          first : 0 .. MaxEvents + 1, last : Position, sequence : 0 .. MaxSequence]
Cursor == [cancelled : BOOLEAN, terminated : BOOLEAN,
           next_sequence : 0 .. MaxSequence + 1, disposed : BOOLEAN]
Adapter == [paused : BOOLEAN, cancelRequested : BOOLEAN,
            nativeCancelRequested : BOOLEAN, finalized : BOOLEAN,
            expectedSequence : 1 .. MaxSequence + 1, failed : BOOLEAN]

Init ==
  /\ events = <<>>
  /\ senderClosed = FALSE
  /\ pos = 0
  /\ native = [cancelled |-> FALSE, terminated |-> FALSE, next_sequence |-> 1,
               disposed |-> FALSE]
  /\ read = "none"
  /\ pump = "notStarted"
  /\ frame = NoFrame
  /\ dart = [paused |-> FALSE, cancelRequested |-> FALSE,
             nativeCancelRequested |-> FALSE, finalized |-> FALSE,
             expectedSequence |-> 1, failed |-> FALSE]
  /\ canceller = "none"
  /\ failures = 0
  /\ delivered = <<>>

-----------------------------------------------------------------------------
(* External: the wallet's broadcast channel                                *)

Publish(reported) ==
  /\ ~senderClosed
  /\ Len(events) < MaxEvents
  /\ events' = Append(events, reported)
  /\ UNCHANGED <<senderClosed, pos, native, read, pump, frame, dart,
                 canceller, failures, delivered>>

CloseSender ==
  /\ ~senderClosed
  /\ senderClosed' = TRUE
  /\ UNCHANGED <<events, pos, native, read, pump, frame, dart, canceller,
                 failures, delivered>>

Oldest == IF Len(events) > Capacity THEN Len(events) - Capacity ELSE 0

-----------------------------------------------------------------------------
(* The native cursor: next_event and cancel                                *)

\* begin_next succeeded: a second concurrent read would be refused.  A
\* cancelled or terminated cursor yields None, here and in the loop.
EnterRead ==
  /\ read = "entering"
  /\ read' = IF native.cancelled \/ native.terminated THEN "ended" ELSE "waiting"
  /\ UNCHANGED <<events, senderClosed, pos, native, pump, frame, dart,
                 canceller, failures, delivered>>

\* The biased select prefers the cancellation signal.
ReadCancelled ==
  /\ read = "waiting"
  /\ native.cancelled
  /\ read' = "ended"
  /\ UNCHANGED <<events, senderClosed, pos, native, pump, frame, dart,
                 canceller, failures, delivered>>

\* An event this subscription does not report leaves the sequence alone.
SkipSequence == native.next_sequence

ReadSkips ==
  /\ read = "waiting"
  /\ ~native.cancelled
  /\ Oldest <= pos /\ pos < Len(events)
  /\ ~events[pos + 1]
  /\ pos' = pos + 1
  /\ native' = [native EXCEPT !.next_sequence = SkipSequence]
  /\ UNCHANGED <<events, senderClosed, read, pump, frame, dart, canceller,
                 failures, delivered>>

\* next_frame: numbers the frame, or fails once the sequence is exhausted.
NextFrame(kind, first, last, n) ==
  IF native.next_sequence < MaxSequence
    THEN /\ frame' = [kind |-> kind, first |-> first, last |-> last,
                      sequence |-> native.next_sequence]
         /\ native' = [n EXCEPT !.next_sequence = @ + 1]
         /\ read' = "frame"
    ELSE /\ native' = n
         /\ read' = "failed"
         /\ UNCHANGED frame

ReadEvent ==
  /\ read = "waiting"
  /\ ~native.cancelled
  /\ Oldest <= pos /\ pos < Len(events)
  /\ events[pos + 1]
  /\ pos' = pos + 1
  /\ NextFrame("event", pos + 1, pos + 1, native)
  /\ UNCHANGED <<events, senderClosed, pump, dart, canceller, failures,
                 delivered>>

\* A business event whose projection fails is an error of the read.
ReadProjectionFails ==
  /\ read = "waiting"
  /\ ~native.cancelled
  /\ Oldest <= pos /\ pos < Len(events)
  /\ events[pos + 1]
  /\ pos' = pos + 1
  /\ read' = "failed"
  /\ UNCHANGED <<events, senderClosed, native, pump, frame, dart, canceller,
                 failures, delivered>>

\* Mutant: the marker forgets the newest skipped event.
LagEnd_OffByOne == Oldest - 1

\* The last event a Lagged receiver skipped.
LagEnd == Oldest

ReadLagged ==
  /\ read = "waiting"
  /\ ~native.cancelled
  /\ pos < Oldest
  /\ pos' = Oldest
  /\ NextFrame("degraded", pos + 1, LagEnd, native)
  /\ UNCHANGED <<events, senderClosed, pump, dart, canceller, failures,
                 delivered>>

ReadClosed ==
  /\ read = "waiting"
  /\ ~native.cancelled
  /\ senderClosed /\ pos = Len(events)
  /\ NextFrame("closed", pos + 1, pos, [native EXCEPT !.terminated = TRUE])
  /\ UNCHANGED <<events, senderClosed, pos, pump, dart, canceller, failures,
                 delivered>>

-----------------------------------------------------------------------------
(* The Dart adapter: the pump                                              *)

ChannelUnchanged == UNCHANGED <<events, senderClosed, pos>>

\* _finalize disposes the native handle, which cancels it by Drop.
Disposed(n) == [n EXCEPT !.disposed = TRUE, !.cancelled = TRUE]

\* The synchronous bridge call of _requestNativeCancel fails.
BridgeCancelFails ==
  /\ ~dart.nativeCancelRequested
  /\ failures < MaxCancelFailures
  /\ failures' = failures + 1

\* It succeeds, or was already made.  A disposed handle refuses it.
BridgeCancelSucceeds ==
  /\ native.disposed => dart.nativeCancelRequested
  /\ UNCHANGED failures

\* The end of the pump, after an error or not: request cancellation, ask the
\* native side, finalize either way.  Errors go to the stream, the pump's own
\* only while nobody cancelled.
FinishPump(error) ==
  /\ pump' = "done"
  /\ frame' = NoFrame
  /\ native' = Disposed(native)
  /\ \E failing \in BOOLEAN :
       /\ IF failing THEN BridgeCancelFails ELSE BridgeCancelSucceeds
       /\ dart' = [dart EXCEPT
                     !.cancelRequested = TRUE,
                     !.nativeCancelRequested = ~failing,
                     !.finalized = TRUE,
                     !.failed = \/ failing /\ ~dart.finalized
                                \/ error /\ ~dart.cancelRequested
                                \/ dart.failed]

\* The stream gets its listener: the pump starts, or ends at once when the
\* subscription was cancelled before.
Listen ==
  /\ pump = "notStarted"
  /\ \/ /\ dart.cancelRequested
        /\ FinishPump(FALSE)
     \/ /\ ~dart.cancelRequested
        /\ pump' = "loop"
        /\ UNCHANGED <<frame, dart, native, failures>>
  /\ UNCHANGED <<read, canceller, delivered>>
  /\ ChannelUnchanged

Pause ==
  /\ pump \notin {"notStarted", "done"}
  /\ ~dart.cancelRequested
  /\ ~dart.paused
  /\ dart' = [dart EXCEPT !.paused = TRUE]
  /\ UNCHANGED <<native, read, pump, frame, canceller, failures, delivered>>
  /\ ChannelUnchanged

Resume ==
  /\ dart.paused
  /\ dart' = [dart EXCEPT !.paused = FALSE]
  /\ UNCHANGED <<native, read, pump, frame, canceller, failures, delivered>>
  /\ ChannelUnchanged

\* Mutant: a cancellation does not wake a paused pump.
Held_EvenIfCancelled == dart.paused

\* _waitWhilePaused keeps waiting.
Held == dart.paused /\ ~dart.cancelRequested

\* The head of the loop: leave, or start one native read.
PumpLoop ==
  /\ pump = "loop"
  /\ ~Held
  /\ \/ /\ dart.cancelRequested
        /\ FinishPump(FALSE)
        /\ UNCHANGED read
     \/ /\ ~dart.cancelRequested
        /\ pump' = "reading"
        /\ read' = "entering"
        /\ UNCHANGED <<frame, dart, native, failures>>
  /\ UNCHANGED <<canceller, delivered>>
  /\ ChannelUnchanged

\* The read came back.
PumpReceives ==
  /\ pump = "reading"
  /\ read \in {"frame", "ended", "failed"}
  /\ read' = "none"
  /\ \/ /\ read = "failed"
        /\ FinishPump(TRUE)
     \/ /\ read = "ended" \/ (read = "frame" /\ dart.cancelRequested)
        /\ FinishPump(FALSE)
     \/ /\ read = "frame"
        /\ ~dart.cancelRequested
        /\ pump' = "holding"
        /\ UNCHANGED <<frame, dart, native, failures>>
  /\ UNCHANGED <<canceller, delivered>>
  /\ ChannelUnchanged

\* Mutant: the held frame is delivered without a second look.
Discards_Never == FALSE

\* The frame in hand is stale: the subscription was cancelled meanwhile.
Discards == dart.cancelRequested

\* The frame waited for the listener to resume; it has to continue the
\* numbering (adaptRuntimeEventFrame).
PumpDelivers ==
  /\ pump = "holding"
  /\ ~Held
  /\ \/ /\ Discards \/ frame.sequence # dart.expectedSequence
        /\ FinishPump(~Discards)
        /\ UNCHANGED delivered
     \/ /\ ~Discards
        /\ frame.sequence = dart.expectedSequence
        /\ delivered' = Append(delivered, frame)
        /\ \/ /\ frame.kind = "closed"
              /\ pump' = "closing"
           \/ /\ frame.kind # "closed"
              /\ pump' = "loop"
        /\ frame' = NoFrame
        /\ dart' = [dart EXCEPT !.expectedSequence = @ + 1]
        /\ UNCHANGED <<native, failures>>
  /\ UNCHANGED <<read, canceller>>
  /\ ChannelUnchanged

\* A delivered closed frame ends the loop; the listener, called synchronously,
\* may have cancelled or paused in between.
PumpCloses ==
  /\ pump = "closing"
  /\ FinishPump(FALSE)
  /\ UNCHANGED <<read, canceller, delivered>>
  /\ ChannelUnchanged

-----------------------------------------------------------------------------
(* The Dart adapter: cancel(), from the application or from wallet.close() *)

\* Without a pump there is nothing to await.
CancelFinalizes == pump = "notStarted"

\* The first synchronous segment of cancel(): later calls share its future.
\* After a failed bridge call the handle stays and a later cancel() retries.
Cancel ==
  /\ canceller = "none"
  /\ \/ /\ BridgeCancelFails
        /\ dart' = [dart EXCEPT !.cancelRequested = TRUE]
        /\ UNCHANGED <<native, canceller>>
     \/ /\ BridgeCancelSucceeds
        /\ CancelFinalizes
        /\ canceller' = "done"
        /\ dart' = [dart EXCEPT !.cancelRequested = TRUE, !.finalized = TRUE,
                                !.nativeCancelRequested = TRUE]
        /\ native' = Disposed(native)
     \/ /\ BridgeCancelSucceeds
        /\ ~CancelFinalizes
        /\ canceller' = "joining"
        /\ dart' = [dart EXCEPT !.cancelRequested = TRUE,
                                !.nativeCancelRequested = TRUE]
        /\ native' = [native EXCEPT !.cancelled = TRUE]
  /\ UNCHANGED <<events, senderClosed, pos, read, pump, frame, delivered>>

\* It then awaits the pump.
CancelJoins ==
  /\ canceller = "joining"
  /\ pump = "done"
  /\ canceller' = "done"
  /\ UNCHANGED <<native, read, pump, frame, dart, failures, delivered>>
  /\ ChannelUnchanged

-----------------------------------------------------------------------------

NativeStep ==
  \/ EnterRead \/ ReadCancelled \/ ReadSkips \/ ReadEvent
  \/ ReadProjectionFails \/ ReadLagged \/ ReadClosed

PumpStep == PumpLoop \/ PumpReceives \/ PumpDelivers \/ PumpCloses

Next ==
  \/ \E reported \in BOOLEAN : Publish(reported)
  \/ CloseSender
  \/ NativeStep
  \/ Listen \/ Pause \/ Resume
  \/ PumpStep
  \/ Cancel \/ CancelJoins

Spec == Init /\ [][Next]_vars

\* The native read is polled, the isolate runs the continuations of completed
\* futures, and nothing forces a listener to resume.
FairSpec ==
  Spec /\ WF_vars(NativeStep) /\ WF_vars(PumpStep) /\ WF_vars(CancelJoins)

-----------------------------------------------------------------------------
(* Properties                                                              *)

\* The fields have the types of their declarations.
TypeOK ==
  /\ events \in Seq(BOOLEAN) /\ Len(events) <= MaxEvents
  /\ senderClosed \in BOOLEAN
  /\ pos \in Position
  /\ native \in Cursor
  /\ read \in {"none", "entering", "waiting", "frame", "ended", "failed"}
  /\ pump \in {"notStarted", "loop", "reading", "holding", "closing", "done"}
  /\ frame \in Frame
  /\ dart \in Adapter
  /\ canceller \in {"none", "joining", "done"}
  /\ failures \in 0 .. MaxCancelFailures
  /\ delivered \in Seq(Frame)

Covered(f, n) == f.first <= n /\ n <= f.last

\* While the subscription is live, every reported event the receiver has
\* passed was delivered, is in hand, or lies in the gap of a degraded frame:
\* nothing is lost silently.  Frames reach the listener in upstream order, each
\* event at most once, a closed frame last, and the native numbering never
\* disagrees with Dart's, whose continuity check would end a healthy stream.
\* A stream that ends although nobody cancelled it has said why, by a closed
\* frame or by an error.
FramesFaithful ==
  /\ TypeOK
  /\ ~dart.cancelRequested /\ read # "failed" =>
       \A n \in 1 .. pos :
         events[n] => \/ \E i \in 1 .. Len(delivered) : Covered(delivered[i], n)
                      \/ Covered(frame, n)
  /\ \A i, j \in 1 .. Len(delivered) : i < j =>
       /\ delivered[i].last < delivered[j].first
       /\ delivered[i].kind # "closed"
  /\ pump = "holding" => frame.sequence = dart.expectedSequence
  /\ dart.finalized /\ canceller = "none" /\ failures = 0 =>
       \/ dart.failed
       \/ delivered # <<>> /\ delivered[Len(delivered)].kind = "closed"

\* Nothing is delivered once cancel() was called, not even the frame the
\* paused pump was holding, and the native handle is never disposed under a
\* read in flight.
CancelIsFinal ==
  [][/\ dart.cancelRequested => delivered' = delivered
     /\ native'.disposed => read' = "none"]_vars

\* A cancellation that reached the native side completes: the read wakes up,
\* a paused pump wakes up, and the handle is disposed.  An unexpectedly closed
\* channel ends the subscription too, unless the listener stays paused.
SubscriptionEnds ==
  /\ dart.nativeCancelRequested ~> (dart.finalized /\ canceller # "joining")
  /\ senderClosed /\ pump # "notStarted" ~> dart.finalized \/ dart.paused
=============================================================================
