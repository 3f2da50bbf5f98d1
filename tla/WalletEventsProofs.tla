------------------------- MODULE WalletEventsProofs -------------------------
(***************************************************************************)
(* The frames of a subscription are faithful and its cancellation final,   *)
(* for channels of any capacity and streams of any length; a business      *)
(* event shows what the disclosure of its subscription admits, for any     *)
(* events, cursors and readers.                                            *)
(*                                                                         *)
(* FramesFaithful speaks of what was delivered and of what the pump holds. *)
(* It is not inductive: whether the next frame continues the last one      *)
(* depends on where the receiver stands in the channel and on the numbers  *)
(* both sides count (InStep), whether a frame can come after a closed one  *)
(* on where the pump is then (Closing), and why a stream ended on who can  *)
(* have cancelled it (Ending).  DisclosureKept needs that the last frame   *)
(* is the projection of its event for its own cursor (ShownProjected).     *)
(***************************************************************************)
EXTENDS WalletEvents, TLAPS

\* A leaf that takes the provers longer than their five seconds may take thirty.
USE SMTT(30), ZenonT(30)

-----------------------------------------------------------------------------
(* The inductive invariant                                                 *)

\* The native read has put a frame into the pump's hands.
InHand == read = "frame" \/ pump = "holding"

\* The receiver is inside the channel; the pump awaits the one read there is.
Reading ==
  /\ pos <= Len(events)
  /\ read = "none" <=> pump # "reading"
  /\ ~InHand => frame = NoFrame
  /\ InHand => frame.kind # "none" /\ frame.last = pos

\* What was delivered ends where the frame in hand, or the next one, begins.
Ordered ==
  /\ \A i \in 1 .. Len(delivered) : delivered[i].last <= pos
  /\ InHand => \A i \in 1 .. Len(delivered) : delivered[i].last < frame.first
  /\ \A i, j \in 1 .. Len(delivered) : i < j =>
       /\ delivered[i].last < delivered[j].first
       /\ delivered[i].kind # "closed"

\* Every reported event the receiver has passed is accounted for.
Accounted ==
  ~dart.cancelRequested /\ read # "failed" =>
    \A n \in 1 .. pos :
      events[n] => \/ \E i \in 1 .. Len(delivered) : Covered(delivered[i], n)
                   \/ Covered(frame, n)

\* Both sides count the same frames, until the pump drops one at its end.
InStep ==
  pump # "done" =>
    /\ ~InHand => native.next_sequence = dart.expectedSequence
    /\ InHand => /\ frame.sequence = dart.expectedSequence
                 /\ native.next_sequence = dart.expectedSequence + 1

\* Only the last frame says closed, and only the end of the pump follows it.
Closing ==
  /\ \A i \in 1 .. Len(delivered) :
       delivered[i].kind = "closed" => pump \in {"closing", "done"}
  /\ pump = "closing" => /\ delivered # <<>>
                         /\ delivered[Len(delivered)].kind = "closed"
  /\ native.terminated => \/ read = "failed" \/ pump \in {"closing", "done"}
                          \/ InHand /\ frame.kind = "closed"

\* Who can have cancelled, and what a stream that nobody cancelled ended with.
Ending ==
  /\ native.cancelled \/ native.disposed \/ dart.finalized => dart.cancelRequested
  /\ read = "ended" => dart.cancelRequested
  /\ dart.finalized \/ native.disposed => pump \in {"notStarted", "done"}
  /\ pump = "done" => dart.cancelRequested
  /\ dart.cancelRequested /\ canceller = "none" /\ failures = 0 => pump = "done"
  /\ dart.finalized /\ canceller = "none" /\ failures = 0 =>
       \/ dart.failed
       \/ delivered # <<>> /\ delivered[Len(delivered)].kind = "closed"

IInv ==
  TypeOK /\ Reading /\ Ordered /\ Accounted /\ InStep /\ Closing /\ Ending

-----------------------------------------------------------------------------
(* What the steps do to the records                                        *)

\* A frame in hand has all its fields; no frame covers no event.
LEMMA FrameFields ==
  ASSUME TypeOK
  PROVE  /\ frame.first \in Nat /\ frame.last \in Nat /\ frame.sequence \in 0 .. MaxSequence
         /\ pos \in Nat /\ Len(events) \in Nat /\ Len(delivered) \in Nat
         /\ \A i \in 1 .. Len(delivered) : /\ delivered[i] \in Frame
                                           /\ delivered[i].first \in Nat
                                           /\ delivered[i].last \in Nat
<1>1. frame \in Frame /\ pos \in 0 .. MaxEvents
  BY Zenon DEF TypeOK, Position
<1>2. /\ frame.first \in 0 .. MaxEvents + 1 /\ frame.last \in 0 .. MaxEvents
      /\ frame.sequence \in 0 .. MaxSequence
  BY <1>1, Zenon DEF Frame, Position
<1>3. Len(events) \in Nat /\ Len(delivered) \in Nat
  BY DEF TypeOK
<1>4. ASSUME NEW i \in 1 .. Len(delivered)
      PROVE  delivered[i] \in Frame
  BY DEF TypeOK
<1>5. ASSUME NEW f \in Frame
      PROVE  f.first \in 0 .. MaxEvents + 1 /\ f.last \in 0 .. MaxEvents
  BY Zenon DEF Frame, Position
<1>6. 0 .. MaxEvents \subseteq Nat /\ 0 .. MaxEvents + 1 \subseteq Nat
  BY BoundsAssumption
<1>. QED BY <1>1, <1>2, <1>3, <1>4, <1>5, <1>6, Zenon

LEMMA PositionNat == Position \subseteq Nat
BY BoundsAssumption DEF Position

LEMMA NoFrameFields ==
  /\ NoFrame \in Frame /\ NoFrame.kind = "none" /\ NoFrame.first = 0 /\ NoFrame.last = 0
  /\ \A n \in Nat \ {0} : ~Covered(NoFrame, n)
BY BoundsAssumption DEF NoFrame, Frame, Position, Covered

\* The end of the pump.
LEMMA Finished ==
  ASSUME TypeOK, NEW error \in BOOLEAN, FinishPump(error)
  PROVE  /\ pump' = "done" /\ frame' = NoFrame
         /\ native' \in Cursor /\ native'.cancelled /\ native'.disposed
         /\ dart' \in Adapter /\ dart'.cancelRequested /\ dart'.finalized
         /\ dart.failed \/ (error /\ ~dart.cancelRequested) => dart'.failed
         /\ failures' \in 0 .. MaxCancelFailures
         /\ failures' = 0 => failures = 0
<1>1. native' \in Cursor /\ native'.cancelled /\ native'.disposed
  BY Zenon DEF FinishPump, Disposed, TypeOK, Cursor
<1>2. PICK failing \in BOOLEAN :
        /\ IF failing THEN BridgeCancelFails ELSE BridgeCancelSucceeds
        /\ dart' = [dart EXCEPT
                      !.cancelRequested = TRUE,
                      !.nativeCancelRequested = ~failing,
                      !.finalized = TRUE,
                      !.failed = \/ failing /\ ~dart.finalized
                                 \/ error /\ ~dart.cancelRequested
                                 \/ dart.failed]
  BY Zenon DEF FinishPump
<1>3. /\ failures' \in 0 .. MaxCancelFailures
      /\ failures' = 0 => failures = 0
  BY <1>2, BoundsAssumption DEF TypeOK, BridgeCancelFails, BridgeCancelSucceeds
<1>4. /\ dart' \in Adapter /\ dart'.cancelRequested /\ dart'.finalized
      /\ dart.failed \/ (error /\ ~dart.cancelRequested) => dart'.failed
  <2>. DEFINE failed == \/ failing /\ ~dart.finalized
                        \/ error /\ ~dart.cancelRequested
                        \/ dart.failed
              left == ~failing
  <2>1. failed \in BOOLEAN /\ left \in BOOLEAN
    BY Zenon
  <2>2. dart' = [dart EXCEPT !.cancelRequested = TRUE, !.nativeCancelRequested = left,
                             !.finalized = TRUE, !.failed = failed]
    BY <1>2, Zenon
  <2>3. dart.failed \/ (error /\ ~dart.cancelRequested) => failed
    BY Zenon
  <2>. HIDE DEF failed, left
  <2>. QED BY <2>1, <2>2, <2>3, Zenon DEF TypeOK, Adapter
<1>. QED BY <1>1, <1>3, <1>4 DEF FinishPump

-----------------------------------------------------------------------------
(* Kinds of steps                                                          *)

\* The pump ends because somebody cancelled, because of an error, or after a
\* closed frame.
LEMMA FinishInv ==
  ASSUME IInv, NEW error \in BOOLEAN, FinishPump(error), pump # "done", read' = "none",
         UNCHANGED <<events, senderClosed, pos, canceller, delivered>>,
         dart.cancelRequested \/ error \/ pump = "closing"
  PROVE  IInv'
<1>1. /\ pump' = "done" /\ frame' = NoFrame
      /\ native' \in Cursor /\ native'.cancelled /\ native'.disposed
      /\ dart' \in Adapter /\ dart'.cancelRequested /\ dart'.finalized
      /\ dart.failed \/ (error /\ ~dart.cancelRequested) => dart'.failed
      /\ failures' \in 0 .. MaxCancelFailures
      /\ failures' = 0 => failures = 0
  BY Finished, Zenon DEF IInv
<1>2. TypeOK'
  BY <1>1, NoFrameFields, Zenon DEF IInv, TypeOK
<1>3. ~InHand'
  BY <1>1 DEF InHand
<1>4. Reading'
  BY <1>1, <1>3 DEF IInv, Reading
<1>5. Ordered'
  BY <1>3, Zenon DEF IInv, Ordered
<1>6. Accounted' /\ InStep'
  BY <1>1, Zenon DEF Accounted, InStep
<1>7. Closing'
  BY <1>1, Zenon DEF IInv, Closing
<1>8. Ending'
  BY <1>1, Zenon DEF IInv, Ending, Closing
<1>. QED BY <1>2, <1>4, <1>5, <1>6, <1>7, <1>8, Zenon DEF IInv

\* Neither the channel nor the frames change, and nobody counts or closes.
LEMMA StillInv ==
  ASSUME IInv, UNCHANGED <<events, pos, frame, delivered>>, TypeOK',
         native'.next_sequence = native.next_sequence,
         native'.terminated = native.terminated,
         dart'.expectedSequence = dart.expectedSequence,
         dart.cancelRequested => dart'.cancelRequested,
         InHand' <=> InHand,
         read' = "none" <=> pump' # "reading",
         read' = "failed" <=> read = "failed",
         pump' = "closing" <=> pump = "closing",
         pump' = "done" <=> pump = "done",
         Ending'
  PROVE  IInv'
<1>1. Reading'
  BY Zenon DEF IInv, Reading
<1>2. Ordered'
  BY Zenon DEF IInv, Ordered
<1>3. Accounted'
  BY Zenon DEF IInv, Accounted
<1>4. InStep'
  BY Zenon DEF IInv, InStep
<1>5. Closing'
  BY Zenon DEF IInv, Closing
<1>. QED BY <1>1, <1>2, <1>3, <1>4, <1>5, Zenon DEF IInv

\* A read yields the next frame: it begins behind the receiver's old position
\* and ends at its new one.
LEMMA FrameRead ==
  ASSUME IInv, read = "waiting", read' = "frame", TypeOK',
         frame'.kind # "none", frame'.first = pos + 1, frame'.last = pos',
         frame'.sequence = native.next_sequence, pos <= pos', pos' <= Len(events),
         native'.next_sequence = native.next_sequence + 1,
         native'.cancelled = native.cancelled, native'.disposed = native.disposed,
         native'.terminated => native.terminated \/ frame'.kind = "closed",
         UNCHANGED <<events, pump, dart, canceller, failures, delivered>>
  PROVE  IInv'
<1>. USE DEF IInv
<1>1. pump = "reading" /\ ~InHand /\ frame = NoFrame /\ InHand'
  BY Zenon DEF Reading, InHand
<1>2. ~native.terminated
  BY <1>1, Zenon DEF Closing
<1>3. Reading'
  BY <1>1, Zenon DEF Reading
<1>4. pos \in Nat /\ pos' \in Nat /\ \A i \in 1 .. Len(delivered) : delivered[i].last \in Nat
  BY FrameFields, PositionNat, Zenon DEF TypeOK
<1>5. Ordered'
  <2>1. \A i \in 1 .. Len(delivered) : delivered[i].last <= pos' /\ delivered[i].last < pos + 1
    BY <1>4 DEF Ordered
  <2>. QED BY <2>1, Zenon DEF Ordered
<1>6. Accounted'
  <2>1. \A n \in 1 .. pos' : n \in 1 .. pos \/ (pos + 1 <= n /\ n <= pos')
    BY <1>4
  <2>2. \A n \in 1 .. pos : n \in Nat \ {0}
    BY <1>4
  <2>3. \A n \in 1 .. pos : ~Covered(frame, n)
    BY <1>1, <2>2, NoFrameFields, Zenon
  <2>. QED BY <2>1, <2>3, Zenon DEF Accounted, Covered
<1>7. InStep'
  BY <1>1, Zenon DEF InStep
<1>8. Closing'
  BY <1>1, <1>2, Zenon DEF Closing
<1>9. Ending'
  BY Zenon DEF Ending
<1>. QED BY <1>3, <1>5, <1>6, <1>7, <1>8, <1>9, Zenon

\* A read fails, maybe after taking an event off the channel.
LEMMA FailedRead ==
  ASSUME IInv, read = "waiting", read' = "failed", TypeOK', pos <= pos',
         pos' <= Len(events),
         native'.next_sequence = native.next_sequence,
         native'.cancelled = native.cancelled, native'.disposed = native.disposed,
         UNCHANGED <<events, pump, frame, dart, canceller, failures, delivered>>
  PROVE  IInv'
<1>. USE DEF IInv
<1>1. pump = "reading" /\ ~InHand /\ frame = NoFrame /\ ~InHand'
  BY Zenon DEF Reading, InHand
<1>2. Reading'
  BY <1>1, Zenon DEF Reading
<1>3. Ordered'
  <2>1. pos \in Nat /\ pos' \in Nat /\ \A i \in 1 .. Len(delivered) : delivered[i].last \in Nat
    BY FrameFields, PositionNat, Zenon DEF TypeOK
  <2>2. \A i \in 1 .. Len(delivered) : delivered[i].last <= pos'
    BY <2>1 DEF Ordered
  <2>. QED BY <1>1, <2>2, Zenon DEF Ordered
<1>4. Accounted'
  BY Zenon DEF Accounted
<1>5. InStep'
  BY <1>1, Zenon DEF InStep
<1>6. Closing'
  BY Zenon DEF Closing
<1>7. Ending'
  BY Zenon DEF Ending
<1>. QED BY <1>2, <1>3, <1>4, <1>5, <1>6, <1>7, Zenon

\* The numbering of next_frame, or its exhaustion.
LEMMA Numbered ==
  ASSUME IInv, NEW kind \in {"event", "degraded", "closed"},
         NEW last \in Position, NEW n \in Cursor, NextFrame(kind, pos + 1, last, n),
         n.next_sequence = native.next_sequence, n.cancelled = native.cancelled,
         n.disposed = native.disposed, n.terminated => native.terminated \/ kind = "closed",
         read = "waiting", pos' = last, pos <= last, last <= Len(events),
         UNCHANGED <<events, senderClosed, pump, dart, canceller, failures, delivered>>
  PROVE  IInv'
<1>0. native.next_sequence \in 0 .. MaxSequence + 1 /\ pos \in 0 .. MaxEvents
  BY Zenon DEF IInv, TypeOK, Cursor, Position
<1>1. CASE native.next_sequence < MaxSequence
  <2>. DEFINE f == [kind |-> kind, first |-> pos + 1, last |-> last,
                    sequence |-> native.next_sequence]
              m == [n EXCEPT !.next_sequence = @ + 1]
  <2>1. frame' = f /\ native' = m /\ read' = "frame"
    BY <1>1, Zenon DEF NextFrame
  <2>2. pos + 1 \in 0 .. MaxEvents + 1 /\ native.next_sequence \in 0 .. MaxSequence
        /\ native.next_sequence + 1 \in 0 .. MaxSequence + 1
    BY <1>0, <1>1, BoundsAssumption
  <2>3. /\ f \in Frame /\ f.kind = kind /\ f.first = pos + 1 /\ f.last = last
        /\ f.sequence = native.next_sequence
    BY <2>2, Zenon DEF Frame
  <2>4. /\ m \in Cursor /\ m.next_sequence = native.next_sequence + 1
        /\ m.cancelled = n.cancelled /\ m.disposed = n.disposed /\ m.terminated = n.terminated
    BY <2>2, Zenon DEF Cursor
  <2>. HIDE DEF f, m
  <2>5. TypeOK'
    BY <2>1, <2>3, <2>4, Zenon DEF IInv, TypeOK
  <2>. QED BY <2>1, <2>3, <2>4, <2>5, FrameRead, Zenon
<1>2. CASE ~(native.next_sequence < MaxSequence)
  <2>1. native' = n /\ read' = "failed" /\ frame' = frame
    BY <1>2, Zenon DEF NextFrame
  <2>2. TypeOK'
    BY <2>1, Zenon DEF IInv, TypeOK
  <2>. QED BY <2>1, <2>2, FailedRead, Zenon
<1>. QED BY <1>1, <1>2, Zenon

-----------------------------------------------------------------------------
(* Every action preserves the invariant                                    *)

LEMMA PublishInv ==
  ASSUME IInv, NEW reported \in BOOLEAN, Publish(reported)
  PROVE  IInv'
<1>. USE DEF IInv
<1>1. /\ events' \in Seq(BOOLEAN) /\ Len(events') = Len(events) + 1 /\ Len(events') <= MaxEvents
      /\ \A n \in 1 .. Len(events) : events'[n] = events[n]
  BY BoundsAssumption DEF Publish, TypeOK
<1>2. TypeOK'
  BY <1>1, Zenon DEF TypeOK, Publish
<1>3. pos <= Len(events') /\ \A n \in 1 .. pos : n \in 1 .. Len(events)
  BY <1>1, FrameFields DEF Reading
<1>4. Reading'
  BY <1>3, Zenon DEF Reading, Publish, InHand
<1>5. Ordered'
  BY Zenon DEF Ordered, Publish, InHand
<1>6. Accounted'
  BY <1>1, <1>3, Zenon DEF Accounted, Publish
<1>7. InStep' /\ Closing'
  BY Zenon DEF InStep, Closing, Publish, InHand
<1>8. Ending'
  BY Zenon DEF Ending, Publish
<1>. QED BY <1>2, <1>4, <1>5, <1>6, <1>7, <1>8, Zenon

LEMMA CloseSenderInv ==
  ASSUME IInv, CloseSender
  PROVE  IInv'
<1>1. TypeOK'
  BY Zenon DEF CloseSender, IInv, TypeOK
<1>2. Ending' /\ (InHand' <=> InHand) /\ Reading
  BY Zenon DEF CloseSender, IInv, Ending, InHand
<1>. QED BY <1>1, <1>2, StillInv, Zenon DEF CloseSender, Reading

LEMMA EnterReadInv ==
  ASSUME IInv, EnterRead
  PROVE  IInv'
<1>1. read' \in {"ended", "waiting"} /\ pump = "reading"
  BY Zenon DEF EnterRead, IInv, Reading
<1>2. TypeOK'
  BY <1>1, Zenon DEF EnterRead, IInv, TypeOK
<1>3. ~native.terminated
  BY <1>1, Zenon DEF EnterRead, IInv, Closing, InHand
<1>4. Ending'
  BY <1>3, Zenon DEF EnterRead, IInv, Ending
<1>5. InHand' <=> InHand
  BY <1>1, Zenon DEF EnterRead, InHand
<1>. QED BY <1>1, <1>2, <1>4, <1>5, StillInv, Zenon DEF EnterRead

LEMMA ReadCancelledInv ==
  ASSUME IInv, ReadCancelled
  PROVE  IInv'
<1>1. TypeOK'
  BY Zenon DEF ReadCancelled, IInv, TypeOK
<1>2. Ending' /\ (InHand' <=> InHand) /\ pump = "reading"
  BY Zenon DEF ReadCancelled, IInv, Ending, InHand, Reading
<1>. QED BY <1>1, <1>2, StillInv, Zenon DEF ReadCancelled

\* Where the receiver stands when it takes the next event.
LEMMA NextPosition ==
  ASSUME TypeOK, pos < Len(events)
  PROVE  pos + 1 \in Position /\ pos <= pos + 1 /\ pos + 1 <= Len(events)
BY BoundsAssumption DEF TypeOK, Position

LEMMA ReadSkipsInv ==
  ASSUME IInv, ReadSkips
  PROVE  IInv'
<1>. USE DEF IInv
<1>0. pos + 1 \in Position /\ pos <= pos + 1 /\ pos + 1 <= Len(events)
  BY NextPosition, Zenon DEF ReadSkips
<1>1. native' = native
  BY Zenon DEF ReadSkips, SkipSequence, TypeOK, Cursor
<1>2. TypeOK'
  BY <1>0, <1>1, Zenon DEF TypeOK, ReadSkips
<1>3. pump = "reading" /\ ~InHand /\ ~InHand'
  BY Zenon DEF Reading, InHand, ReadSkips
<1>4. Reading'
  BY <1>0, <1>3, Zenon DEF Reading, ReadSkips
<1>5. Ordered'
  <2>1. \A i \in 1 .. Len(delivered) : delivered[i].last <= pos + 1
    BY FrameFields DEF Ordered
  <2>. QED BY <1>3, <2>1, Zenon DEF Ordered, ReadSkips
<1>6. Accounted'
  <2>1. \A n \in 1 .. pos + 1 : n \in 1 .. pos \/ n = pos + 1
    BY FrameFields
  <2>. QED BY <2>1, Zenon DEF Accounted, ReadSkips
<1>7. InStep' /\ Closing'
  BY <1>1, <1>3, Zenon DEF InStep, Closing, ReadSkips, InHand
<1>8. Ending'
  BY <1>1, Zenon DEF Ending, ReadSkips
<1>. QED BY <1>2, <1>4, <1>5, <1>6, <1>7, <1>8, Zenon

LEMMA ReadEventInv ==
  ASSUME IInv, ReadEvent
  PROVE  IInv'
<1>1. pos + 1 \in Position /\ pos <= pos + 1 /\ pos + 1 <= Len(events)
  BY NextPosition, Zenon DEF ReadEvent, IInv
<1>2. native \in Cursor
  BY Zenon DEF IInv, TypeOK
<1>. QED BY <1>1, <1>2, Numbered, Zenon DEF ReadEvent

LEMMA ReadProjectionFailsInv ==
  ASSUME IInv, ReadProjectionFails
  PROVE  IInv'
<1>1. pos + 1 \in Position /\ pos <= pos + 1 /\ pos + 1 <= Len(events)
  BY NextPosition, Zenon DEF ReadProjectionFails, IInv
<1>2. TypeOK'
  BY <1>1, Zenon DEF ReadProjectionFails, IInv, TypeOK
<1>. QED BY <1>1, <1>2, FailedRead, Zenon DEF ReadProjectionFails

LEMMA ReadLaggedInv ==
  ASSUME IInv, ReadLagged
  PROVE  IInv'
<1>1. Oldest \in Position /\ pos <= Oldest /\ Oldest <= Len(events)
  BY BoundsAssumption DEF ReadLagged, Oldest, IInv, TypeOK, Position
<1>2. native \in Cursor
  BY Zenon DEF IInv, TypeOK
<1>. QED BY <1>1, <1>2, Numbered, Zenon DEF ReadLagged, LagEnd

LEMMA ReadClosedInv ==
  ASSUME IInv, ReadClosed
  PROVE  IInv'
<1>. DEFINE n == [native EXCEPT !.terminated = TRUE]
<1>1. /\ n \in Cursor /\ n.next_sequence = native.next_sequence
      /\ n.cancelled = native.cancelled /\ n.disposed = native.disposed
  BY Zenon DEF IInv, TypeOK, Cursor
<1>2. pos \in Position /\ pos <= pos /\ pos <= Len(events) /\ pos' = pos
  BY DEF ReadClosed, IInv, TypeOK, Position
<1>3. NextFrame("closed", pos + 1, pos, n)
  BY Zenon DEF ReadClosed
<1>. HIDE DEF n
<1>. QED BY <1>1, <1>2, <1>3, Numbered, Zenon DEF ReadClosed

LEMMA ListenInv ==
  ASSUME IInv, Listen
  PROVE  IInv'
<1>0. read = "none"
  BY Zenon DEF Listen, IInv, Reading
<1>1. CASE dart.cancelRequested /\ FinishPump(FALSE)
  BY <1>0, <1>1, FinishInv, Zenon DEF Listen, ChannelUnchanged
<1>2. CASE ~dart.cancelRequested /\ pump' = "loop" /\ UNCHANGED <<frame, dart, native, failures>>
  <2>1. TypeOK'
    BY <1>2, Zenon DEF IInv, TypeOK, Listen, ChannelUnchanged
  <2>2. Ending'
    BY <1>2, Zenon DEF IInv, Ending, Listen
  <2>3. InHand' <=> InHand
    BY <1>0, <1>2, Zenon DEF InHand, Listen
  <2>. QED BY <1>0, <1>2, <2>1, <2>2, <2>3, StillInv, Zenon DEF Listen, ChannelUnchanged
<1>. QED BY <1>1, <1>2, Zenon DEF Listen

\* Pausing and resuming.
LEMMA PausedInv ==
  ASSUME IInv, NEW paused \in BOOLEAN, dart' = [dart EXCEPT !.paused = paused],
         UNCHANGED <<native, read, pump, frame, canceller, failures, delivered>>,
         ChannelUnchanged
  PROVE  IInv'
<1>1. /\ dart' \in Adapter /\ dart'.cancelRequested = dart.cancelRequested
      /\ dart'.finalized = dart.finalized /\ dart'.failed = dart.failed
      /\ dart'.expectedSequence = dart.expectedSequence
  BY Zenon DEF IInv, TypeOK, Adapter
<1>2. TypeOK'
  BY <1>1, Zenon DEF IInv, TypeOK, ChannelUnchanged
<1>3. Ending' /\ (InHand' <=> InHand) /\ Reading
  BY <1>1, Zenon DEF IInv, Ending, InHand
<1>. QED BY <1>1, <1>2, <1>3, StillInv, Zenon DEF ChannelUnchanged, Reading

LEMMA PumpLoopInv ==
  ASSUME IInv, PumpLoop
  PROVE  IInv'
<1>0. read = "none"
  BY Zenon DEF PumpLoop, IInv, Reading
<1>1. CASE dart.cancelRequested /\ FinishPump(FALSE) /\ UNCHANGED read
  BY <1>0, <1>1, FinishInv, Zenon DEF PumpLoop, ChannelUnchanged
<1>2. CASE /\ ~dart.cancelRequested /\ pump' = "reading" /\ read' = "entering"
           /\ UNCHANGED <<frame, dart, native, failures>>
  <2>1. TypeOK'
    BY <1>2, Zenon DEF IInv, TypeOK, PumpLoop, ChannelUnchanged
  <2>2. Ending'
    BY <1>2, Zenon DEF IInv, Ending, PumpLoop
  <2>3. InHand' <=> InHand
    BY <1>0, <1>2, Zenon DEF InHand, PumpLoop
  <2>. QED BY <1>0, <1>2, <2>1, <2>2, <2>3, StillInv, Zenon DEF PumpLoop, ChannelUnchanged
<1>. QED BY <1>1, <1>2, Zenon DEF PumpLoop

LEMMA PumpReceivesInv ==
  ASSUME IInv, PumpReceives
  PROVE  IInv'
<1>1. CASE read = "failed" /\ FinishPump(TRUE)
  BY <1>1, FinishInv, Zenon DEF PumpReceives, ChannelUnchanged
<1>2. CASE /\ read = "ended" \/ (read = "frame" /\ dart.cancelRequested)
           /\ FinishPump(FALSE)
  <2>1. dart.cancelRequested
    BY <1>2, Zenon DEF IInv, Ending
  <2>. QED BY <1>2, <2>1, FinishInv, Zenon DEF PumpReceives, ChannelUnchanged
<1>3. CASE /\ read = "frame" /\ ~dart.cancelRequested /\ pump' = "holding"
           /\ UNCHANGED <<frame, dart, native, failures>>
  <2>1. TypeOK'
    BY <1>3, Zenon DEF IInv, TypeOK, PumpReceives, ChannelUnchanged
  <2>2. Ending'
    BY <1>3, Zenon DEF IInv, Ending, PumpReceives
  <2>3. InHand' <=> InHand
    BY <1>3, Zenon DEF InHand
  <2>. QED BY <1>3, <2>1, <2>2, <2>3, StillInv, Zenon DEF PumpReceives, ChannelUnchanged
<1>. QED BY <1>1, <1>2, <1>3, Zenon DEF PumpReceives

\* The listener gets the frame in hand.
LEMMA FrameDelivered ==
  ASSUME IInv, pump = "holding", ~dart.cancelRequested,
         frame.sequence = dart.expectedSequence,
         delivered' = Append(delivered, frame), frame' = NoFrame,
         pump' = IF frame.kind = "closed" THEN "closing" ELSE "loop",
         dart' = [dart EXCEPT !.expectedSequence = @ + 1],
         UNCHANGED <<events, senderClosed, pos, native, read, canceller, failures>>
  PROVE  IInv'
<1>. USE DEF IInv
<1>1. /\ read = "none" /\ InHand /\ ~InHand' /\ pump' \in {"closing", "loop"}
      /\ frame.last = pos /\ frame.kind # "none"
      /\ pump' = "closing" <=> frame.kind = "closed"
  BY Zenon DEF Reading, InHand
<1>2. /\ delivered' \in Seq(Frame) /\ Len(delivered') = Len(delivered) + 1
      /\ \A i \in 1 .. Len(delivered) : delivered'[i] = delivered[i]
      /\ delivered'[Len(delivered')] = frame
  BY DEF TypeOK
<1>3. /\ 1 .. Len(delivered') = 1 .. Len(delivered) \cup {Len(delivered')}
      /\ Len(delivered') \notin 1 .. Len(delivered)
      /\ \A i, j \in 1 .. Len(delivered') : i < j => i \in 1 .. Len(delivered)
  BY <1>2, FrameFields
<1>4. delivered' # <<>>
  BY <1>2, FrameFields
<1>5. /\ dart' \in Adapter /\ dart'.cancelRequested = dart.cancelRequested
      /\ dart'.finalized = dart.finalized /\ dart'.failed = dart.failed
      /\ dart'.expectedSequence = dart.expectedSequence + 1
  <2>1. dart.expectedSequence + 1 \in 1 .. MaxSequence + 1
    BY FrameFields, BoundsAssumption
  <2>. QED BY <2>1, Zenon DEF TypeOK, Adapter
<1>6. TypeOK'
  BY <1>1, <1>2, <1>5, NoFrameFields, Zenon DEF TypeOK
<1>7. Reading'
  BY <1>1, Zenon DEF Reading
<1>8. Ordered'
  <2>1. frame.last <= pos
    BY <1>1, FrameFields
  <2>2. \A i \in 1 .. Len(delivered) : delivered[i].kind # "closed"
    BY Zenon DEF Closing
  <2>. QED BY <1>1, <1>2, <1>3, <2>1, <2>2, Zenon DEF Ordered
<1>9. Accounted'
  BY <1>1, <1>2, <1>3, Zenon DEF Accounted
<1>10. InStep'
  BY <1>1, <1>5, Zenon DEF InStep
<1>11. Closing'
  <2>1. \A i \in 1 .. Len(delivered) : delivered[i].kind # "closed"
    BY Zenon DEF Closing
  <2>2. native.terminated => frame.kind = "closed"
    BY <1>1, Zenon DEF Closing
  <2>. QED BY <1>1, <1>2, <1>3, <1>4, <2>1, <2>2, Zenon DEF Closing
<1>12. Ending'
  BY <1>1, <1>5, Zenon DEF Ending
<1>. QED BY <1>6, <1>7, <1>8, <1>9, <1>10, <1>11, <1>12, Zenon

LEMMA PumpDeliversInv ==
  ASSUME IInv, PumpDelivers
  PROVE  IInv'
<1>0. read = "none" /\ frame.sequence = dart.expectedSequence
  BY Zenon DEF PumpDelivers, IInv, Reading, InStep, InHand
<1>1. CASE Discards /\ FinishPump(~Discards) /\ UNCHANGED delivered
  <2>1. (~Discards) \in BOOLEAN /\ dart.cancelRequested
    BY <1>1, Zenon DEF Discards
  <2>. QED BY <1>0, <1>1, <2>1, FinishInv, Zenon DEF PumpDelivers, ChannelUnchanged
<1>2. CASE ~Discards
  BY <1>0, <1>2, FrameDelivered, Zenon DEF PumpDelivers, ChannelUnchanged, Discards
<1>. QED BY <1>0, <1>1, <1>2, Zenon DEF PumpDelivers

LEMMA PumpClosesInv ==
  ASSUME IInv, PumpCloses
  PROVE  IInv'
<1>1. read = "none"
  BY Zenon DEF PumpCloses, IInv, Reading
<1>. QED BY <1>1, FinishInv, Zenon DEF PumpCloses, ChannelUnchanged

\* The synchronous part of cancel(): a cancellation request, at least.
LEMMA CancelEffect ==
  ASSUME TypeOK, Cancel
  PROVE  /\ dart' \in Adapter /\ dart'.cancelRequested
         /\ dart'.expectedSequence = dart.expectedSequence
         /\ native' \in Cursor /\ native'.next_sequence = native.next_sequence
         /\ native'.terminated = native.terminated
         /\ canceller' \in {"none", "joining", "done"}
         /\ failures' \in 0 .. MaxCancelFailures
         /\ canceller' = "none" => failures' # 0
         /\ dart'.finalized \/ native'.disposed =>
              dart.finalized \/ native.disposed \/ pump = "notStarted"
<1>1. CASE /\ BridgeCancelFails /\ dart' = [dart EXCEPT !.cancelRequested = TRUE]
           /\ UNCHANGED <<native, canceller>>
  <2>1. failures' \in 0 .. MaxCancelFailures /\ failures' # 0
    BY <1>1, BoundsAssumption DEF BridgeCancelFails, TypeOK
  <2>2. /\ dart' \in Adapter /\ dart'.cancelRequested /\ dart'.finalized = dart.finalized
        /\ dart'.expectedSequence = dart.expectedSequence
    BY <1>1, Zenon DEF TypeOK, Adapter
  <2>. QED BY <1>1, <2>1, <2>2, Zenon DEF TypeOK
<1>2. CASE /\ BridgeCancelSucceeds /\ CancelFinalizes /\ canceller' = "done"
           /\ dart' = [dart EXCEPT !.cancelRequested = TRUE, !.finalized = TRUE,
                                   !.nativeCancelRequested = TRUE]
           /\ native' = Disposed(native)
  <2>1. /\ dart' \in Adapter /\ dart'.cancelRequested
        /\ dart'.expectedSequence = dart.expectedSequence
    BY <1>2, Zenon DEF TypeOK, Adapter
  <2>2. /\ native' \in Cursor /\ native'.next_sequence = native.next_sequence
        /\ native'.terminated = native.terminated
    BY <1>2, Zenon DEF TypeOK, Cursor, Disposed
  <2>. QED BY <1>2, <2>1, <2>2, Zenon DEF TypeOK, BridgeCancelSucceeds, CancelFinalizes
<1>3. CASE /\ BridgeCancelSucceeds /\ ~CancelFinalizes /\ canceller' = "joining"
           /\ dart' = [dart EXCEPT !.cancelRequested = TRUE, !.nativeCancelRequested = TRUE]
           /\ native' = [native EXCEPT !.cancelled = TRUE]
  <2>1. /\ dart' \in Adapter /\ dart'.cancelRequested /\ dart'.finalized = dart.finalized
        /\ dart'.expectedSequence = dart.expectedSequence
    BY <1>3, Zenon DEF TypeOK, Adapter
  <2>2. /\ native' \in Cursor /\ native'.next_sequence = native.next_sequence
        /\ native'.terminated = native.terminated /\ native'.disposed = native.disposed
    BY <1>3, Zenon DEF TypeOK, Cursor
  <2>. QED BY <1>3, <2>1, <2>2, Zenon DEF TypeOK, BridgeCancelSucceeds
<1>. QED BY <1>1, <1>2, <1>3, Zenon DEF Cancel

LEMMA CancelInv ==
  ASSUME IInv, Cancel
  PROVE  IInv'
<1>1. /\ dart' \in Adapter /\ dart'.cancelRequested
      /\ dart'.expectedSequence = dart.expectedSequence
      /\ native' \in Cursor /\ native'.next_sequence = native.next_sequence
      /\ native'.terminated = native.terminated
      /\ canceller' \in {"none", "joining", "done"}
      /\ failures' \in 0 .. MaxCancelFailures
      /\ canceller' = "none" => failures' # 0
      /\ dart'.finalized \/ native'.disposed =>
           dart.finalized \/ native.disposed \/ pump = "notStarted"
  BY CancelEffect, Zenon DEF IInv
<1>2. UNCHANGED <<events, senderClosed, pos, read, pump, frame, delivered>>
  BY Zenon DEF Cancel
<1>3. TypeOK'
  BY <1>1, <1>2, Zenon DEF IInv, TypeOK
<1>4. Ending' /\ (InHand' <=> InHand) /\ Reading
  BY <1>1, <1>2, Zenon DEF IInv, Ending, InHand
<1>. QED BY <1>1, <1>2, <1>3, <1>4, StillInv, Zenon DEF Reading

LEMMA CancelJoinsInv ==
  ASSUME IInv, CancelJoins
  PROVE  IInv'
<1>1. TypeOK'
  BY Zenon DEF CancelJoins, IInv, TypeOK, ChannelUnchanged
<1>2. Ending' /\ (InHand' <=> InHand) /\ Reading
  BY Zenon DEF CancelJoins, IInv, Ending, InHand
<1>. QED BY <1>1, <1>2, StillInv, Zenon DEF CancelJoins, ChannelUnchanged, Reading

-----------------------------------------------------------------------------
(* The theorems                                                            *)

LEMMA InitInv == Init => IInv
<1>. SUFFICES ASSUME Init PROVE IInv
  OBVIOUS
<1>1. TypeOK
  <2>1. 0 \in Position /\ 0 \in 0 .. MaxCancelFailures /\ 0 <= MaxEvents
    BY BoundsAssumption DEF Position
  <2>2. 1 \in 0 .. MaxSequence + 1 /\ 1 \in 1 .. MaxSequence + 1
    BY BoundsAssumption
  <2>3. native \in Cursor /\ dart \in Adapter
    BY <2>2, Zenon DEF Init, Cursor, Adapter
  <2>4. events \in Seq(BOOLEAN) /\ Len(events) = 0 /\ delivered \in Seq(Frame)
    BY DEF Init
  <2>. QED BY <2>1, <2>3, <2>4, NoFrameFields, Zenon DEF Init, TypeOK
<1>2. Reading /\ InStep /\ Ending
  BY DEF Init, Reading, InStep, Ending, InHand
<1>3. Ordered /\ Accounted /\ Closing
  BY DEF Init, Ordered, Accounted, Closing, InHand
<1>. QED BY <1>1, <1>2, <1>3, Zenon DEF IInv

LEMMA NextInv == IInv /\ [Next]_vars => IInv'
<1>. SUFFICES ASSUME IInv, [Next]_vars PROVE IInv'
  OBVIOUS
<1>1. CASE NativeStep
  BY <1>1, EnterReadInv, ReadCancelledInv, ReadSkipsInv, ReadEventInv,
     ReadProjectionFailsInv, ReadLaggedInv, ReadClosedInv, Zenon DEF NativeStep
<1>2. CASE PumpStep
  BY <1>2, PumpLoopInv, PumpReceivesInv, PumpDeliversInv, PumpClosesInv, Zenon DEF PumpStep
<1>3. CASE Listen \/ Pause \/ Resume
  BY <1>3, ListenInv, PausedInv, Zenon DEF Pause, Resume
<1>4. CASE Cancel \/ CancelJoins \/ CloseSender \/ \E reported \in BOOLEAN : Publish(reported)
  BY <1>4, CancelInv, CancelJoinsInv, CloseSenderInv, PublishInv, Zenon
<1>5. CASE UNCHANGED vars
  BY <1>5, Zenon DEF vars, IInv, TypeOK, Reading, Ordered, Accounted, InStep, Closing,
     Ending, InHand
<1>. QED BY <1>1, <1>2, <1>3, <1>4, <1>5, Zenon DEF Next

LEMMA IInvHolds == Spec => []IInv
BY InitInv, NextInv, PTL DEF Spec

\* No reported event is lost silently, frames reach the listener in order and
\* at most once with a closed frame last, the two numberings agree, and a
\* stream nobody cancelled says why it ended: the cursor's next_event and the
\* adapter's pump together, whatever the channel's capacity.
THEOREM SubscriptionFaithful == Spec => []FramesFaithful
<1>1. IInv => FramesFaithful
  BY Zenon DEF IInv, FramesFaithful, Accounted, Ordered, InStep, InHand, Ending
<1>. QED BY <1>1, IInvHolds, PTL

\* After cancel() nothing more is delivered, and the native handle is never
\* disposed while a read is in flight.
THEOREM CancellationFinal == Spec => CancelIsFinal
<1>. DEFINE Final == /\ dart.cancelRequested => delivered' = delivered
                     /\ native'.disposed => read' = "none"
<1>1. IInv /\ IInv' /\ [Next]_vars => [Final]_vars
  <2>. SUFFICES ASSUME IInv, IInv', Next PROVE Final
    BY Zenon
  <2>1. native'.disposed => read' = "none"
    BY Zenon DEF IInv, Ending, Reading
  <2>2. dart.cancelRequested => delivered' = delivered
    BY Zenon DEF Next, NativeStep, PumpStep, Publish, CloseSender, EnterRead, ReadCancelled,
       ReadSkips, ReadEvent, ReadProjectionFails, ReadLagged, ReadClosed, Listen, Pause,
       Resume, PumpLoop, PumpReceives, PumpDelivers, PumpCloses, Cancel, CancelJoins, Discards
  <2>. QED BY <2>1, <2>2, Zenon
<1>. QED BY <1>1, IInvHolds, NextInv, PTL DEF Spec, CancelIsFinal

-----------------------------------------------------------------------------
(* Business events: what a frame discloses                                 *)

\* One piece of extra data.
LEMMA ExtraDataShows ==
  ASSUME NEW value, NEW d \in Cursors!Disclosure
  PROVE  Cursors!Shows(Cursors!ExtraData(value, d), value, d)
BY Zenon DEF Cursors!Shows, Cursors!ExtraData, Cursors!PayloadKind, Cursors!Disclosure

\* The projection of an entry keeps its type and projects its extra data in
\* place, whatever the type.
LEMMA EntryDiscloses ==
  ASSUME NEW entry, Cursors!IsEntry(entry), NEW d \in Cursors!Disclosure
  PROVE  Cursors!Discloses(Cursors!EntryData(entry, d), entry, d)
<1>. DEFINE shown_entry == Cursors!EntryData(entry, d)
            piece(x) == [j \in DOMAIN x |-> Cursors!ExtraData(x[j], d)]
<1>1. ASSUME NEW x
      PROVE  /\ DOMAIN piece(x) = DOMAIN x
             /\ \A j \in DOMAIN piece(x) : Cursors!Shows(piece(x)[j], x[j], d)
  BY ExtraDataShows, Zenon
<1>2. CASE entry.type \in Cursors!TransferTypes
  <2>. DEFINE o == [i \in DOMAIN entry.transfers |-> entry.transfers[i].extra]
              t == [i \in DOMAIN entry.transfers |->
                      Cursors!ProjectTransfer(entry.transfers[i], d)]
              s == [i \in DOMAIN t |-> t[i].extra]
  <2>0. entry.type \notin Cursors!BlobTypes
    BY <1>2 DEF Cursors!TransferTypes, Cursors!BlobTypes
  <2>1. shown_entry = [entry EXCEPT !.transfers = t]
    BY <1>2, <2>0, Zenon DEF Cursors!EntryData
  <2>2. shown_entry.type = entry.type /\ shown_entry.transfers = t
    BY <2>1, Zenon DEF Cursors!IsEntry
  <2>3. Cursors!ExtraDataOf(entry) = o /\ Cursors!ExtraDataOf(shown_entry) = s
    BY <1>2, <2>0, <2>2, Zenon DEF Cursors!ExtraDataOf
  <2>4. DOMAIN s = DOMAIN o
    BY Zenon
  <2>5. ASSUME NEW i \in DOMAIN s
        PROVE  s[i] = piece(o[i])
    BY <2>5, Zenon DEF Cursors!ProjectTransfer, Cursors!IsEntry
  <2>. HIDE DEF s, o, piece, shown_entry
  <2>. QED BY <1>1, <2>3, <2>4, <2>5, Zenon DEF Cursors!Discloses, shown_entry
<1>3. CASE entry.type \notin Cursors!TransferTypes /\ entry.type \in Cursors!BlobTypes
  <2>1. shown_entry = [entry EXCEPT !.data = piece(entry.data)]
    BY <1>3, Zenon DEF Cursors!EntryData
  <2>2. shown_entry.type = entry.type /\ shown_entry.data = piece(entry.data)
    BY <2>1, Zenon DEF Cursors!IsEntry
  <2>3. /\ Cursors!ExtraDataOf(entry) = <<entry.data>>
        /\ Cursors!ExtraDataOf(shown_entry) = <<piece(entry.data)>>
    BY <1>3, <2>2, Zenon DEF Cursors!ExtraDataOf
  <2>. HIDE DEF piece, shown_entry
  <2>4. /\ DOMAIN <<piece(entry.data)>> = DOMAIN <<entry.data>>
        /\ \A i \in DOMAIN <<entry.data>> : /\ <<piece(entry.data)>>[i] = piece(entry.data)
                                            /\ <<entry.data>>[i] = entry.data
    OBVIOUS
  <2>. QED BY <1>1, <2>3, <2>4, Zenon DEF Cursors!Discloses, shown_entry
<1>4. CASE entry.type \notin Cursors!TransferTypes /\ entry.type \notin Cursors!BlobTypes
  <2>1. shown_entry = entry /\ Cursors!ExtraDataOf(entry) = <<>>
    BY <1>4, Zenon DEF Cursors!EntryData, Cursors!ExtraDataOf
  <2>2. DOMAIN <<>> = {}
    OBVIOUS
  <2>. QED BY <2>1, <2>2, Zenon DEF Cursors!Discloses
<1>. QED BY <1>2, <1>3, <1>4, Zenon

IsCursor(c) ==
  /\ {"pc", "disclosure", "pos"} \subseteq DOMAIN c
  /\ c.disclosure \in Cursors!Disclosure /\ c.pos \in Nat

CursorTypeOK ==
  /\ channel \in Seq(Event)
  /\ DOMAIN sub = Subscription /\ \A s \in Subscription : IsCursor(sub[s])
  /\ DOMAIN reader = Reader /\ \A r \in Reader : {"pc", "sub"} \subseteq DOMAIN reader[r]

\* A read in progress is of an open cursor.
ReadersOpen ==
  \A r \in Reader : reader[r].pc # "idle" =>
    reader[r].sub \in Subscription /\ sub[reader[r].sub].pc # "unopened"

\* The frame last returned is the projection of its event for its own cursor.
ShownProjected ==
  shown.kind = "event" =>
    /\ shown.position \in 1 .. Len(channel)
    /\ shown.sub \in Subscription /\ sub[shown.sub].pc # "unopened"
    /\ channel[shown.position].type # "Unreported"
    /\ shown.content = Cursors!Project(channel[shown.position], sub[shown.sub].disclosure)

CursorIInv == CursorTypeOK /\ ReadersOpen /\ ShownProjected

\* A step that opens cursors but changes no open one's disclosure, and shows
\* nothing new.
LEMMA CursorStep ==
  ASSUME CursorIInv, CursorTypeOK', ReadersOpen', UNCHANGED channel,
         shown' = shown \/ shown' = Cursors!NoFrame,
         \A s \in Subscription : sub[s].pc # "unopened" =>
           sub'[s].pc # "unopened" /\ sub'[s].disclosure = sub[s].disclosure
  PROVE  CursorIInv'
<1>1. shown' = Cursors!NoFrame => shown'.kind # "event"
  BY DEF Cursors!NoFrame
<1>2. ShownProjected'
  BY <1>1, Zenon DEF CursorIInv, ShownProjected, Cursors!Project
<1>. QED BY <1>2, Zenon DEF CursorIInv

LEMMA PublishCursor ==
  ASSUME CursorIInv, NEW e \in Event, Cursors!Publish(e)
  PROVE  CursorIInv'
<1>1. /\ channel' \in Seq(Event)
      /\ \A i \in 1 .. Len(channel) : i \in 1 .. Len(channel') /\ channel'[i] = channel[i]
  BY DEF Cursors!Publish, CursorIInv, CursorTypeOK
<1>2. UNCHANGED <<sub, reader, shown>>
  BY Zenon DEF Cursors!Publish
<1>3. CursorTypeOK' /\ ReadersOpen'
  BY <1>1, <1>2, Zenon DEF CursorIInv, CursorTypeOK, ReadersOpen, IsCursor
<1>4. ShownProjected'
  BY <1>1, <1>2, Zenon DEF CursorIInv, ShownProjected, Cursors!Project
<1>. QED BY <1>3, <1>4, Zenon DEF CursorIInv

LEMMA SubscribeCursor ==
  ASSUME CursorIInv, NEW s \in Subscription, NEW d \in Cursors!Disclosure,
         Cursors!Subscribe(s, d)
  PROVE  CursorIInv'
<1>. DEFINE new == [Cursors!Unopened EXCEPT !.pc = "open", !.generation = generation + 1,
                                            !.disclosure = d, !.pos = Len(channel)]
<1>0. Len(channel) \in Nat
  BY DEF CursorIInv, CursorTypeOK
<1>1. IsCursor(new) /\ new.pc = "open"
  BY <1>0, Zenon DEF IsCursor, Cursors!Unopened
<1>2. sub' = [sub EXCEPT ![s] = new] /\ sub[s].pc = "unopened"
      /\ UNCHANGED <<channel, reader, shown>>
  BY Zenon DEF Cursors!Subscribe
<1>. HIDE DEF new
<1>3. CursorTypeOK'
  BY <1>1, <1>2, Zenon DEF CursorIInv, CursorTypeOK
<1>4. \A t \in Subscription : sub[t].pc # "unopened" =>
        sub'[t].pc # "unopened" /\ sub'[t].disclosure = sub[t].disclosure
  BY <1>1, <1>2, Zenon DEF CursorIInv, CursorTypeOK
<1>5. ReadersOpen'
  BY <1>2, <1>4, Zenon DEF CursorIInv, ReadersOpen
<1>. QED BY <1>2, <1>3, <1>4, <1>5, CursorStep, Zenon

\* A step that moves one cursor and maybe one reader.
LEMMA MovedStep ==
  ASSUME CursorIInv, NEW s \in Subscription, NEW new, sub' = [sub EXCEPT ![s] = new],
         IsCursor(new), new.disclosure = sub[s].disclosure,
         sub[s].pc # "unopened" => new.pc # "unopened",
         DOMAIN reader' = Reader,
         \A r \in Reader : \/ reader'[r] = reader[r]
                           \/ reader'[r] = Cursors!Resting
                           \/ /\ reader'[r] = [pc |-> "entered", sub |-> s]
                              /\ sub[s].pc # "unopened",
         UNCHANGED channel
  PROVE  /\ CursorTypeOK' /\ ReadersOpen'
         /\ \A t \in Subscription : sub[t].pc # "unopened" =>
              sub'[t].pc # "unopened" /\ sub'[t].disclosure = sub[t].disclosure
<1>1. \A t \in Subscription : IF t = s THEN sub'[t] = new ELSE sub'[t] = sub[t]
  BY Zenon DEF CursorIInv, CursorTypeOK
<1>2. /\ {"pc", "sub"} \subseteq DOMAIN Cursors!Resting /\ Cursors!Resting.pc = "idle"
      /\ {"pc", "sub"} \subseteq DOMAIN [pc |-> "entered", sub |-> s]
      /\ [pc |-> "entered", sub |-> s].sub = s
  BY DEF Cursors!Resting
<1>3. CursorTypeOK'
  <2>1. DOMAIN sub' = Subscription
    BY Zenon DEF CursorIInv, CursorTypeOK
  <2>2. \A t \in Subscription : IsCursor(sub'[t])
    BY <1>1, Zenon DEF CursorIInv, CursorTypeOK
  <2>3. \A r \in Reader : {"pc", "sub"} \subseteq DOMAIN reader'[r]
    BY <1>2, Zenon DEF CursorIInv, CursorTypeOK
  <2>. QED BY <2>1, <2>2, <2>3, Zenon DEF CursorIInv, CursorTypeOK
<1>4. \A t \in Subscription : sub[t].pc # "unopened" =>
        sub'[t].pc # "unopened" /\ sub'[t].disclosure = sub[t].disclosure
  BY <1>1, Zenon
<1>5. ReadersOpen'
  BY <1>2, <1>4, Zenon DEF CursorIInv, ReadersOpen
<1>. QED BY <1>3, <1>4, <1>5, Zenon

LEMMA CancelCursor ==
  ASSUME CursorIInv, NEW s \in Subscription,
         Cursors!CancelFlag(s) \/ Cursors!CancelSignal(s)
  PROVE  CursorIInv'
<1>0. IsCursor(sub[s]) /\ DOMAIN reader = Reader
  BY Zenon DEF CursorIInv, CursorTypeOK
<1>1. UNCHANGED <<channel, reader, shown>>
  BY Zenon DEF Cursors!CancelFlag, Cursors!CancelSignal
<1>2. CASE Cursors!CancelFlag(s)
  <2>. DEFINE new == [sub[s] EXCEPT !.cancelled = TRUE]
  <2>1. sub' = [sub EXCEPT ![s] = new]
    BY <1>2, Zenon DEF Cursors!CancelFlag
  <2>2. IsCursor(new) /\ new.disclosure = sub[s].disclosure /\ new.pc = sub[s].pc
    BY <1>0, Zenon DEF IsCursor
  <2>. HIDE DEF new
  <2>. QED BY <1>0, <1>1, <2>1, <2>2, MovedStep, CursorStep, Zenon
<1>3. CASE Cursors!CancelSignal(s)
  <2>. DEFINE new == [sub[s] EXCEPT !.signalled = Cursors!Signalled(s), !.pc = "cancelled"]
  <2>1. sub' = [sub EXCEPT ![s] = new]
    BY <1>3, Zenon DEF Cursors!CancelSignal, CursorIInv, CursorTypeOK
  <2>2. IsCursor(new) /\ new.disclosure = sub[s].disclosure /\ new.pc = "cancelled"
    BY <1>0, Zenon DEF IsCursor
  <2>. HIDE DEF new
  <2>. QED BY <1>0, <1>1, <2>1, <2>2, MovedStep, CursorStep, Zenon
<1>. QED BY <1>2, <1>3, Zenon

LEMMA BeginNextCursor ==
  ASSUME CursorIInv, NEW r \in Reader, NEW s \in Subscription, Cursors!BeginNext(r, s)
  PROVE  CursorIInv'
<1>. DEFINE new == [sub[s] EXCEPT !.next_in_progress = r]
<1>0. IsCursor(sub[s]) /\ DOMAIN reader = Reader
  BY Zenon DEF CursorIInv, CursorTypeOK
<1>1. /\ sub' = [sub EXCEPT ![s] = new] /\ sub[s].pc # "unopened"
      /\ reader' = [reader EXCEPT ![r] = [pc |-> "entered", sub |-> s]]
      /\ shown' = Cursors!NoFrame /\ UNCHANGED channel
  BY Zenon DEF Cursors!BeginNext
<1>2. IsCursor(new) /\ new.disclosure = sub[s].disclosure /\ new.pc = sub[s].pc
  BY <1>0, Zenon DEF IsCursor
<1>3. /\ DOMAIN reader' = Reader
      /\ \A q \in Reader : \/ reader'[q] = reader[q]
                           \/ reader'[q] = [pc |-> "entered", sub |-> s]
  BY <1>0, <1>1, Zenon
<1>. HIDE DEF new
<1>. QED BY <1>1, <1>2, <1>3, MovedStep, CursorStep, Zenon

\* A read returns, with its cursor moved or not.
LEMMA ReturnStep ==
  ASSUME CursorIInv, NEW r \in Reader, NEW s \in Subscription, NEW new,
         Cursors!Return(r, s, new), IsCursor(new), new.disclosure = sub[s].disclosure,
         new.pc = sub[s].pc, UNCHANGED channel
  PROVE  /\ CursorTypeOK' /\ ReadersOpen'
         /\ \A t \in Subscription : sub[t].pc # "unopened" =>
              sub'[t].pc # "unopened" /\ sub'[t].disclosure = sub[t].disclosure
<1>. DEFINE free == [new EXCEPT !.next_in_progress = NoReader]
<1>0. DOMAIN reader = Reader
  BY Zenon DEF CursorIInv, CursorTypeOK
<1>1. /\ sub' = [sub EXCEPT ![s] = free] /\ reader' = [reader EXCEPT ![r] = Cursors!Resting]
  BY Zenon DEF Cursors!Return
<1>2. IsCursor(free) /\ free.disclosure = sub[s].disclosure /\ free.pc = sub[s].pc
  BY Zenon DEF IsCursor
<1>3. /\ DOMAIN reader' = Reader
      /\ \A q \in Reader : reader'[q] = reader[q] \/ reader'[q] = Cursors!Resting
  BY <1>0, <1>1, Zenon
<1>. HIDE DEF free
<1>. QED BY <1>1, <1>2, <1>3, MovedStep, Zenon

\* The cursor of a read in progress.
LEMMA ReadOf ==
  ASSUME CursorIInv, NEW r \in Reader, reader[r].pc # "idle"
  PROVE  /\ reader[r].sub \in Subscription /\ IsCursor(sub[reader[r].sub])
         /\ sub[reader[r].sub].pc # "unopened"
BY Zenon DEF CursorIInv, CursorTypeOK, ReadersOpen

LEMMA SilentReturn ==
  ASSUME CursorIInv, NEW r \in Reader,
         Cursors!Enter(r) \/ Cursors!ReadCancelled(r) \/ Cursors!DropRead(r)
  PROVE  CursorIInv'
<1>. DEFINE s == reader[r].sub
<1>1. reader[r].pc # "idle" /\ UNCHANGED <<channel, shown>>
  BY Zenon DEF Cursors!Enter, Cursors!ReadCancelled, Cursors!DropRead
<1>2. s \in Subscription /\ IsCursor(sub[s]) /\ sub[s].pc # "unopened"
  BY <1>1, ReadOf, Zenon
<1>3. CASE Cursors!Return(r, s, sub[s])
  BY <1>1, <1>2, <1>3, ReturnStep, CursorStep, Zenon
<1>4. CASE reader' = [reader EXCEPT ![r].pc = "waiting"] /\ UNCHANGED sub
  <2>1. /\ DOMAIN reader' = Reader
        /\ \A q \in Reader : /\ {"pc", "sub"} \subseteq DOMAIN reader'[q]
                             /\ reader'[q].sub = reader[q].sub
                             /\ q # r => reader'[q] = reader[q]
    BY <1>4, Zenon DEF CursorIInv, CursorTypeOK
  <2>2. CursorTypeOK'
    BY <1>1, <1>4, <2>1, Zenon DEF CursorIInv, CursorTypeOK, IsCursor
  <2>3. ReadersOpen'
    BY <1>2, <1>4, <2>1, Zenon DEF CursorIInv, ReadersOpen
  <2>. QED BY <1>1, <1>4, <2>2, <2>3, CursorStep, Zenon
<1>. QED BY <1>3, <1>4, Zenon DEF Cursors!Enter, Cursors!ReadCancelled, Cursors!DropRead

\* A frame that reports no event, or whose number does not exist.
LEMMA FrameStep ==
  ASSUME CursorIInv, NEW r \in Reader, NEW s \in Subscription, NEW kind, NEW position,
         NEW content, NEW new, Cursors!Frame(r, s, kind, position, content, new),
         IsCursor(new), new.disclosure = sub[s].disclosure, new.pc = sub[s].pc,
         sub[s].pc # "unopened", UNCHANGED channel,
         kind = "event" =>
           /\ position \in 1 .. Len(channel) /\ channel[position].type # "Unreported"
           /\ content = Cursors!Project(channel[position], sub[s].disclosure)
  PROVE  CursorIInv'
<1>1. CASE Cursors!Return(r, s, new) /\ UNCHANGED shown
  BY <1>1, ReturnStep, CursorStep, Zenon
<1>2. CASE /\ shown' = [kind |-> kind, sub |-> s, generation |-> sub[s].generation,
                        sequence |-> sub[s].next_sequence, position |-> position,
                        content |-> content]
           /\ Cursors!Return(r, s, [new EXCEPT !.next_sequence = @ + 1])
  <2>. DEFINE counted == [new EXCEPT !.next_sequence = @ + 1]
  <2>1. /\ IsCursor(counted) /\ counted.disclosure = sub[s].disclosure
        /\ counted.pc = sub[s].pc
    BY Zenon DEF IsCursor
  <2>2. Cursors!Return(r, s, counted)
    BY <1>2, Zenon
  <2>. HIDE DEF counted
  <2>3. /\ CursorTypeOK' /\ ReadersOpen'
        /\ sub'[s].pc # "unopened" /\ sub'[s].disclosure = sub[s].disclosure
    BY <2>1, <2>2, ReturnStep, Zenon
  <2>4. /\ shown'.kind = kind /\ shown'.sub = s /\ shown'.position = position
        /\ shown'.content = content
    BY <1>2, Zenon
  <2>5. ShownProjected'
    BY <2>3, <2>4, Zenon DEF ShownProjected, Cursors!Project
  <2>. QED BY <2>3, <2>5, Zenon DEF CursorIInv
<1>. QED BY <1>1, <1>2, Zenon DEF Cursors!Frame

LEMMA ReadEventCursor ==
  ASSUME CursorIInv, NEW r \in Reader, Cursors!ReadEvent(r)
  PROVE  CursorIInv'
<1>. DEFINE s == reader[r].sub
            position == sub[s].pos + 1
            moved == [sub[s] EXCEPT !.pos = position]
<1>1. reader[r].pc # "idle" /\ UNCHANGED channel /\ Cursors!Oldest < position
      /\ position <= Len(channel)
  BY Zenon DEF Cursors!ReadEvent, Cursors!Waiting
<1>2. s \in Subscription /\ IsCursor(sub[s]) /\ sub[s].pc # "unopened"
  BY <1>1, ReadOf, Zenon
<1>3. IsCursor(moved) /\ moved.disclosure = sub[s].disclosure /\ moved.pc = sub[s].pc
  <2>1. position \in Nat
    BY <1>2 DEF IsCursor
  <2>. QED BY <1>2, <2>1, Zenon DEF IsCursor
<1>4. CASE Cursors!Return(r, s, moved) /\ UNCHANGED shown
  BY <1>1, <1>2, <1>3, <1>4, ReturnStep, CursorStep, Zenon
<1>5. CASE sub' = [sub EXCEPT ![s] = moved] /\ UNCHANGED <<reader, shown>>
  <2>1. DOMAIN reader' = Reader
    BY <1>5, Zenon DEF CursorIInv, CursorTypeOK
  <2>. HIDE DEF moved
  <2>. QED BY <1>1, <1>2, <1>3, <1>5, <2>1, MovedStep, CursorStep, Zenon
<1>6. CASE /\ channel[position].type # "Unreported"
           /\ Cursors!Frame(r, s, "event", position,
                            Cursors!Project(channel[position], sub[s].disclosure), moved)
  <2>1. position \in 1 .. Len(channel)
    BY <1>1, <1>2 DEF IsCursor, CursorIInv, CursorTypeOK
  <2>. HIDE DEF moved, position, s
  <2>. QED BY <1>1, <1>2, <1>3, <1>6, <2>1, FrameStep, Zenon
<1>. QED BY <1>4, <1>5, <1>6, Zenon DEF Cursors!ReadEvent

LEMMA OtherReadCursor ==
  ASSUME CursorIInv, NEW r \in Reader, Cursors!ReadLagged(r) \/ Cursors!ReadClosed(r)
  PROVE  CursorIInv'
<1>. DEFINE s == reader[r].sub
            skipped == [sub[s] EXCEPT !.pos = Cursors!Oldest]
            ended == [sub[s] EXCEPT !.terminated = TRUE]
<1>1. reader[r].pc # "idle" /\ UNCHANGED channel
  BY Zenon DEF Cursors!ReadLagged, Cursors!ReadClosed, Cursors!Waiting
<1>2. s \in Subscription /\ IsCursor(sub[s]) /\ sub[s].pc # "unopened"
  BY <1>1, ReadOf, Zenon
<1>3. Cursors!Oldest \in Nat
  BY CursorAssumption DEF Cursors!ConstantsAssumption, Cursors!Oldest, CursorIInv,
     CursorTypeOK
<1>4. /\ IsCursor(skipped) /\ skipped.disclosure = sub[s].disclosure /\ skipped.pc = sub[s].pc
      /\ IsCursor(ended) /\ ended.disclosure = sub[s].disclosure /\ ended.pc = sub[s].pc
  BY <1>2, <1>3, Zenon DEF IsCursor
<1>5. \/ Cursors!Frame(r, s, "degraded", Cursors!Oldest, Cursors!Oldest - sub[s].pos, skipped)
      \/ Cursors!Frame(r, s, "closed", Len(channel), 0, ended)
  BY Zenon DEF Cursors!ReadLagged, Cursors!ReadClosed
<1>. HIDE DEF s, skipped, ended
<1>. QED BY <1>1, <1>2, <1>4, <1>5, FrameStep, Zenon

LEMMA CursorInit == Cursors!Init => CursorIInv
<1>. SUFFICES ASSUME Cursors!Init PROVE CursorIInv
  OBVIOUS
<1>1. channel \in Seq(Event)
  BY DEF Cursors!Init
<1>2. IsCursor(Cursors!Unopened)
  <2>1. Cursors!Unopened.pos = 0 /\ Cursors!Unopened.disclosure = "Redacted"
        /\ {"pc", "disclosure", "pos"} \subseteq DOMAIN Cursors!Unopened
    BY Zenon DEF Cursors!Unopened
  <2>. QED BY <2>1 DEF IsCursor, Cursors!Disclosure
<1>3. {"pc", "sub"} \subseteq DOMAIN Cursors!Resting /\ Cursors!Resting.pc = "idle"
  BY Zenon DEF Cursors!Resting
<1>4. shown.kind # "event"
  BY DEF Cursors!Init, Cursors!NoFrame
<1>. QED BY <1>1, <1>2, <1>3, <1>4, Zenon
         DEF Cursors!Init, CursorIInv, CursorTypeOK, ReadersOpen, ShownProjected

LEMMA CursorNext == CursorIInv /\ [Cursors!Next]_(Cursors!vars) => CursorIInv'
<1>. SUFFICES ASSUME CursorIInv, [Cursors!Next]_(Cursors!vars) PROVE CursorIInv'
  OBVIOUS
<1>1. CASE Cursors!CloseSender \/ UNCHANGED Cursors!vars
  <2>1. UNCHANGED <<channel, sub, reader, shown>>
    BY <1>1, Zenon DEF Cursors!CloseSender, Cursors!vars
  <2>2. CursorTypeOK' /\ ReadersOpen'
    BY <2>1, Zenon DEF CursorIInv, CursorTypeOK, ReadersOpen, IsCursor
  <2>. QED BY <2>1, <2>2, CursorStep, Zenon
<1>2. CASE \E e \in Event : Cursors!Publish(e)
  BY <1>2, PublishCursor, Zenon
<1>3. CASE \E s \in Subscription :
             \/ \E d \in Cursors!Disclosure : Cursors!Subscribe(s, d)
             \/ Cursors!CancelFlag(s) \/ Cursors!CancelSignal(s)
  BY <1>3, SubscribeCursor, CancelCursor, Zenon
<1>4. CASE \E r \in Reader :
             \/ \E s \in Subscription : Cursors!BeginNext(r, s)
             \/ Cursors!Read(r) \/ Cursors!DropRead(r)
  BY <1>4, BeginNextCursor, SilentReturn, ReadEventCursor, OtherReadCursor, Zenon
     DEF Cursors!Read
<1>. QED BY <1>1, <1>2, <1>3, <1>4, Zenon DEF Cursors!Next

\* A business-event frame shows of a transaction's extra data exactly what the
\* disclosure of its own subscription admits, for any events, cursors and
\* readers (extra_data, business_event_from_wallet_event_with_projection).
THEOREM FramesKeepDisclosure == Cursors!Spec => []DisclosureKept
<1>1. CursorIInv => DisclosureKept
  <2>. SUFFICES ASSUME CursorIInv, shown.kind = "event",
                       channel[shown.position].type # "Asset"
                PROVE  Cursors!Discloses(shown.content.entry,
                                         channel[shown.position].tx.entry,
                                         sub[shown.sub].disclosure)
    BY Zenon DEF DisclosureKept, Cursors!DisclosureKept
  <2>. DEFINE e == channel[shown.position]
              d == sub[shown.sub].disclosure
  <2>1. shown.position \in 1 .. Len(channel) /\ channel \in Seq(Event)
    BY Zenon DEF CursorIInv, ShownProjected, CursorTypeOK
  <2>2. e \in Event
    BY <2>1
  <2>3. d \in Cursors!Disclosure /\ shown.content = Cursors!Project(e, d) /\ e.type # "Unreported"
    BY Zenon DEF CursorIInv, ShownProjected, CursorTypeOK, IsCursor
  <2>4. e.type \in {"NewTransaction", "NewPendingTransaction"} /\ Cursors!IsEntry(e.tx.entry)
    BY <2>2, <2>3, CursorAssumption, Zenon
       DEF Cursors!ConstantsAssumption, Cursors!EventType
  <2>5. shown.content.entry = Cursors!EntryData(e.tx.entry, d)
    <3>. HIDE DEF d, e
    <3>1. CASE e.type = "NewTransaction"
      <4>1. Cursors!Project(e, d) = Cursors!ProjectEntry(e.tx, d)
        BY <3>1 DEF Cursors!Project
      <4>. QED BY <2>3, <4>1 DEF Cursors!ProjectEntry
    <3>2. CASE e.type = "NewPendingTransaction"
      <4>1. Cursors!Project(e, d) = Cursors!ProjectPending(e.tx, d)
        BY <3>2 DEF Cursors!Project
      <4>. QED BY <2>3, <4>1 DEF Cursors!ProjectPending
    <3>. QED BY <2>4, <3>1, <3>2, Zenon
  <2>. HIDE DEF d, e
  <2>6. Cursors!Discloses(Cursors!EntryData(e.tx.entry, d), e.tx.entry, d)
    BY <2>3, <2>4, EntryDiscloses, Zenon
  <2>. QED BY <2>5, <2>6, Zenon DEF d, e
<1>. QED BY <1>1, CursorInit, CursorNext, PTL DEF Cursors!Spec
=============================================================================
