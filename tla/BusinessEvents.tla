--------------------------- MODULE BusinessEvents ---------------------------
(***************************************************************************)
(* Business-event subscriptions of one wallet on the native side: cursors  *)
(* with different disclosures over the wallet's broadcast channel,         *)
(* readers that call next_event at the same time, reads whose future is    *)
(* dropped, and a cancellation in its two separate stores.                 *)
(***************************************************************************)
EXTENDS Naturals, TransactionProjection

CONSTANTS
  Subscription,    \* cursors that may be opened
  Reader,          \* callers of next_event
  NoReader,
  Event,           \* events the wallet publishes
  Capacity,        \* events the broadcast channel retains
  MaxGeneration,   \* u64::MAX
  MaxSequence,     \* u64::MAX
  MaxEvents        \* bound on the events of a behaviour

VARIABLES
  channel,      \* the events published so far
  closed,       \* the wallet dropped its sender
  generation,   \* business_event_generation
  sub,          \* the cursors
  reader,       \* the calls
  shown         \* the frame returned last, until the next read begins

vars == <<channel, closed, generation, sub, reader, shown>>

\* An event carries a transaction, a pending transaction, a balance or asset
\* change without extra data, or something this stream does not report.
EventType == {"NewTransaction", "NewPendingTransaction", "Asset", "Unreported"}

ConstantsAssumption ==
  /\ Capacity \in Nat \ {0}
  /\ \A e \in Event :
       /\ e.type \in EventType
       /\ e.type \in {"NewTransaction", "NewPendingTransaction"} => IsEntry(e.tx.entry)

Unopened == [pc |-> "unopened", generation |-> 0, disclosure |-> "Redacted",
             pos |-> 0, next_sequence |-> 1, cancelled |-> FALSE,
             signalled |-> FALSE, terminated |-> FALSE,
             next_in_progress |-> NoReader]
Resting == [pc |-> "idle", sub |-> "none"]
NoFrame == [kind |-> "none"]

Init ==
  /\ channel = <<>>
  /\ closed = FALSE
  /\ generation = 0
  /\ sub = [s \in Subscription |-> Unopened]
  /\ reader = [r \in Reader |-> Resting]
  /\ shown = NoFrame

-----------------------------------------------------------------------------
(* The wallet, external                                                    *)

Publish(e) ==
  /\ ~closed /\ Len(channel) < MaxEvents
  /\ channel' = Append(channel, e)
  /\ UNCHANGED <<closed, generation, sub, reader, shown>>

CloseSender ==
  /\ ~closed
  /\ closed' = TRUE
  /\ UNCHANGED <<channel, generation, sub, reader, shown>>

Oldest == IF Len(channel) > Capacity THEN Len(channel) - Capacity ELSE 0

-----------------------------------------------------------------------------
(* Subscriptions                                                           *)

\* subscribe_business_events: the receiver starts at the end of the channel.
Subscribe(s, disclosure) ==
  /\ sub[s].pc = "unopened" /\ generation < MaxGeneration
  /\ generation' = generation + 1
  /\ sub' = [sub EXCEPT ![s] =
       [Unopened EXCEPT !.pc = "open", !.generation = generation + 1,
                        !.disclosure = disclosure, !.pos = Len(channel)]]
  /\ UNCHANGED <<channel, closed, reader, shown>>

\* cancel_internal, from cancel() or Drop: first the flag ...
CancelFlag(s) ==
  /\ sub[s].pc = "open" /\ ~sub[s].cancelled
  /\ sub' = [sub EXCEPT ![s].cancelled = TRUE]
  /\ UNCHANGED <<channel, closed, generation, reader, shown>>

\* Mutant: nobody is woken.
Signalled_Lost(s) == FALSE

Signalled(s) == TRUE

\* ... then the signal that wakes a waiting read.
CancelSignal(s) ==
  /\ sub[s].cancelled /\ sub[s].pc = "open"
  /\ sub' = [sub EXCEPT ![s].signalled = Signalled(s), ![s].pc = "cancelled"]
  /\ UNCHANGED <<channel, closed, generation, reader, shown>>

-----------------------------------------------------------------------------
(* next_event                                                              *)

\* The call returns and its guard clears next_in_progress.
Return(r, s, new) ==
  /\ reader' = [reader EXCEPT ![r] = Resting]
  /\ sub' = [sub EXCEPT ![s] = [new EXCEPT !.next_in_progress = NoReader]]

\* begin_next: a second read at the same time is refused and changes nothing.
BeginNext(r, s) ==
  /\ reader[r].pc = "idle" /\ sub[s].pc # "unopened"
  /\ sub[s].next_in_progress = NoReader
  /\ sub' = [sub EXCEPT ![s].next_in_progress = r]
  /\ reader' = [reader EXCEPT ![r] = [pc |-> "entered", sub |-> s]]
  /\ shown' = NoFrame
  /\ UNCHANGED <<channel, closed, generation>>

\* A cancelled or terminated cursor yields None.
Enter(r) ==
  LET s == reader[r].sub IN
  /\ reader[r].pc = "entered"
  /\ IF sub[s].cancelled \/ sub[s].terminated
       THEN Return(r, s, sub[s])
       ELSE /\ reader' = [reader EXCEPT ![r].pc = "waiting"]
            /\ UNCHANGED sub
  /\ UNCHANGED <<channel, closed, generation, shown>>

\* The biased select sees the signal, or the loop the flag.
ReadCancelled(r) ==
  LET s == reader[r].sub IN
  /\ reader[r].pc = "waiting" /\ sub[s].signalled
  /\ Return(r, s, sub[s])
  /\ UNCHANGED <<channel, closed, generation, shown>>

\* next_frame; with the sequence exhausted the call fails, the event is gone.
Frame(r, s, kind, position, content, new) ==
  IF sub[s].next_sequence < MaxSequence
    THEN /\ shown' = [kind |-> kind, sub |-> s, generation |-> sub[s].generation,
                      sequence |-> sub[s].next_sequence, position |-> position,
                      content |-> content]
         /\ Return(r, s, [new EXCEPT !.next_sequence = @ + 1])
    ELSE Return(r, s, new) /\ UNCHANGED shown

\* business_event_from_wallet_event_with_projection
Project(event, disclosure) ==
  CASE event.type = "NewTransaction" -> ProjectEntry(event.tx, disclosure)
    [] event.type = "NewPendingTransaction" -> ProjectPending(event.tx, disclosure)
    [] OTHER -> event

Waiting(r) == reader[r].pc = "waiting" /\ ~sub[reader[r].sub].signalled

ReadEvent(r) ==
  LET s == reader[r].sub
      position == sub[s].pos + 1
      moved == [sub[s] EXCEPT !.pos = position]
  IN
  /\ Waiting(r) /\ Oldest < position /\ position <= Len(channel)
  /\ \/ /\ channel[position].type = "Unreported"
        /\ IF sub[s].cancelled THEN Return(r, s, moved)
           ELSE sub' = [sub EXCEPT ![s] = moved] /\ UNCHANGED reader
        /\ UNCHANGED shown
     \/ /\ channel[position].type # "Unreported"
        /\ Frame(r, s, "event", position,
                 Project(channel[position], sub[s].disclosure), moved)
  /\ UNCHANGED <<channel, closed, generation>>

ReadLagged(r) ==
  LET s == reader[r].sub IN
  /\ Waiting(r) /\ sub[s].pos < Oldest
  /\ Frame(r, s, "degraded", Oldest, Oldest - sub[s].pos,
           [sub[s] EXCEPT !.pos = Oldest])
  /\ UNCHANGED <<channel, closed, generation>>

ReadClosed(r) ==
  LET s == reader[r].sub IN
  /\ Waiting(r) /\ closed /\ sub[s].pos = Len(channel)
  /\ Frame(r, s, "closed", Len(channel), 0, [sub[s] EXCEPT !.terminated = TRUE])
  /\ UNCHANGED <<channel, closed, generation>>

\* The future of the read is dropped while it waits; recv loses nothing.
DropRead(r) ==
  /\ reader[r].pc = "waiting"
  /\ Return(r, reader[r].sub, sub[reader[r].sub])
  /\ UNCHANGED <<channel, closed, generation, shown>>

Read(r) ==
  \/ Enter(r) \/ ReadCancelled(r) \/ ReadEvent(r) \/ ReadLagged(r) \/ ReadClosed(r)

Next ==
  \/ \E e \in Event : Publish(e)
  \/ CloseSender
  \/ \E s \in Subscription :
       \/ \E disclosure \in Disclosure : Subscribe(s, disclosure)
       \/ CancelFlag(s) \/ CancelSignal(s)
  \/ \E r \in Reader :
       \/ \E s \in Subscription : BeginNext(r, s)
       \/ Read(r) \/ DropRead(r)

\* A woken future is polled, and cancel_internal runs to its end.
Spec ==
  /\ Init /\ [][Next]_vars
  /\ \A r \in Reader : WF_vars(Read(r))
  /\ \A s \in Subscription : WF_vars(CancelSignal(s))

-----------------------------------------------------------------------------
(* Properties                                                              *)

\* A frame shows of a transaction's extra data exactly what the disclosure of
\* its own subscription admits, whichever reader got it.
DisclosureKept ==
  shown.kind = "event" /\ channel[shown.position].type # "Asset" =>
    Discloses(shown.content.entry, channel[shown.position].tx.entry,
              sub[shown.sub].disclosure)

\* "wakes an in-flight next_event call": after a cancellation every read of the
\* cursor returns.
CancelWakes ==
  \A r \in Reader, s \in Subscription :
    sub[s].cancelled /\ reader[r].sub = s ~> reader[r].pc = "idle"

=============================================================================
