---------------------------- MODULE NativeStreams ----------------------------
(***************************************************************************)
(* The process-wide log and progress streams: the one-shot configuration   *)
(* of the Rust logger, the sinks the Dart side replaces at any time, and   *)
(* the threads that emit records through whichever sink they find.         *)
(*                                                                         *)
(* sink[ch] is SEND_TO_DART_LOGGER_STREAM_SINK or                          *)
(* PROGRESS_REPORT_STREAM_SINK.  An emitter clones it under the read lock, *)
(* adds to it with no lock held and, when that fails, comes back for the   *)
(* write lock; any number of replacements may lie in between.              *)
(***************************************************************************)
EXTENDS Naturals

CONSTANTS
  Sink, NoSink,
  Emitter,      \* threads that log or report progress
  MaxLevel      \* the most verbose level; 0 is LevelFilter::Off

ConstantsAssumption == NoSink \notin Sink /\ MaxLevel \in Nat \ {0}

VARIABLES
  configuration,  \* LOGGER_CONFIGURATION
  init,           \* the init_logger call that holds its lock
  logger,         \* who is installed with the log crate
  scope,          \* LOG_SCOPE
  max_level,      \* log::max_level()
  sink,           \* the current sink of each channel
  listening,      \* sinks whose Dart stream is still open
  emitter,        \* the emitting threads
  created,        \* the sink the Dart side created last on each channel
  forwarded       \* the record that reached a sink last

vars == <<configuration, init, logger, scope, max_level, sink, listening,
          emitter, created, forwarded>>

Level == 1..MaxLevel
Scope == {"Standard", "PackageDiagnostic", "UnsafeUpstreamDiagnostic"}
Target == {"consumer", "package", "upstream", "other"}
Channel == {"log", "progress"}
Configuration == [minimum_level : Level, scope : Scope]
NoConfiguration == [minimum_level |-> 0, scope |-> "Standard"]
Record == [level : Level, target : Target]
Report == [level |-> 0, target |-> "consumer"]   \* a progress report

NoInit == [pc |-> "idle", requested |-> NoConfiguration]
Quiet == [pc |-> "idle", channel |-> "log", record |-> Report,
          scope |-> "Standard", sink |-> NoSink]

Init ==
  /\ configuration = NoConfiguration
  /\ init = NoInit
  /\ logger \in {"none", "other"}
  /\ scope = "Standard"
  /\ max_level = 0
  /\ sink = [ch \in Channel |-> NoSink]
  /\ listening = {}
  /\ emitter = [e \in Emitter |-> Quiet]
  /\ created = [ch \in Channel |-> NoSink]
  /\ forwarded = Report

-----------------------------------------------------------------------------
(* Configuration                                                           *)

streamVars == <<sink, listening, emitter, created, forwarded>>

\* init_logger takes the lock; an earlier configuration decides at once, equal
\* (Ok) or different (Conflict), and neither changes anything.
BeginInit(requested) ==
  /\ init = NoInit
  /\ configuration = NoConfiguration
  /\ init' = [pc |-> "setLogger", requested |-> requested]
  /\ UNCHANGED <<configuration, logger, scope, max_level>>
  /\ UNCHANGED streamVars

\* External: log::set_logger succeeds once in the life of the process.
SetLogger ==
  /\ init.pc = "setLogger"
  /\ IF logger = "none"
       THEN logger' = "dart" /\ init' = [init EXCEPT !.pc = "storeScope"]
       ELSE init' = NoInit /\ UNCHANGED logger
  /\ UNCHANGED <<configuration, scope, max_level>>
  /\ UNCHANGED streamVars

StoreScope ==
  /\ init.pc = "storeScope"
  /\ scope' = init.requested.scope
  /\ init' = [init EXCEPT !.pc = "setMaxLevel"]
  /\ UNCHANGED <<configuration, logger, max_level>>
  /\ UNCHANGED streamVars

SetMaxLevel ==
  /\ init.pc = "setMaxLevel"
  /\ max_level' = init.requested.minimum_level
  /\ init' = [init EXCEPT !.pc = "configured"]
  /\ UNCHANGED <<configuration, logger, scope>>
  /\ UNCHANGED streamVars

EndInit ==
  /\ init.pc = "configured"
  /\ configuration' = init.requested
  /\ init' = NoInit
  /\ UNCHANGED <<logger, scope, max_level>>
  /\ UNCHANGED streamVars

-----------------------------------------------------------------------------
(* Sinks                                                                   *)

configVars == <<configuration, init, logger, scope, max_level>>

\* create_log_stream and create_progress_report_stream with a new stream.
ReplaceStreamSink(ch, s) ==
  /\ s \notin listening /\ \A c \in Channel : created[c] # s /\ sink[c] # s
  /\ \A e \in Emitter : emitter[e].sink # s
  /\ sink' = [sink EXCEPT ![ch] = s]
  /\ created' = [created EXCEPT ![ch] = s]
  /\ listening' = listening \cup {s}
  /\ UNCHANGED <<emitter, forwarded>>
  /\ UNCHANGED configVars

\* External: the Dart side closes its end of a stream.
Close(s) ==
  /\ s \in listening
  /\ listening' = listening \ {s}
  /\ UNCHANGED <<sink, emitter, created, forwarded>>
  /\ UNCHANGED configVars

-----------------------------------------------------------------------------
(* Emitting                                                                *)

\* The target rule of a scope: each scope admits what the one before it does.
Admits(sc, target) ==
  target \in CASE sc = "Standard" -> {"consumer"}
               [] sc = "PackageDiagnostic" -> {"consumer", "package"}
               [] OTHER -> {"consumer", "package", "upstream"}

Accepts(record, sc, maximum) ==
  record.level <= maximum /\ Admits(sc, record.target)

Step(e, new) ==
  /\ emitter' = [emitter EXCEPT ![e] = new]
  /\ UNCHANGED configVars

\* A record is logged by our logger: `enabled` reads the scope ...
Log(e, record) ==
  /\ emitter[e].pc = "idle" /\ logger = "dart"
  /\ Step(e, [pc |-> "level", channel |-> "log", record |-> record,
              scope |-> scope, sink |-> NoSink])
  /\ UNCHANGED <<sink, listening, created, forwarded>>

\* ... and then the maximum level.
Enabled(e) ==
  /\ emitter[e].pc = "level"
  /\ Step(e, IF Accepts(emitter[e].record, emitter[e].scope, max_level)
               THEN [emitter[e] EXCEPT !.pc = "clone"] ELSE Quiet)
  /\ UNCHANGED <<sink, listening, created, forwarded>>

\* add_progress_report
ReportProgress(e) ==
  /\ emitter[e].pc = "idle"
  /\ Step(e, [Quiet EXCEPT !.pc = "clone", !.channel = "progress"])
  /\ UNCHANGED <<sink, listening, created, forwarded>>

CloneSink(e) ==
  /\ emitter[e].pc = "clone"
  /\ LET s == sink[emitter[e].channel] IN
     Step(e, IF s = NoSink THEN Quiet
             ELSE [emitter[e] EXCEPT !.pc = "add", !.sink = s])
  /\ UNCHANGED <<sink, listening, created, forwarded>>

\* sink.add with no lock held: it fails on a closed stream.
Add(e) ==
  /\ emitter[e].pc = "add"
  /\ IF emitter[e].sink \in listening
       THEN /\ Step(e, Quiet)
            /\ forwarded' = emitter[e].record
       ELSE /\ Step(e, [emitter[e] EXCEPT !.pc = "failed"])
            /\ UNCHANGED forwarded
  /\ UNCHANGED <<sink, listening, created>>

\* Mutant: whatever sink is current is taken.
Taken_Blind(current, failed) == NoSink

\* The current sink is taken only while it is the one that failed.
Taken(current, failed) == IF current = failed THEN NoSink ELSE current

TakeFailed(e) ==
  /\ emitter[e].pc = "failed"
  /\ sink' = [sink EXCEPT ![emitter[e].channel] = Taken(@, emitter[e].sink)]
  /\ Step(e, Quiet)
  /\ UNCHANGED <<listening, created, forwarded>>

Next ==
  \/ \E requested \in Configuration : BeginInit(requested)
  \/ SetLogger \/ StoreScope \/ SetMaxLevel \/ EndInit
  \/ \E ch \in Channel, s \in Sink : ReplaceStreamSink(ch, s)
  \/ \E s \in Sink : Close(s)
  \/ \E e \in Emitter :
       \/ \E record \in Record : Log(e, record)
       \/ Enabled(e) \/ ReportProgress(e) \/ CloneSink(e) \/ Add(e)
       \/ TakeFailed(e)

Spec == Init /\ [][Next]_vars

-----------------------------------------------------------------------------
(* Properties                                                              *)

TypeOK ==
  /\ configuration \in Configuration \cup {NoConfiguration}
  /\ init \in [pc : {"idle", "setLogger", "storeScope", "setMaxLevel",
                     "configured"},
               requested : Configuration \cup {NoConfiguration}]
  /\ logger \in {"none", "other", "dart"}
  /\ scope \in Scope
  /\ max_level \in 0..MaxLevel
  /\ sink \in [Channel -> Sink \cup {NoSink}]
  /\ listening \subseteq Sink
  /\ emitter \in [Emitter -> [pc : {"idle", "level", "clone", "add", "failed"},
                              channel : Channel, record : Record \cup {Report},
                              scope : Scope, sink : Sink \cup {NoSink}]]
  /\ created \in [Channel -> Sink \cup {NoSink}]
  /\ forwarded \in Record \cup {Report}

\* The stream the Dart side created last on a channel is the one records go
\* to as long as it listens: a late failure on a stream it replaced never
\* silences it.
LatestSinkServed ==
  \A ch \in Channel : created[ch] \in listening => sink[ch] = created[ch]

\* "an immutable configuration": what the running or finished init_logger call
\* asked for is what every forwarded log record satisfies, also those logged
\* between its two stores.
Requested == IF init # NoInit THEN init.requested ELSE configuration

OnlyConfigured ==
  forwarded # Report =>
    Accepts(forwarded, Requested.scope, Requested.minimum_level)

\* A stream that listens is served, and only with what was configured.
StreamsSound == LatestSinkServed /\ OnlyConfigured

=============================================================================
