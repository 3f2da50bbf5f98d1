----------------------------- MODULE WalletReads -----------------------------
(***************************************************************************)
(* What a wallet tells its callers as it changes: assets and balances      *)
(* (WalletAssets), and the log and progress streams of the process         *)
(* (NativeStreams).  They share no state.                                  *)
(***************************************************************************)
EXTENDS WalletAssets

CONSTANTS Sink, NoSink, Emitter, MaxLevel

VARIABLES configuration, init, logger, scope, max_level, sink, listening, emitter,
          created, forwarded

streamVars == <<configuration, init, logger, scope, max_level, sink, listening,
                emitter, created, forwarded>>

Streams == INSTANCE NativeStreams

ASSUME StreamsAssumption == Streams!ConstantsAssumption

\* NativeStreams' property of what reaches a log or progress stream.
StreamsSound == Streams!StreamsSound

=============================================================================
