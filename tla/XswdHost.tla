------------------------------ MODULE XswdHost ------------------------------
(***************************************************************************)
(* The XSWD host of a wallet: the dispatcher of native events              *)
(* (XswdDispatcher), the calls of the bridge and the adapter (XswdCalls)   *)
(* and the capabilities of the Dart service (XswdSessions).  A session of  *)
(* one is a session, or an application state, of the others.  Each has its *)
(* own abstraction of the others' steps, so they share no variable.        *)
(***************************************************************************)
EXTENDS XswdDispatcher

ASSUME DispatcherAssumption == BoundsAssumption

CONSTANTS Session, Read                                       \* XswdSessions
CONSTANTS AppId, Permission, Update, Prefixed, Call, NoSession \* XswdCalls

VARIABLES server, relayer, handler, session, registry, requests, perms, call,
          lifecycle, ops, granted, stopped, late

callVars == <<server, relayer, handler, session, registry, requests, perms, call,
              lifecycle, ops, granted, stopped, late>>

Calls == INSTANCE XswdCalls

\* XswdCalls' properties of what the user granted and of a completed stop.
AuthorityGranted == Calls!AuthorityGranted
StopComplete == Calls!StopComplete

VARIABLES terminal, running, native, notice, cap, deciding, closing, stopAwaited,
          read, ended, identity

sessionVars == <<terminal, running, native, notice, cap, deciding, closing,
                 stopAwaited, read, ended, identity>>

Sessions == INSTANCE XswdSessions WITH stopping <- stopAwaited

\* XswdSessions' properties of ended and of listed sessions.
NoRevival == Sessions!NoRevival
ListedOperable == Sessions!ListedOperable

=============================================================================
