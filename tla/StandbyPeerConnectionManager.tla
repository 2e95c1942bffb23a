---------------------- MODULE StandbyPeerConnectionManager ----------------------
(***************************************************************************)
(* The standby peer connection (src/src/standby_peer_connection_manager.ts) *)
(* that the V2 connection manager keeps ready for the next call.  What the  *)
(* manager does to it - asking for a connection, switching persistent mode, *)
(* closing - is part of the module; its calls are not.                      *)
(***************************************************************************)
EXTENDS Naturals, FiniteSets

CONSTANTS
  MaxPcs,              \* bound on the peer connections created
  Supported            \* isStandbyConnectionSupported

ASSUME StandbyAssumption == MaxPcs \in Nat /\ Supported \in BOOLEAN

VARIABLES
  standbyPc,           \* _standbyPc
  pending,             \* _pendingRequest
  timer,               \* _refreshTimerId's timer runs
  orphans,             \* running refresh timers nobody holds the id of
  checker,             \* _networkConnectivityCheckerId's interval runs
  created,             \* peer connections created so far
  openPcs,             \* ... and not closed
  given,               \* ... and handed to the connection manager
  ppc, allowed,        \* _isPPCEnabled, _isRTPSAllowlisted of the manager
  closed               \* _closed of the manager

standbyVars == <<standbyPc, pending, timer, orphans, checker>>
pcVars      == <<created, openPcs, given>>
managerVars == <<ppc, allowed, closed>>
vars == <<standbyVars, pcVars, managerVars>>

None == 0
Pcs  == 1..MaxPcs

TypeOK ==
  /\ standbyPc \in Pcs \union {None}
  /\ created \in 0..MaxPcs
  /\ openPcs \subseteq Pcs
  /\ given \subseteq Pcs
  /\ orphans \in Nat
  /\ {pending, timer, checker, ppc, allowed, closed} \subseteq BOOLEAN

\* isPersistentConnectionAllowlistedAndEnabled
Persistent == ppc /\ allowed

\* The constructor requests a connection; nothing is allowlisted yet.
Init ==
  /\ standbyPc = None
  /\ pending = Supported
  /\ timer = FALSE
  /\ orphans = 0
  /\ checker = TRUE
  /\ created = 0
  /\ openPcs = {}
  /\ given = {}
  /\ ppc \in BOOLEAN
  /\ allowed = FALSE
  /\ closed = FALSE

-----------------------------------------------------------------------------
\* _requestStandbyPeerConnection, whose guard sees the manager's settings.
RequestStandby(persistent) ==
  pending' = (pending \/ (Supported /\ ~persistent))

\* _closeStandbyPc
CloseStandbyPc ==
  /\ openPcs' = openPcs \ {standbyPc}
  /\ standbyPc' = None

\* closeStandbyConnection: timer, checker and connection; a pending request
\* goes on.
CloseStandbyConnection ==
  /\ timer' = FALSE
  /\ checker' = FALSE
  /\ CloseStandbyPc

\* Mutant: the connection is stored without a refresh timer.
StoreStandby_Untimed(pc) ==
  /\ standbyPc' = pc
  /\ openPcs' = openPcs \union {pc}
  /\ UNCHANGED <<timer, orphans>>

\* A created connection becomes the standby.  Whatever was there before, the
\* connection and its timer's id, is overwritten.
StoreStandby(pc) ==
  /\ standbyPc' = pc
  /\ openPcs' = openPcs \union {pc}
  /\ timer' = TRUE
  /\ orphans' = IF timer THEN orphans + 1 ELSE orphans

\* createPeerConnection delivers: the connection is stored, or closed at once
\* when the manager is closed or persistent by now.
RequestSucceeds ==
  /\ pending
  /\ created < MaxPcs
  /\ pending' = FALSE
  /\ created' = created + 1
  /\ IF closed \/ Persistent
       THEN UNCHANGED <<standbyPc, timer, orphans, openPcs>>
       ELSE StoreStandby(created + 1)
  /\ UNCHANGED <<checker, given, managerVars>>

\* No credentials, or the strategy threw: no connection, and no other attempt.
RequestFails ==
  /\ pending
  /\ pending' = FALSE
  /\ UNCHANGED <<standbyPc, timer, orphans, checker, pcVars, managerVars>>

\* Mutant: the old connection is not given up.
Refresh_KeepsOld ==
  IF closed THEN UNCHANGED <<standbyPc, openPcs, pending>>
            ELSE RequestStandby(Persistent) /\ UNCHANGED <<standbyPc, openPcs>>

\* _refreshStandbyPeerConnection, past the reset of the timer's id.
Refresh ==
  /\ CloseStandbyPc
  /\ IF closed THEN UNCHANGED pending ELSE RequestStandby(Persistent)

RefreshTimerFires ==
  /\ timer
  /\ timer' = FALSE
  /\ Refresh
  /\ UNCHANGED <<orphans, checker, created, given, managerVars>>

\* A timer whose id was overwritten: it forgets the id of the one that runs.
OrphanTimerFires ==
  /\ orphans > 0
  /\ orphans' = IF timer THEN orphans ELSE orphans - 1
  /\ timer' = FALSE
  /\ Refresh
  /\ UNCHANGED <<checker, created, given, managerVars>>

\* The interval finds the browser offline.  The refresh timer runs on.
FoundOffline ==
  /\ checker
  /\ standbyPc # None
  /\ CloseStandbyPc
  /\ UNCHANGED <<pending, timer, orphans, checker, created, given, managerVars>>

-----------------------------------------------------------------------------
(* What the connection manager does.                                       *)

\* Mutant: the standby is consumed without asking whether there is one.
Consume_Unchecked ==
  /\ given' = given \union {standbyPc}
  /\ standbyPc' = None
  /\ timer' = FALSE
  /\ RequestStandby(Persistent)
  /\ UNCHANGED <<orphans, checker, created, openPcs, managerVars>>

\* Mutant: the consumed connection stays the standby.
Consume_Keeps ==
  /\ standbyPc # None
  /\ given' = given \union {standbyPc}
  /\ timer' = FALSE
  /\ RequestStandby(Persistent)
  /\ UNCHANGED <<standbyPc, orphans, checker, created, openPcs, managerVars>>

\* _getIdleOrCreatePeerConnection when there is a standby: consumeStandbyPc
\* hands it out and requests the next one.
Consume ==
  /\ standbyPc # None
  /\ given' = given \union {standbyPc}
  /\ standbyPc' = None
  /\ timer' = FALSE
  /\ RequestStandby(Persistent)
  /\ UNCHANGED <<orphans, checker, created, openPcs, managerVars>>

\* The server's answer to an INVITE sets the allowlisting.
Answered(allowlisted) ==
  /\ allowed' = allowlisted
  /\ UNCHANGED <<standbyVars, pcVars, ppc, closed>>

\* handlePersistentPeerConnectionToggle: activation closes the standby,
\* deactivation requests one.
Toggle ==
  /\ ~closed
  /\ allowed
  /\ ppc' = ~ppc
  /\ IF ppc
       THEN RequestStandby(FALSE) /\ UNCHANGED <<standbyPc, timer, checker, openPcs>>
       ELSE CloseStandbyConnection /\ UNCHANGED pending
  /\ UNCHANGED <<orphans, created, given, allowed, closed>>

\* close() of the manager.
Close ==
  /\ ~closed
  /\ closed' = TRUE
  /\ IF Persistent
       THEN UNCHANGED <<standbyPc, timer, checker, openPcs>>
       ELSE CloseStandbyConnection
  /\ UNCHANGED <<pending, orphans, created, given, ppc, allowed>>

-----------------------------------------------------------------------------
Next ==
  \/ RequestSucceeds
  \/ RequestFails
  \/ RefreshTimerFires
  \/ OrphanTimerFires
  \/ FoundOffline
  \/ Consume
  \/ \E allowlisted \in BOOLEAN : Answered(allowlisted)
  \/ Toggle
  \/ Close

Spec == Init /\ [][Next]_vars

\* Timers fire.
FairSpec == Spec /\ WF_vars(RefreshTimerFires)

-----------------------------------------------------------------------------
(* Properties.                                                             *)

\* A standby connection is never left without the timer that refreshes it,
\* although offline checks, overwritten timers and closes all touch one of
\* the two (StoreStandby, consumeStandbyPc, _refreshStandbyPeerConnection).
StandbyIsTimed == standbyPc # None => timer

\* A connection that was handed to a call is the call's: no refresh timer,
\* offline check or close of the standby manager closes it under the call.
HandedOutStaysOpen == given \subseteq openPcs

\* No standby connection outlives its refresh, so that none is handed out
\* with stale TURN credentials ("periodic refresh", class comment).
StandbyIsRefreshed == \A pc \in Pcs : standbyPc = pc ~> standbyPc # pc
=============================================================================
