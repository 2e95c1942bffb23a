------------------------ MODULE PeerConnectionManagerV2 ------------------------
(***************************************************************************)
(* The V2 connection manager (src/src/rtc_peer_connection_manager_v2.ts)   *)
(* with the call sessions it keeps (src/src/call_session.js): calls come   *)
(* and go, share one media session, and wait for it across awaits, while   *)
(* page-load setup, the inactivity timer, PC_BYE and the agent's settings  *)
(* build it up and tear it down.                                           *)
(*                                                                         *)
(* A media session is seen from outside, as SessionLifecycle describes it  *)
(* and SharedMediaSession implements it: "new" until connect(), then       *)
(* "setup" (forsaken or not), "talking", "ended".  Sessions and peer       *)
(* connections are named after the call or page-load setup that creates    *)
(* them.  What calls do to the microphone is in module LocalAudio.         *)
(*                                                                         *)
(* The application does not create calls on, or change the settings of, a  *)
(* manager it has closed (~closed in CreateSession, Toggle and FacUpdate); *)
(* what was pending then still arrives.                                    *)
(***************************************************************************)
EXTENDS Naturals, FiniteSets

CONSTANTS
  Calls,               \* agent media legs
  PageLoads,           \* page-load setups that may be started
  None,                \* null
  MaxOrphans           \* bound on inactivity timers nobody can clear

ASSUME NamesAssumption ==
  /\ Calls \intersect PageLoads = {}
  /\ None \notin Calls \union PageLoads
  /\ MaxOrphans \in Nat

Sessions == Calls \union PageLoads

VARIABLES
  calls,               \* _callSessions
  callState,           \* state of each call session
  connecting,          \* progress of connect() for each call
  uaKnown,             \* _userAgentData has been fetched
  pageLoad,            \* progress of each _setupPageLoadPersistentConnection
  sess,                \* _sharedMediaSession
  everCreated,         \* _hasEverCreatedSharedMediaSession
  phase,               \* of each media session
  sessPc,              \* _pc of each media session
  openPcs,             \* peer connections created and not closed
  pcId,                \* the session _peerConnectionId names
  timer,               \* _inactivityTimer
  orphans,             \* running timers whose handle was overwritten
  ppc, fac, allowed,   \* _isPPCEnabled, ...OnPageLoadEnabled, _isRTPSAllowlisted
  closed               \* _closed

callVars    == <<calls, callState, connecting, uaKnown>>
sessionVars == <<sess, everCreated, phase, sessPc, openPcs, pcId>>
timerVars   == <<timer, orphans>>
configVars  == <<ppc, fac, allowed, closed>>
vars == <<callVars, pageLoad, sessionVars, timerVars, configVars>>

Live == {"setup", "talking"}

TypeOK ==
  /\ calls \subseteq Calls
  /\ callState \in [Calls -> {"none", "Initial", "Talking", "Disconnected", "Failed"}]
  /\ connecting \in [Calls -> {"no", "agentData", "pc", "done", "rejected"}]
  /\ pageLoad \in [PageLoads -> {"no", "strategy", "pc", "done"}]
  /\ sess \in Sessions \union {None}
  /\ phase \in [Sessions -> {"none", "new", "ended"} \union Live]
  /\ sessPc \in [Sessions -> Sessions \union {None}]
  /\ openPcs \subseteq Sessions
  /\ pcId \in Sessions \union {None}
  /\ timer \in {"none", "running", "fired"}
  /\ orphans \in Nat
  /\ {uaKnown, everCreated, ppc, fac, allowed, closed} \subseteq BOOLEAN

\* The constructor starts the first page-load setup when agent and browser
\* are configured for it (_initializePageLoadConnection).
Init ==
  /\ calls = {}
  /\ callState = [c \in Calls |-> "none"]
  /\ connecting = [c \in Calls |-> "no"]
  /\ uaKnown = FALSE
  /\ ppc \in BOOLEAN
  /\ fac \in BOOLEAN
  /\ IF ppc /\ fac
       THEN \E k \in PageLoads :
              pageLoad = [j \in PageLoads |-> IF j = k THEN "strategy" ELSE "no"]
       ELSE pageLoad = [j \in PageLoads |-> "no"]
  /\ sess = None
  /\ everCreated = FALSE
  /\ phase = [s \in Sessions |-> "none"]
  /\ sessPc = [s \in Sessions |-> None]
  /\ openPcs = {}
  /\ pcId = None
  /\ timer = "none"
  /\ orphans = 0
  /\ allowed = FALSE
  /\ closed = FALSE

-----------------------------------------------------------------------------
(* What the methods are made of.                                           *)

\* The media session's end, whatever brought it about: its peer connection is
\* closed.  A session that was never connected, or has ended, stays as it is.
Ending(s) == {t \in Sessions : t = s /\ phase[t] \in Live}
Ended(s) ==
  [phase |-> [t \in Sessions |-> IF t \in Ending(s) THEN "ended" ELSE phase[t]],
   pc    |-> [t \in Sessions |-> IF t \in Ending(s) THEN None ELSE sessPc[t]],
   open  |-> openPcs \ {sessPc[t] : t \in Ending(s)}]
End(s) ==
  /\ phase' = Ended(s).phase
  /\ sessPc' = Ended(s).pc
  /\ openPcs' = Ended(s).open

\* destroy(), past its guards: hang the session up and forget it.  A session
\* in setup fails instead, and handleSharedMediaSessionFailed forgets it first.
Teardown ==
  /\ End(sess)
  /\ sess' = None
  /\ pcId' = None
  /\ timer' = "none"
  /\ UNCHANGED <<everCreated, orphans>>

SessionUnchanged == UNCHANGED <<sessionVars, timerVars>>

\* Mutant: destroy() does not look at the calls.
DestroyIdle_InUse == IF sess # None THEN Teardown ELSE SessionUnchanged

\* destroy(): refused while there are calls.
DestroyIdle == IF calls = {} /\ sess # None THEN Teardown ELSE SessionUnchanged

\* startInactivityTimer: the handle of a timer that still runs is overwritten.
StartTimer ==
  /\ timer = "running" => orphans < MaxOrphans
  /\ timer' = "running"
  /\ orphans' = IF timer = "running" THEN orphans + 1 ELSE orphans

\* _setupPageLoadPersistentConnection, up to its first await.
StartPageLoad ==
  \E k \in PageLoads :
    /\ pageLoad[k] = "no"
    /\ pageLoad' = [pageLoad EXCEPT ![k] = "strategy"]

\* isSharedMediaSessionHealthy; the ICE and channel state are the browser's.
Healthy(ok) == phase[sess] = "talking" /\ ok

\* isPersistentConnectionAllowlistedAndEnabled
Persistent == ppc /\ allowed

\* Mutant: the call waits for a response to connectContact.
Joined_Waits(cs) ==
  [c \in Calls |-> IF c \in cs /\ callState[c] = "Initial" THEN "ConnectContact"
                   ELSE callState[c]]

\* sessionConnected: InitialState passes through ConnectContact to Talking.
Joined(cs) ==
  [c \in Calls |-> IF c \in cs /\ callState[c] = "Initial" THEN "Talking"
                   ELSE callState[c]]

-----------------------------------------------------------------------------
(* Calls.                                                                  *)

\* createSession: an unhealthy session is destroyed unless a call uses it, and
\* when there is none a new one is created for this call.
CreateSession(c, ok) ==
  LET unhealthy == sess # None /\ ~Healthy(ok)
      fresh     == sess = None \/ (unhealthy /\ calls = {})
  IN
  /\ ~closed
  /\ callState[c] = "none"
  /\ callState' = [callState EXCEPT ![c] = "Initial"]
  /\ calls' = calls \union {c}
  /\ IF fresh
       THEN /\ phase' = [Ended(sess).phase EXCEPT ![c] = "new"]
            /\ sessPc' = Ended(sess).pc
            /\ openPcs' = Ended(sess).open
            /\ sess' = c
            /\ everCreated' = TRUE
            /\ pcId' = None
            /\ timer' = IF unhealthy THEN "none" ELSE timer
            /\ UNCHANGED orphans
       ELSE SessionUnchanged
  /\ UNCHANGED <<connecting, uaKnown, pageLoad, configVars>>

\* connect(), from the agent data on: join the established session, or wait
\* for a peer connection.
JoinOrWait(c) ==
  CASE sess # None /\ phase[sess] = "talking" ->
         /\ callState' = Joined({c})
         /\ connecting' = [connecting EXCEPT ![c] = "done"]
    [] sess # None /\ phase[sess] # "talking" ->
         /\ connecting' = [connecting EXCEPT ![c] = "pc"]
         /\ UNCHANGED callState
    [] sess = None ->
         /\ connecting' = [connecting EXCEPT ![c] = "done"]
         /\ UNCHANGED callState

\* connect(c): the inactivity timer is cleared; the agent data is fetched once.
Connect(c) ==
  /\ c \in calls
  /\ connecting[c] = "no"
  /\ timer' = "none"
  /\ IF uaKnown
       THEN JoinOrWait(c)
       ELSE /\ connecting' = [connecting EXCEPT ![c] = "agentData"]
            /\ UNCHANGED callState
  /\ UNCHANGED <<calls, uaKnown, pageLoad, sessionVars, orphans,
                 configVars>>

\* The browser answers, or fails to.
AgentData(c, known) ==
  /\ connecting[c] = "agentData"
  /\ uaKnown' = known
  /\ JoinOrWait(c)
  /\ UNCHANGED <<calls, pageLoad, sessionVars, timerVars, configVars>>

\* Mutant: only a session that has been connected before is connected.
PcReady_NotNew(c) ==
  /\ connecting[c] = "pc"
  /\ connecting' = [connecting EXCEPT ![c] = "done"]
  /\ openPcs' = openPcs \union {c}
  /\ IF sess # None /\ phase[sess] # "new"
       THEN /\ phase' = [phase EXCEPT ![sess] = "setup"]
            /\ sessPc' = [sessPc EXCEPT ![sess] = c]
       ELSE UNCHANGED <<phase, sessPc>>
  /\ UNCHANGED <<calls, callState, uaKnown, pageLoad, sess, everCreated, pcId,
                 timerVars, configVars>>

\* _getIdleOrCreatePeerConnection answers: whatever session there is by now
\* is connected.  With none the call to it throws and the connection is lost.
PcReady(c) ==
  /\ connecting[c] = "pc"
  /\ connecting' = [connecting EXCEPT ![c] = IF sess # None THEN "done" ELSE "rejected"]
  /\ openPcs' = openPcs \union {c}
  /\ IF sess # None
       THEN /\ phase' = [phase EXCEPT ![sess] = "setup"]
            /\ sessPc' = [sessPc EXCEPT ![sess] = c]
       ELSE UNCHANGED <<phase, sessPc>>
  /\ UNCHANGED <<calls, callState, uaKnown, pageLoad, sess, everCreated, pcId,
                 timerVars, configVars>>

\* The strategy cannot create the peer connection, or the session, given none,
\* cannot: connect() rejects, and session and call stay as they are.
PcRejected(c) ==
  /\ connecting[c] = "pc"
  /\ connecting' = [connecting EXCEPT ![c] = "rejected"]
  /\ UNCHANGED <<calls, callState, uaKnown, pageLoad, sessionVars, timerVars,
                 configVars>>

\* hangup() of some calls or of all; the last one to leave destroys the session
\* or has it timed.
Hangup(cs, ok) ==
  /\ calls' = calls \ cs
  /\ callState' = [c \in Calls |->
                     IF c \in calls \intersect cs /\ callState[c] = "Talking"
                       THEN "Disconnected" ELSE callState[c]]
  /\ CASE calls' # {} \/ sess = None ->
            SessionUnchanged
       [] calls' = {} /\ sess # None /\ ~(Healthy(ok) /\ Persistent) ->
            Teardown
       [] calls' = {} /\ sess # None /\ Healthy(ok) /\ Persistent ->
            StartTimer /\ UNCHANGED sessionVars
  /\ UNCHANGED <<connecting, uaKnown, pageLoad, configVars>>

-----------------------------------------------------------------------------
(* What the media session reports.                                         *)

\* onSignalingAnswered: allowlisting, id and inactivity duration (positive
\* when allowlisted) of the connection.
SessionAnswered(s, allowlisted) ==
  /\ phase[s] = "setup"
  /\ allowed' = allowlisted
  /\ pcId' = IF allowlisted THEN s ELSE None
  /\ UNCHANGED <<callVars, pageLoad, sess, everCreated, phase, sessPc, openPcs,
                 timerVars, ppc, fac, closed>>

\* Mutant: only the call that created the session is told.
SessionConnected_TellsOne(s) ==
  /\ phase[s] = "setup"
  /\ phase' = [phase EXCEPT ![s] = "talking"]
  /\ callState' = Joined(calls \intersect {s})
  /\ IF calls = {} /\ allowed THEN StartTimer ELSE UNCHANGED timerVars
  /\ UNCHANGED <<calls, connecting, uaKnown, pageLoad, sess, everCreated, sessPc,
                 openPcs, pcId, configVars>>

\* Mutant: no inactivity timer without a call.
SessionConnected_Untimed(s) ==
  /\ phase[s] = "setup"
  /\ phase' = [phase EXCEPT ![s] = "talking"]
  /\ callState' = Joined(calls)
  /\ UNCHANGED <<calls, connecting, uaKnown, pageLoad, sess, everCreated, sessPc,
                 openPcs, pcId, timerVars, configVars>>

\* onSharedMediaSessionConnected: the waiting calls join; without a call the
\* inactivity timer is started.
SessionConnected(s) ==
  /\ phase[s] = "setup"
  /\ phase' = [phase EXCEPT ![s] = "talking"]
  /\ callState' = Joined(calls)
  /\ IF calls = {} /\ allowed THEN StartTimer ELSE UNCHANGED timerVars
  /\ UNCHANGED <<calls, connecting, uaKnown, pageLoad, sess, everCreated, sessPc,
                 openPcs, pcId, configVars>>

\* Mutant: the failed calls stay in the map.
SessionFailed_KeepsCalls(s) ==
  /\ phase[s] \in Live
  /\ End(s)
  /\ callState' = [c \in Calls |->
                     IF c \in calls /\ callState[c] \in {"Initial", "Talking"}
                       THEN "Failed" ELSE callState[c]]
  /\ sess' = None
  /\ pcId' = None
  /\ timer' = "none"
  /\ UNCHANGED <<calls, connecting, uaKnown, pageLoad, everCreated,
                 orphans, configVars>>

\* onSharedMediaSessionFailed: the calls fail, then everything is forgotten.
SessionFailed(s) ==
  /\ phase[s] \in Live
  /\ End(s)
  /\ callState' = [c \in Calls |->
                     IF c \in calls /\ callState[c] \in {"Initial", "Talking"}
                       THEN "Failed" ELSE callState[c]]
  /\ calls' = {}
  /\ sess' = None
  /\ pcId' = None
  /\ timer' = "none"
  /\ UNCHANGED <<connecting, uaKnown, pageLoad, everCreated, orphans,
                 configVars>>

\* BYE from the server ends the session.  Its completion is told to nobody:
\* registerCallbacks looks for a name the manager does not pass.
SessionHungUp(s) ==
  /\ phase[s] = "talking"
  /\ End(s)
  /\ UNCHANGED <<callVars, pageLoad, sess, everCreated, pcId, timerVars,
                 configVars>>

\* PC_BYE for the connection the manager knows.
PcBye ==
  /\ pcId # None
  /\ DestroyIdle
  /\ UNCHANGED <<callVars, pageLoad, configVars>>

-----------------------------------------------------------------------------
(* Timers, settings and page load.                                         *)

TimerFires ==
  /\ timer = "running"
  /\ IF calls = {} /\ sess # None
       THEN Teardown
       ELSE timer' = "fired" /\ UNCHANGED <<sessionVars, orphans>>
  /\ UNCHANGED <<callVars, pageLoad, configVars>>

OrphanFires ==
  /\ orphans > 0
  /\ orphans' = orphans - 1
  /\ IF calls = {} /\ sess # None
       THEN End(sess) /\ sess' = None /\ pcId' = None /\ timer' = "none"
            /\ UNCHANGED everCreated
       ELSE UNCHANGED <<sessionVars, timer>>
  /\ UNCHANGED <<callVars, pageLoad, configVars>>

\* destroy() called by the application.
Destroy ==
  /\ DestroyIdle
  /\ UNCHANGED <<callVars, pageLoad, configVars>>

\* handlePersistentPeerConnectionToggle
Toggle ==
  /\ ~closed
  /\ calls = {} /\ allowed
  /\ ppc' = ~ppc
  /\ IF ppc
       THEN DestroyIdle /\ UNCHANGED pageLoad
       ELSE SessionUnchanged /\ (IF fac THEN StartPageLoad ELSE UNCHANGED pageLoad)
  /\ UNCHANGED <<callVars, fac, allowed, closed>>

\* handleFACUpdate
FacUpdate ==
  /\ ~closed
  /\ fac' = ~fac
  /\ IF ~fac /\ ppc /\ calls = {} /\ sess = None /\ ~everCreated
       THEN StartPageLoad
       ELSE UNCHANGED pageLoad
  /\ UNCHANGED <<callVars, sessionVars, timerVars, ppc, allowed, closed>>

\* The strategy is connected, or rejects; the first recheck after an await.
StrategyConnected(k, ok) ==
  /\ pageLoad[k] = "strategy"
  /\ pageLoad' = [pageLoad EXCEPT ![k] = IF ok /\ ~closed /\ sess = None
                                           THEN "pc" ELSE "done"]
  /\ UNCHANGED <<callVars, sessionVars, timerVars, configVars>>

\* Mutant: the session is not looked at again after the second await.
PageLoadPcReady_NoRecheck(k) ==
  /\ pageLoad[k] = "pc"
  /\ pageLoad' = [pageLoad EXCEPT ![k] = "done"]
  /\ IF ~closed
       THEN /\ sess' = k
            /\ everCreated' = TRUE
            /\ phase' = [phase EXCEPT ![k] = "setup"]
            /\ sessPc' = [sessPc EXCEPT ![k] = k]
            /\ openPcs' = openPcs \union {k}
            /\ UNCHANGED pcId
       ELSE UNCHANGED sessionVars
  /\ UNCHANGED <<callVars, timerVars, configVars>>

\* A peer connection for the page-load session; the second recheck.
PageLoadPcReady(k) ==
  /\ pageLoad[k] = "pc"
  /\ pageLoad' = [pageLoad EXCEPT ![k] = "done"]
  /\ IF ~closed /\ sess = None
       THEN /\ sess' = k
            /\ everCreated' = TRUE
            /\ phase' = [phase EXCEPT ![k] = "setup"]
            /\ sessPc' = [sessPc EXCEPT ![k] = k]
            /\ openPcs' = openPcs \union {k}
            /\ UNCHANGED pcId
       ELSE UNCHANGED sessionVars
  /\ UNCHANGED <<callVars, timerVars, configVars>>

\* No peer connection for it: the creation rejects, or it answers null and the
\* session, created by then, cannot create one.  That session stays.
PageLoadPcRejected(k) ==
  /\ pageLoad[k] = "pc"
  /\ pageLoad' = [pageLoad EXCEPT ![k] = "done"]
  /\ \/ UNCHANGED sessionVars
     \/ /\ ~closed /\ sess = None
        /\ sess' = k
        /\ everCreated' = TRUE
        /\ phase' = [phase EXCEPT ![k] = "new"]
        /\ UNCHANGED <<sessPc, openPcs, pcId>>
  /\ UNCHANGED <<callVars, timerVars, configVars>>

\* close(): either the session or the standby connection.
Close ==
  /\ ~closed
  /\ closed' = TRUE
  /\ IF Persistent THEN DestroyIdle ELSE SessionUnchanged
  /\ UNCHANGED <<callVars, pageLoad, ppc, fac, allowed>>

-----------------------------------------------------------------------------
Call(c) ==
  \/ \E ok \in BOOLEAN : CreateSession(c, ok)
  \/ Connect(c)
  \/ \E known \in BOOLEAN : AgentData(c, known)
  \/ PcReady(c)
  \/ PcRejected(c)
  \/ \E ok \in BOOLEAN : Hangup({c}, ok)

Report(s) ==
  \/ \E allowlisted \in BOOLEAN : SessionAnswered(s, allowlisted)
  \/ SessionConnected(s)
  \/ SessionFailed(s)
  \/ SessionHungUp(s)

PageLoadStep(k) ==
  \/ \E ok \in BOOLEAN : StrategyConnected(k, ok)
  \/ PageLoadPcReady(k)
  \/ PageLoadPcRejected(k)

Next ==
  \/ \E c \in Calls : Call(c)
  \/ \E ok \in BOOLEAN : Hangup(Calls, ok)
  \/ \E s \in Sessions : Report(s)
  \/ \E k \in PageLoads : PageLoadStep(k)
  \/ PcBye
  \/ TimerFires
  \/ OrphanFires
  \/ Destroy
  \/ Toggle
  \/ FacUpdate
  \/ Close

Spec == Init /\ [][Next]_vars

\* The browser answers for the agent data.  Nothing is assumed of the agent, the
\* application, its credentials API, the server or the end of a setup.
FairSpec ==
  /\ Spec
  /\ \A c \in Calls : WF_vars(\E known \in BOOLEAN : AgentData(c, known))

-----------------------------------------------------------------------------
(* Properties.                                                             *)

\* No media session runs on behind the manager's back: whatever page-load
\* setup, calls, timers and failures race, the one that is being set up or
\* talks is the one the manager holds (the rechecks after each await of
\* _setupPageLoadPersistentConnection, and destroy).
LiveSessionIsCurrent == \A s \in Sessions : phase[s] \in Live => s = sess

\* A call the manager keeps has a media session to wait for (createSession,
\* the guard of destroy and the cleanup of handleSharedMediaSessionFailed):
\* the precondition connect() relies on.
CallsHaveSession == calls # {} => sess # None

\* A call that sends no connectContact because it created the session is
\* served by that very session, whose INVITE names it (createSession's
\* shouldSkipConnectContact).
SkippedContactIsInvited ==
  \A c \in calls : phase[c] # "none" => sess = c

\* A persistent connection without a call is being timed, so that it cannot
\* stay up for ever (hangup, onSharedMediaSessionConnected, connect).
IdleConnectionIsTimed ==
  /\ sess # None /\ phase[sess] = "talking"
  /\ calls = {} /\ allowed
  => timer = "running"

\* No call is forgotten: one that has gone through connect() and has not
\* joined waits for a session that is being set up, and will be told of its
\* outcome (_notifyAllCallSessionsOfEvent, the established branch of connect).
NoCallForgotten ==
  \A c \in calls :
    callState[c] = "Initial" /\ connecting[c] = "done" => phase[sess] = "setup"

\* Every connect() has an outcome: the call talks, fails or is hung up, or
\* connect() rejects.  What else can hold it for ever is not the manager's: its
\* own request for a peer connection that is not answered, or the setup of the
\* session it waits for that does not end (Forsaken in SharedMediaSession).
HasOutcome(c) ==
  \/ callState[c] \in {"Talking", "Failed"}
  \/ connecting[c] = "rejected"
  \/ c \notin calls

CallSettles ==
  \A c \in Calls :
    connecting[c] # "no" ~>
      \/ HasOutcome(c)
      \/ [](connecting[c] = "pc")
      \/ [](c \in calls /\ connecting[c] = "done" /\ phase[sess] = "setup")

-----------------------------------------------------------------------------
(* What a comment of the code says and the code does not do.               *)

\* handleSharedMediaSessionCompleted "is called when the shared media session
\* naturally completes" and forgets it (rtc_peer_connection_manager_v2.ts).
CompletedSessionForgotten == sess # None => phase[sess] # "ended"
=============================================================================
