----------------------- MODULE RtcPeerConnectionManager -----------------------
(***************************************************************************)
(* The V1 connection manager (src/src/rtc_peer_connection_manager.js): it  *)
(* owns the standby or persistent peer connection, the signaling channel   *)
(* and "the" session, and hands them to each call.  Beside the calls there *)
(* are sessions without a contact, which set a persistent connection up    *)
(* ahead of time and end when it stands (AcceptState, lines 410-420 of     *)
(* rtc_session.js).                                                        *)
(*                                                                         *)
(* Manager, sessions and channels call each other synchronously and null   *)
(* each other's fields on the way, so the whole is one record and a        *)
(* handler an operator from the record before to the record after.  The    *)
(* setup of a session and of its channel (modules RtcSession and           *)
(* RtcSignaling) appears here by the points at which the manager is        *)
(* touched.  0 is null throughout.                                         *)
(***************************************************************************)
EXTENDS Naturals

CONSTANTS
  MaxSessions,         \* bound on the sessions created
  MaxPcs               \* bound on the peer connections somebody refers to

\* Every session and every channel may refer to a connection, and so may the
\* manager; there are two more than that.
ASSUME BoundsAssumption ==
  /\ MaxSessions \in Nat \ {0}
  /\ MaxPcs \in Nat /\ MaxPcs >= 2 * MaxSessions + 3

VARIABLE m

Sessions == 1..MaxSessions
Pcs      == 1..MaxPcs

\* "setup" is everything up to the local description, "signaling" the state
\* ConnectSignalingAndIceCollection; InviteAnswerState is "invited", and "forsaken"
\* once its channel has taken an answer without an SDP; "contact" is
\* ConnectContactState, left in the handler that enters it unless that throws.
SessionStates == {"none", "created", "setup", "signaling", "invited", "forsaken",
                  "accepted", "contact", "talking", "disconnected", "failed"}
Active        == {"setup", "signaling", "invited", "forsaken", "accepted", "contact",
                  "talking"}
Ended         == {"disconnected", "failed"}

ChannelStates == {"none", "PendingConnect", "PendingInvite", "PendingAnswer",
                  "Idle", "Talking", "PendingRemoteHangup", "PendingLocalHangup",
                  "Disconnected", "Failed"}

\* The states in which a channel that is lost to everybody does nothing more
\* that would reach the manager.
Inert == ChannelStates \ {"none", "PendingAnswer", "Idle", "Talking"}

\* "rejected" by the channel, which gives no reason, or by what connect() "threw".
Promises == {"pending", "resolved", "rejected", "threw"}

SessionRecord ==
  [state   : SessionStates,
   ahead   : BOOLEAN,                  \* created by an activation, for no call
   token   : 0..MaxSessions,           \* _contactToken: the call it belongs to
   pc      : 0..MaxPcs,                \* _pc
   sig     : 0..MaxSessions,           \* _signalingChannel
   promise : Promises]                 \* what connect() returned

\* A channel has the number of the session that created it.
ChannelRecord ==
  [state : ChannelStates,
   bound : 0..MaxSessions,             \* whose handlers it calls
   pc    : 0..MaxPcs]                  \* the connection it negotiated

\* History, for the properties: a standby connection arrived in the persistent
\* mode; an activation was answered when a connection or a session was there
\* already; a session was created while another one had not ended; a channel that
\* is not the manager's changed the mode.
Overlaps == SUBSET {"standby", "activation", "sessions", "mode"}

Manager ==
  [enabled   : BOOLEAN,                \* _isPPCEnabled
   allowed   : BOOLEAN,                \* _isRTPSAllowlisted
   agent     : BOOLEAN,                \* _userAgentData is known
   pc        : 0..MaxPcs,              \* _pc
   standby   : BOOLEAN,                \* the refresh timer of _idlePc runs
   inFlight  : BOOLEAN,                \* _peerConnectionRequestInFlight
   requests  : SUBSET {"refresh", "activate"},   \* persistent connections asked for
   inactive  : BOOLEAN,                \* the inactivity timer runs
   current   : 0..MaxSessions,         \* _rtcSession
   token     : 0..MaxSessions,         \* _contactToken
   channel   : 0..MaxSessions,         \* _signalingChannel
   pending   : 0..MaxSessions,         \* _rtcSessionConnectPromise
   waiting   : 0..MaxSessions,         \* the promise a connect() awaits
   suspended : 0..MaxSessions,         \* whose connect() awaits getUserAgentData
   closed    : SUBSET Pcs,             \* those of them that are closed
   raced     : Overlaps,               \* what has overlapped so far
   ses       : [Sessions -> SessionRecord],
   chan      : [Sessions -> ChannelRecord]]

Persistent(w) == w.enabled /\ w.allowed

NoSession == [state |-> "none", ahead |-> FALSE, token |-> 0, pc |-> 0, sig |-> 0,
              promise |-> "pending"]
NoChannel == [state |-> "none", bound |-> 0, pc |-> 0]

\* Either the manager was just constructed, and not being allowlisted requests
\* a standby connection; or it has had calls and is between two of them, not in
\* the persistent mode.
Init ==
  \E isPPCEnabled, isAllowed, agent, inFlight, standby \in BOOLEAN :
    /\ ~(isPPCEnabled /\ isAllowed) /\ ~(inFlight /\ standby)
    /\ ~agent => inFlight /\ ~isAllowed
    /\ m = [enabled |-> isPPCEnabled, allowed |-> isAllowed, agent |-> agent,
            standby |-> standby, inFlight |-> inFlight, raced |-> {},
            requests |-> {}, inactive |-> FALSE,
            pc |-> 0, closed |-> {}, current |-> 0, token |-> 0, channel |-> 0,
            pending |-> 0, waiting |-> 0, suspended |-> 0,
            ses |-> [s \in Sessions |-> NoSession],
            chan |-> [s \in Sessions |-> NoChannel]]

-----------------------------------------------------------------------------
(* Peer connections.                                                       *)

\* Mutant: a connection that is not there is closed as well.
Close_Null(w, p) == [w EXCEPT !.closed = @ \union {p}]

\* strategy.close()
Close(w, p) == [w EXCEPT !.closed = @ \union ({p} \ {0})]

\* The connections somebody can still reach.
Referenced(w) ==
  {w.pc} \union {w.ses[s].pc : s \in Sessions}
    \union {w.chan[c].pc : c \in Sessions}

\* A new connection takes a number nobody refers to.
NewPc(w) == CHOOSE p \in Pcs : p \notin Referenced(w) \union w.closed

\* closeEarlyMediaConnection
CloseEarlyMedia(w) == [w EXCEPT !.standby = FALSE]

\* requestPeerConnection up to its await.
Request(w, why) ==
  CASE Persistent(w) /\ w.token = 0 -> [w EXCEPT !.requests = @ \union {why}]
    [] ~Persistent(w)               -> [w EXCEPT !.inFlight = TRUE]
    [] OTHER                        -> w

\* getPeerConnection
GetPc(w) ==
  IF Persistent(w)
    THEN IF w.pc # 0 THEN w ELSE [w EXCEPT !.pc = NewPc(w)]
    ELSE Request([w EXCEPT !.standby = FALSE, !.pc = NewPc(w)],
                 "refresh")

-----------------------------------------------------------------------------
(* The channel, as the manager and the sessions use it.                    *)

\* bye(): the states not named ignore it, FailedState only sends.
Bye(w, c) ==
  IF w.chan[c].state \in {"Idle", "Talking"}
    THEN [w EXCEPT !.chan[c].state = "PendingRemoteHangup"] ELSE w

InUse(w) == w.current # 0 /\ w.ses[w.current].state \in {"talking", "contact"}

\* Mutant: the session's state is not looked at.
Destroy_InUse(w, byServer) ==
  IF w.pc = 0 THEN w
  ELSE LET said == IF ~byServer /\ w.channel # 0 THEN Bye(w, w.channel) ELSE w IN
       [Close(said, w.pc) EXCEPT !.pc = 0, !.channel = 0, !.inactive = FALSE]

\* destroy(): refused while the manager's session is in a conversation.
Destroy(w, byServer) ==
  IF InUse(w) \/ w.pc = 0 THEN w
  ELSE LET said == IF ~byServer /\ w.channel # 0 THEN Bye(w, w.channel) ELSE w IN
       [Close(said, w.pc) EXCEPT !.pc = 0, !.channel = 0, !.inactive = FALSE]

\* What follows every failure the manager hears of: the session is forgotten,
\* the connection torn down, the contact token dropped.
Forget(w) == [Destroy([w EXCEPT !.current = 0], FALSE) EXCEPT !.token = 0]

-----------------------------------------------------------------------------
(* Sessions.                                                               *)

Over(w, s) == w.ses[s].state \in Ended

\* A session that was created and is not the manager's is never connected.
Alive(w, s) == w.ses[s].state \in Active \/ (w.ses[s].state = "created" /\ w.current = s)

\* _stopSession: a persistent connection is left open.
StopSession(w, s) ==
  IF Persistent(w) THEN w ELSE [Close(w, w.ses[s].pc) EXCEPT !.ses[s].pc = 0]

\* transit(FailedState).  Its handler forgets the manager's session, whichever
\* that is.
Fail(w, s) == StopSession(Forget([w EXCEPT !.ses[s].state = "failed"]), s)

\* The promise that connect() of session s returned settles.
Settle(w, s, how) ==
  IF s = 0 \/ w.ses[s].promise # "pending" THEN w
  ELSE [w EXCEPT !.ses[s].promise = how]

\* What channel c hears of the access decides about the persistent mode.
Allow(w, c, ok) ==
  [w EXCEPT !.allowed = ok,
            !.raced = IF ok # w.allowed /\ w.channel # c THEN @ \union {"mode"} ELSE @]

\* FailedState of the channel: a refusal of access ends the persistent mode.
\* Only a session that waits for signaling fails, one that talks does when
\* access was denied, and the others throw.
FailChannel(w, c, denied) ==
  LET b      == w.chan[c].bound
      failed == [w EXCEPT !.chan[c].state = "Failed"]
      mode   == IF denied THEN Allow(CloseEarlyMedia(failed), c, FALSE) ELSE failed
  IN CASE w.ses[b].state \in {"signaling", "invited", "forsaken"} ->
            Settle(Fail(mode, b), b, "rejected")
       [] w.ses[b].state = "talking" /\ denied -> Fail(mode, b)
       [] OTHER -> mode

\* hangup(): TalkingState of a persistent connection disconnects the contact.
HangupChannel(w, c) ==
  CASE w.chan[c].state = "Talking" /\ Persistent(w) ->
         [w EXCEPT !.chan[c].state = "Idle", !.inactive = TRUE]
    [] w.chan[c].state = "PendingLocalHangup" ->
         [w EXCEPT !.chan[c].state = "Disconnected"]
    [] w.chan[c].state = "PendingAnswer" -> FailChannel(w, c, FALSE)
    [] OTHER -> Bye(w, c)

\* transit(DisconnectedState).  From TalkingState onSessionCompleted inspects the
\* connection; sick: its ICE state is bad.
Disconnect(w, s, sick) ==
  LET checked ==
        IF w.ses[s].state = "talking" /\ w.channel # 0 /\ w.pc # 0
           /\ (sick \/ w.chan[w.channel].state = "Failed")
          THEN Forget(w) ELSE w
  IN StopSession([checked EXCEPT !.ses[s].state = "disconnected"], s)

\* hangup() of a session; one that was never connected, or that talks while the
\* manager has no channel, throws.
HangupSession(w, s, sick) ==
  CASE w.ses[s].state = "talking" /\ w.channel # 0 ->
         Disconnect(HangupChannel(w, w.channel), s, sick)
    [] w.ses[s].state \in Active \ {"talking"} ->
         Fail(w, s)
    [] OTHER -> w

\* Mutant: the session is forgotten before it is hung up.
Hangup_Forgotten(w, sick) ==
  LET over == [w EXCEPT !.current = 0, !.token = 0] IN
  IF Persistent(over) THEN over ELSE [over EXCEPT !.channel = 0, !.pc = 0]

\* hangup() of the manager.
Hangup(w, sick) ==
  LET hung == IF w.current = 0 THEN w ELSE HangupSession(w, w.current, sick)
      over == [hung EXCEPT !.current = 0, !.token = 0]
  IN IF Persistent(over) THEN over ELSE [over EXCEPT !.channel = 0, !.pc = 0]

\* createSession(): when the virtual desktop has disconnected since the last one
\* (cleanup), everything is torn down first, the ICE servers included, without
\* which it throws unless the caller brings some.  call: the contact, or 0.
CreateSession(w, s, call, cleanup) ==
  LET clean == IF cleanup THEN Forget(w) ELSE w
      token == IF call = 0 THEN clean.token ELSE call
      others == {t \in Sessions \ {s} : Alive(clean, t)}
  IN [clean EXCEPT !.current = s, !.token = token,
                   !.raced = IF others = {} THEN @ ELSE @ \union {"sessions"},
                   !.ses[s] = [NoSession EXCEPT !.state = "created",
                                                !.ahead = (call = 0),
                                                !.token = token]]

\* ConnectContactState: only an idle channel takes the contact, and another one
\* makes connect() throw.
ConnectContact(w, s) ==
  LET bound == [w EXCEPT !.ses[s].sig = w.channel, !.chan[w.channel].bound = s] IN
  IF w.chan[w.channel].state = "Idle"
    THEN [bound EXCEPT !.chan[w.channel].state = "Talking",
                       !.ses[s].state = "talking"]
    ELSE [bound EXCEPT !.ses[s].state = "contact", !.ses[s].promise = "threw"]

\* RtcSession.connect(pc): a closed connection is replaced by one of its own.
ConnectSession(w, s) ==
  LET with == [w EXCEPT !.ses[s].pc = IF w.pc \in w.closed THEN NewPc(w) ELSE w.pc]
  IN IF Persistent(w) /\ w.channel # 0 THEN ConnectContact(with, s)
     ELSE [with EXCEPT !.ses[s].state = "setup"]

\* connect() from getPeerConnection on; without a session it has thrown before.
Begin(w) == IF w.current = 0 THEN w ELSE ConnectSession(GetPc(w), w.current)

\* connect() after the promise; the agent's data is read once.
Proceed(w) ==
  LET awake == [w EXCEPT !.inactive = FALSE] IN
  CASE w.current = 0             -> awake
    [] w.current # 0 /\ w.agent  -> Begin(awake)
    [] w.current # 0 /\ ~w.agent -> [awake EXCEPT !.suspended = w.current]

\* connect() whose promise was rejected is to tell the manager's session that it
\* failed (line 478).  That throws if the session has been nulled, or if there
\* is no reason to give; the session then stays as it was created.
GiveUp(w, how) ==
  IF w.current = 0 \/ how = "rejected" THEN w
  ELSE [Forget(w) EXCEPT !.ses[w.current].state = "failed"]

\* connect() after the promise of session p has settled.
GoOn(w, p) ==
  LET woken == [w EXCEPT !.waiting = 0, !.pending = 0] IN
  IF w.ses[p].promise = "resolved" THEN Proceed(woken)
                                   ELSE GiveUp(woken, w.ses[p].promise)

\* connect().
Connect(w) ==
  IF w.pending = 0 THEN Proceed(w)
  ELSE IF w.ses[w.pending].promise = "pending" THEN [w EXCEPT !.waiting = w.pending]
  ELSE GoOn(w, w.pending)

\* Mutant: a rejection wakes nobody.
Resume_Resolved(w) ==
  IF w.waiting # 0 /\ w.ses[w.waiting].promise = "resolved"
    THEN Proceed([w EXCEPT !.waiting = 0, !.pending = 0]) ELSE w

\* A connect() that awaits a settled promise goes on at the end of the task.
Resume(w) ==
  IF w.waiting = 0 \/ w.ses[w.waiting].promise = "pending" THEN w
  ELSE GoOn(w, w.waiting)

\* The continuation of an activation.  Its promise is kept, unless connect()
\* itself awaited a settled one, after which it clears the field.
Activate(w, s) ==
  LET connected == Connect(CreateSession(w, s, 0, FALSE)) IN
  IF w.pending # 0 /\ connected.waiting = 0 THEN connected
  ELSE [connected EXCEPT !.pending = s]

-----------------------------------------------------------------------------
(* Every action ends here.  What a session or a channel that is over held is *)
(* forgotten, and so are the connections nobody refers to.                   *)

Tidy(w) ==
  [w EXCEPT
     !.ses = [s \in Sessions |->
       IF Over(w, s)
         THEN [NoSession EXCEPT !.state = "failed", !.ahead = w.ses[s].ahead,
                 !.promise = IF s \in {w.pending, w.waiting} THEN w.ses[s].promise ELSE @]
         ELSE w.ses[s]],
     !.chan = [c \in Sessions |->
       IF /\ w.chan[c].state \in Inert /\ w.channel # c
          /\ w.chan[c].bound = 0 \/ Over(w, w.chan[c].bound)
         THEN NoChannel ELSE w.chan[c]]]

Becomes(w) ==
  LET tidy == Tidy(Resume(w)) IN
    m' = [tidy EXCEPT !.closed = @ \intersect Referenced(tidy)]

\* The number of a new session.  Bound: one connect() at a time awaits the
\* promise of another.
Free(s) ==
  /\ m.ses[s].state = "none" /\ \A t \in 1..(s - 1) : m.ses[t].state # "none"
  /\ m.waiting = 0

(* The application.                                                        *)

HasCall ==
  \E s \in Sessions : ~m.ses[s].ahead /\ m.ses[s].state \notin Ended \union {"none"}

\* createSession and connect for a contact.  The application has one call at a
\* time.
NewCall(s) ==
  /\ Free(s) /\ ~HasCall
  /\ \E cleanup \in BOOLEAN : Becomes(Connect(CreateSession(m, s, s, cleanup)))

\* A call whose session was not connected ends with the application's interest.
LetGo(w) ==
  [w EXCEPT !.ses = [s \in Sessions |->
     IF w.ses[s].state = "created" /\ ~w.ses[s].ahead
       THEN [w.ses[s] EXCEPT !.state = "failed"] ELSE w.ses[s]]]

\* The call is over for the application.  Bound: not while the agent's data is
\* awaited.
EndCall ==
  /\ HasCall /\ m.suspended = 0
  /\ \E sick \in BOOLEAN : Becomes(LetGo(Hangup(m, sick)))

\* handlePersistentPeerConnectionToggle(true).  Without a connection to await
\* (a contact token is left over) the continuation runs at once, and may throw.
ToggleOn(s) ==
  /\ Free(s)
  /\ m.current = 0 /\ ~m.enabled /\ m.allowed
  /\ LET on == CloseEarlyMedia([m EXCEPT !.enabled = TRUE]) IN
     \/ Becomes(Request(on, "activate"))
     \/ on.token # 0 /\ (Becomes(Activate(on, s)) \/ Becomes(Forget(on)))

ToggleOff ==
  /\ m.current = 0 /\ m.enabled /\ m.allowed
  /\ Becomes(Request(Destroy([m EXCEPT !.enabled = FALSE], FALSE), "refresh"))

\* close(), for which the application waits until it has no call.
CloseManager ==
  /\ ~HasCall
  /\ Becomes(IF Persistent(m) THEN Destroy(m, FALSE) ELSE CloseEarlyMedia(m))

-----------------------------------------------------------------------------
(* Answers and timers of the manager.                                      *)

\* The ICE servers for a standby connection, or a refusal.  The mode is not
\* looked at again, and a connection that is still there is not closed.
IdleReady ==
  /\ m.inFlight
  /\ \/ Becomes([m EXCEPT !.inFlight = FALSE])
     \/ Becomes([m EXCEPT !.inFlight = FALSE, !.standby = TRUE,
                          !.raced = IF Persistent(m) THEN @ \union {"standby"}
                                                     ELSE @])

\* The ICE servers for a persistent connection, which is created even if they
\* were refused.
PersistentPc(w, why) ==
  [w EXCEPT !.requests = @ \ {why}, !.pc = NewPc(w),
            !.raced = IF why = "activate" /\ (w.pc # 0 \/ w.current # 0)
                        THEN @ \union {"activation"} ELSE @]

\* A refresh, or an activation without ICE servers, which creates no session.
PersistentReady ==
  \E why \in m.requests : Becomes(PersistentPc(m, why))

Activated(s) ==
  /\ Free(s) /\ "activate" \in m.requests
  /\ Becomes(Activate(PersistentPc(m, "activate"), s))

\* An activation after a cleanup closes the connection it has just got.
ActivatedInVain ==
  /\ "activate" \in m.requests
  /\ Becomes(Forget(PersistentPc(m, "activate")))

\* _refreshRtcPeerConnection
RefreshTimer ==
  /\ m.standby
  /\ Becomes(Request([m EXCEPT !.standby = FALSE], "refresh"))

InactivityTimer ==
  /\ m.inactive
  /\ Becomes(Destroy([m EXCEPT !.inactive = FALSE], FALSE))

\* getUserAgentData answers.
AgentData ==
  /\ m.suspended # 0
  /\ Becomes(Begin([m EXCEPT !.suspended = 0, !.agent = TRUE]))

-----------------------------------------------------------------------------
(* The setup of a session.                                                 *)

Open(s) == m.ses[s].pc \notin m.closed

\* The local description is set: the session creates a channel, or binds the
\* one the manager has.
LocalDescriptionSet(s) ==
  /\ m.ses[s].state = "setup" /\ Open(s)
  /\ LET new == m.channel = 0
         c   == IF new THEN s ELSE m.channel
         set == [m EXCEPT !.ses[s].state = "signaling", !.ses[s].sig = c,
                          !.channel = c]
     IN Becomes(IF new
                  THEN [set EXCEPT !.chan[c] = [NoChannel EXCEPT
                                     !.state = "PendingConnect", !.bound = s]]
                  ELSE [set EXCEPT !.chan[c].bound = s])

\* The microphone, the offer or the candidates fail.
SetupFails(s) ==
  /\ m.ses[s].state \in {"setup", "signaling"}
  /\ Becomes(Fail(m, s))

\* The virtual socket has opened and the candidates are collected, whichever
\* comes last: the bound session sends its INVITE.
SignalingUp(c) ==
  /\ m.chan[c].state = "PendingConnect"
  /\ LET b == m.chan[c].bound IN
     Becomes(IF m.ses[b].state = "signaling"
               THEN [m EXCEPT !.chan[c].state = "PendingAnswer",
                              !.chan[c].pc = m.ses[b].pc,
                              !.ses[b].state = "invited"]
               ELSE [m EXCEPT !.chan[c].state = "PendingInvite"])

\* The answer says whether the connection may persist.
Allowlist(w, c, ok) ==
  Allow(IF ok /\ ~w.allowed THEN CloseEarlyMedia(w) ELSE w, c, ok)

Answers == {"usable", "unusable", "withoutSdp"}

\* notifyAnswered.  An answer without an SDP throws where the SDP is logged, and
\* a session that is not waiting for an answer throws as well.
NotifyAnswered(w, c, answer, ok) ==
  LET b     == w.chan[c].bound
      known == Allowlist(w, c, ok)
  IN IF w.ses[b].state # "invited"
       THEN IF answer = "withoutSdp" THEN w ELSE known
     ELSE IF answer = "withoutSdp" THEN [w EXCEPT !.ses[b].state = "forsaken"]
     ELSE IF answer = "usable" THEN [known EXCEPT !.ses[b].state = "accepted"]
     ELSE Fail(StopSession(known, b), b)

\* The answer to the INVITE; a usable one is accepted by the session, and the
\* channel sends ACCEPT in any case.  AcceptState then hears of the handshake.
Answered(c) ==
  /\ m.chan[c].state = "PendingAnswer"
  /\ \E ok \in BOOLEAN, answer \in Answers :
       LET b     == m.chan[c].bound
           heard == NotifyAnswered(m, c, answer, ok)
           idles == Persistent(heard) /\ heard.token = 0
           moved == IF idles
                      THEN [heard EXCEPT !.chan[c].state = "Idle", !.inactive = TRUE]
                      ELSE [heard EXCEPT !.chan[c].state = "Talking"]
       IN Becomes(IF moved.ses[b].state = "accepted"
                    THEN Settle(moved, b, "resolved") ELSE moved)

\* The remote description is set.  A session for no contact has done its work:
\* it takes itself out of the manager and ends.
RemoteDescriptionSet(s) ==
  /\ m.ses[s].state = "accepted" /\ Open(s)
  /\ IF m.ses[s].token = 0
       THEN Becomes(Disconnect([m EXCEPT !.current = 0], s, FALSE))
       ELSE Becomes([m EXCEPT !.ses[s].state = "talking"])

RemoteDescriptionRejected(s) ==
  /\ m.ses[s].state = "accepted" /\ Open(s)
  /\ Becomes(Fail(StopSession(m, s), s))

-----------------------------------------------------------------------------
(* Failures and messages of the channel.                                   *)

InviteRefused(c) ==
  /\ m.chan[c].state = "PendingAnswer"
  /\ \E denied \in BOOLEAN : Becomes(FailChannel(m, c, denied))

\* PendingAnswerState and PendingRemoteHangupState time out.
ChannelTimeout(c) ==
  /\ m.chan[c].state \in {"PendingAnswer", "PendingRemoteHangup"}
  /\ Becomes(FailChannel(m, c, FALSE))

\* An error in reply to ACCEPT, connectContact or disconnectContact.  In Idle
\* the manager's session, if any, makes it destroy the connection.
ReplyFails(c) ==
  \/ /\ m.chan[c].state = "Talking" \/ (m.chan[c].state = "Idle" /\ m.current = 0)
     /\ \E denied \in BOOLEAN : Becomes(FailChannel(m, c, denied))
  \/ /\ m.chan[c].state = "Idle" /\ m.current # 0
     /\ Becomes(Destroy(m, FALSE))

\* BYE: the bound session's handler is the manager's hangup().
ServerBye(c) ==
  /\ m.chan[c].state \in {"Idle", "Talking"}
  /\ \E sick \in BOOLEAN :
       Becomes(Hangup([m EXCEPT !.chan[c].state = "PendingLocalHangup"], sick))

ByeAnswered(c) ==
  /\ m.chan[c].state = "PendingRemoteHangup"
  /\ Becomes([m EXCEPT !.chan[c].state = "Disconnected"])

\* PC_BYE for the connection the manager holds; only IdleState listens.
ServerPcBye(c) ==
  /\ m.chan[c].state = "Idle" /\ m.channel = c
  /\ Becomes([Destroy(m, TRUE) EXCEPT !.chan[c].state = "Disconnected"])

-----------------------------------------------------------------------------
Application == (\E s \in Sessions : NewCall(s) \/ ToggleOn(s)) \/ EndCall
                 \/ ToggleOff \/ CloseManager
Background == IdleReady \/ PersistentReady \/ (\E s \in Sessions : Activated(s))
                \/ ActivatedInVain \/ RefreshTimer \/ InactivityTimer \/ AgentData
Setup(s) == LocalDescriptionSet(s) \/ SetupFails(s) \/ SignalingUp(s)
              \/ RemoteDescriptionSet(s) \/ RemoteDescriptionRejected(s)
Server(c) == Answered(c) \/ InviteRefused(c) \/ ReplyFails(c) \/ ServerBye(c)
               \/ ByeAnswered(c) \/ ServerPcBye(c)

Next == Application \/ Background
          \/ \E s \in Sessions : Setup(s) \/ Server(s) \/ ChannelTimeout(s)

Spec == Init /\ [][Next]_m

-----------------------------------------------------------------------------
(* Properties.                                                             *)

\* Types, and with them that only connections are closed (destroy() with its
\* `else if (this._pc)`, line 644, and _stopSession, rtc_session.js).
TypeOK == m \in Manager

Talks(s) == m.ses[s].state = "talking"

\* A session in conversation is the one the manager would hang up: hangup(),
\* the failure handlers and createSession() all drop _rtcSession (lines 410,
\* 504, 527, 607), and a conversation they forgot could never be ended.  Three
\* overlaps are excepted, each of which breaks it alone: a session created while
\* another is at work takes its place; an activation answered beside a call or
\* a connection clears _rtcSession after a cleanup (line 392); a standby
\* connection that arrives in the persistent mode has _pc overwritten on its
\* renewal (line 260), so that a failure can null the channel of a session that
\* goes on to talk and whose hangup then throws.  A change of mode by a channel
\* that is not the manager's is not.
CallIsHeld ==
  \A s \in Sessions : Talks(s) =>
    m.current = s \/ m.raced \intersect {"sessions", "activation", "standby"} # {}

\* Who talks does so over an open connection, the one its channel's INVITE was
\* about: the contact of a persistent connection is put on whatever channel and
\* connection the manager holds (lines 552-553), which timers, BYEs, mode
\* changes and failures replace one by one.  Where requests overlap the code
\* does not keep this: a standby connection's refresh (line 260) and an
\* activation's answer (line 201) overwrite _pc in the persistent mode.
TalksOnNegotiated ==
  \A s \in Sessions : Talks(s) =>
    \/ m.ses[s].pc = m.chan[m.ses[s].sig].pc /\ m.ses[s].pc \notin m.closed
    \/ m.raced # {}

\* The session's setup failed before its signaling did: nothing settles its
\* promise any more.
Abandoned(s) == m.ses[s].state \in Ended /\ m.ses[s].promise = "pending"

\* Its channel is not its own, or another session has been bound to it.
Shares(s) == m.ses[s].sig # s \/ m.chan[s].bound # s

\* It took the contact of a connection that had none: bound before connect() adds
\* its handlers, it is never told of the handshake.
Deaf(s) == Talks(s) /\ m.ses[s].promise = "pending"

\* Its INVITE was answered without an SDP, which it is not told (line 257 of
\* signaling.js) while its channel accepts and goes on.
Forsaken(s) == m.ses[s].state = "forsaken"

\* A connect() that waits for an earlier session's promise (line 475) waits for
\* something that can still happen: that session has its local description to
\* come, or a channel of its own that reports to it and has an answer or a
\* timeout to come.  Four cases are excepted, in which lines 555-569 may never
\* settle the promise: a setup that failed ahead of its signaling, a contact
\* put on a connection that had none, an answer without an SDP, and a channel
\* shared with a session created meanwhile.
WaiterIsAwaited ==
  m.waiting # 0 =>
    LET s == m.waiting IN
       \/ m.ses[s].state = "setup"
       \/ /\ m.ses[s].state \in {"signaling", "invited"}
          /\ Shares(s) \/ m.chan[s].state \in {"PendingConnect", "PendingAnswer"}
       \/ Abandoned(s) \/ Deaf(s) \/ Forsaken(s)

\* "notify softphoneManger the current rtcSession is failed to trigger the retry
\* strategy on SoftphoneManager side" (line 477): when the awaited promise is
\* rejected, the call that waited does not stay as it was created.  It does:
\* the failure has nulled _rtcSession, so that line 478 throws.
CallToldOfFailure ==
  [][\A s \in Sessions :
       m.current = s /\ m.ses[s].state = "created" /\ m.waiting # 0 /\ m'.waiting = 0
         => m'.ses[s].state # "created"]_m
=============================================================================
