-------------------------- MODULE SharedMediaSession --------------------------
(***************************************************************************)
(* The V2 media session (src/src/shared_media_session.js) from connect()   *)
(* to its end, together with the signaling channels it opens               *)
(* (src/src/shared_media_signaling.js).  The two machines call each other  *)
(* synchronously, so one action below is one event handler: the timer,     *)
(* promise continuation, websocket message or API call that starts it,     *)
(* with everything both machines do before control returns to the browser. *)
(*                                                                         *)
(* connect() may be called again on the same session: each call is an      *)
(* "attempt", and promises started by one attempt may settle in another.   *)
(* A state object of the code is a pair (state name, attempt), which is    *)
(* what _isCurrentState (line 58) compares.  The substates of Talking (ICE *)
(* restart) are the subject of module IceRestart.                          *)
(***************************************************************************)
EXTENDS Naturals, Sequences

CONSTANT
  MaxConnects          \* bound on the calls of connect() on one session

ASSUME ConnectsAssumption == MaxConnects \in Nat \ {0}

VARIABLES
  state,               \* _state
  attempt,             \* number of connect() calls so far
  pc,                  \* _pc: the attempt whose peer connection it is, or None
  openPcs,             \* peer connections handed over and not closed
  localStream,         \* _localStream
  liveStreams,         \* streams whose tracks are not stopped
  userProvided,        \* _isUserProvidedStream
  jobs,                \* promises the session started, not settled yet
  hasCandidate,        \* _iceCandidates.length > 0 in the collecting state
  channel,             \* _signalingChannel, which is also the listener
  chan,                \* state of each signaling channel
  sent,                \* messages sent to the server
  replied,             \* channels whose INVITE the server answered
  byed,                \* channels for which the server sent a BYE
  sdpless,             \* channels that took an answer without an SDP
  told,                \* callbacks invoked, in order
  hungUp               \* who hung up the current attempt

sessionVars   == <<state, attempt, hasCandidate>>
mediaVars     == <<pc, openPcs, localStream, liveStreams, userProvided>>
signalingVars == <<channel, chan, sent>>
serverVars    == <<replied, byed, sdpless>>
reportVars    == <<told, hungUp>>
vars == <<sessionVars, mediaVars, signalingVars, serverVars, reportVars, jobs>>

-----------------------------------------------------------------------------
Attempts   == 1..MaxConnects
None       == 0
UserStream == MaxConnects + 1   \* the stream the application provides

SetupStates == {"GrabLocalMedia", "CreateOffer", "SetLocalSessionDescription",
                "ConnectSignalingAndIceCollection", "InviteAnswer", "Accept"}
EndStates   == {"Disconnected", "Failed"}
States      == {"none", "Talking"} \union SetupStates \union EndStates

\* PendingConnect and PendingAccept are left within the handler that enters
\* them; "none" is a channel that has not been created.
ChannelStates == {"none", "PendingInvite", "PendingAnswer", "Talking",
                  "PendingRemoteHangup", "PendingLocalHangup",
                  "Disconnected", "Failed"}

JobKinds == {"gum", "lateGum", "createOffer", "setLocalDescription",
             "setRemoteDescription"}
Job(kind, a) == [kind |-> kind, attempt |-> a]
Jobs == [kind : JobKinds, attempt : Attempts]

Msg(type, c) == [type |-> type, channel |-> c]
Messages  == [type : {"invite", "accept", "bye", "byeResult"}, channel : Attempts]
Callbacks == {"connected", "completed", "failed", "destroyed"}

TypeOK ==
  /\ state \in States
  /\ attempt \in 0..MaxConnects
  /\ pc \in 0..MaxConnects
  /\ openPcs \subseteq Attempts
  /\ localStream \in 0..UserStream
  /\ liveStreams \subseteq 1..UserStream
  /\ userProvided \in BOOLEAN
  /\ jobs \subseteq Jobs
  /\ hasCandidate \in BOOLEAN
  /\ channel \in 0..MaxConnects
  /\ chan \in [Attempts -> ChannelStates]
  /\ sent \subseteq Messages
  /\ replied \subseteq Attempts
  /\ byed \subseteq Attempts
  /\ sdpless \subseteq Attempts
  /\ told \in Seq(Callbacks)
  /\ hungUp \in {"nobody", "client", "server"}

Init ==
  /\ state = "none"
  /\ attempt = 0
  /\ pc = None
  /\ openPcs = {}
  /\ localStream = None
  /\ liveStreams = {UserStream}
  /\ userProvided = FALSE
  /\ jobs = {}
  /\ hasCandidate = FALSE
  /\ channel = None
  /\ chan = [c \in Attempts |-> "none"]
  /\ sent = {}
  /\ replied = {}
  /\ byed = {}
  /\ sdpless = {}
  /\ told = <<>>
  /\ hungUp = "nobody"

-----------------------------------------------------------------------------
(* What the handlers are made of.                                          *)

\* Mutant: transit looks at the attempt only.
IsCurrent_AnyState(name, a) == attempt = a

\* The guard of SharedMediaSessionState.transit: the state object that wants
\* to leave is the session's current one.
IsCurrent(name, a) == state = name /\ attempt = a

\* onEnter of a state that starts a promise on the peer connection.  When _pc
\* is null the call throws in onEnter and no promise is started.
Launch(kind, remaining) ==
  jobs' = IF pc = None THEN remaining ELSE remaining \union {Job(kind, attempt)}

\* Mutant: the peer connection is forgotten, not closed.
StopSession_KeepsOpen ==
  /\ liveStreams' = liveStreams \ {localStream}
  /\ userProvided' = (userProvided /\ localStream = None)
  /\ localStream' = None
  /\ pc' = None
  /\ UNCHANGED openPcs

\* _stopSession: stop the local stream, close and forget the peer connection.
StopSession ==
  /\ liveStreams' = liveStreams \ {localStream}
  /\ userProvided' = (userProvided /\ localStream = None)
  /\ localStream' = None
  /\ openPcs' = openPcs \ {pc}
  /\ pc' = None

\* TalkingState.onExit tells of completion before any end state is entered.
LeaveTalking == IF state = "Talking" THEN <<"completed">> ELSE <<>>

\* FailedState.onEnter and the CleanUpState.onEnter it extends.
EnterFailed(by) ==
  /\ state' = "Failed"
  /\ StopSession
  /\ told' = told \o LeaveTalking \o <<"failed", "destroyed">>
  /\ hungUp' = by
  /\ UNCHANGED <<attempt, hasCandidate>>

\* Mutant: completion is not told on the way out of Talking.
EnterDisconnected_Silent(by) ==
  /\ state' = "Disconnected"
  /\ StopSession
  /\ told' = Append(told, "destroyed")
  /\ hungUp' = by
  /\ UNCHANGED <<attempt, hasCandidate>>

\* DisconnectedState, entered only from Talking.
EnterDisconnected(by) ==
  /\ state' = "Disconnected"
  /\ StopSession
  /\ told' = told \o LeaveTalking \o <<"destroyed">>
  /\ hungUp' = by
  /\ UNCHANGED <<attempt, hasCandidate>>

SessionUnchanged == UNCHANGED <<sessionVars, mediaVars, reportVars>>

\* onSignalingFailed of the current session state.  The base class throws and
\* the promise executor that called it swallows the exception; Talking only
\* ends when access was denied.
OnSignalingFailed(accessDenied) ==
  IF \/ state \in {"ConnectSignalingAndIceCollection", "InviteAnswer"}
     \/ state = "Talking" /\ accessDenied
    THEN EnterFailed(hungUp)
    ELSE SessionUnchanged

\* Mutant: a failed channel says nothing when it is hung up.
HangupReply_FailedSilent(c) ==
  CASE chan[c] = "Talking"            -> {Msg("bye", c)}
    [] chan[c] = "PendingLocalHangup" -> {Msg("byeResult", c)}
    [] OTHER                          -> {}

\* SharedMediaSignaling.hangup as Talking calls it: what the channel sends and
\* where it goes.
HangupReply(c) ==
  CASE chan[c] \in {"Talking", "Failed"} -> {Msg("bye", c)}
    [] chan[c] = "PendingLocalHangup"    -> {Msg("byeResult", c)}
    [] OTHER                             -> {}
HangupState(c) ==
  CASE chan[c] = "Talking"            -> "PendingRemoteHangup"
    [] chan[c] = "PendingLocalHangup" -> "Disconnected"
    [] OTHER                          -> chan[c]
ChannelHangup(c) ==
  /\ chan' = [chan EXCEPT ![c] = HangupState(c)]
  /\ sent' = sent \union HangupReply(c)
  /\ UNCHANGED channel

-----------------------------------------------------------------------------
(* Calls of the connection manager.                                        *)

\* connect(pc): adopt a fresh peer connection and start over, whatever the
\* session is doing.  GrabLocalMediaState moves straight on to CreateOffer
\* when the application has provided the stream.
Connect ==
  /\ attempt < MaxConnects
  /\ attempt' = attempt + 1
  /\ pc' = attempt + 1
  /\ openPcs' = openPcs \union {attempt + 1}
  /\ told' = told \o LeaveTalking
  /\ hungUp' = "nobody"
  /\ state' = IF userProvided THEN "CreateOffer" ELSE "GrabLocalMedia"
  /\ jobs' = jobs \union
       {Job(IF userProvided THEN "createOffer" ELSE "gum", attempt + 1)}
  /\ UNCHANGED <<hasCandidate, localStream, liveStreams, userProvided,
                 signalingVars, serverVars>>

\* The mediaStream setter: the application provides the stream.
ProvideStream ==
  /\ UserStream \in liveStreams
  /\ ~userProvided
  /\ localStream' = UserStream
  /\ userProvided' = TRUE
  /\ UNCHANGED <<sessionVars, pc, openPcs, liveStreams, signalingVars,
                 serverVars, reportVars, jobs>>

\* hangup(serverInitiated) in Talking: the channel says BYE, unless the server
\* already has (PC_BYE).
HangupTalking(by) ==
  /\ state = "Talking"
  /\ IF by = "server" /\ chan[channel] = "Talking"
       THEN /\ chan' = [chan EXCEPT ![channel] = "Disconnected"]
            /\ UNCHANGED <<channel, sent>>
       ELSE ChannelHangup(channel)
  /\ EnterDisconnected(by)
  /\ UNCHANGED <<serverVars, jobs>>

\* hangup() before Talking: the session fails, the channel is not involved.
HangupSetup(by) ==
  /\ state \in SetupStates
  /\ EnterFailed(by)
  /\ UNCHANGED <<signalingVars, serverVars, jobs>>

-----------------------------------------------------------------------------
(* Local media and descriptions: promise continuations.  Continuations of  *)
(* a state that is no longer current change nothing but what they assign   *)
(* outside transit().                                                      *)

\* getUserMedia delivered a stream with an audio track.  The stream is stored
\* whether or not the state that asked for it is still current.
GumResolved(a) ==
  /\ Job("gum", a) \in jobs
  /\ liveStreams' = liveStreams \union {a}
  /\ localStream' = a
  /\ IF IsCurrent("GrabLocalMedia", a)
       THEN state' = "CreateOffer" /\ Launch("createOffer", jobs \ {Job("gum", a)})
       ELSE UNCHANGED state /\ jobs' = jobs \ {Job("gum", a)}
  /\ UNCHANGED <<attempt, hasCandidate, pc, openPcs, userProvided,
                 signalingVars, serverVars, reportVars>>

\* getUserMedia timed out: the caller gives up, the request itself stays.
GumTimeout(a) ==
  /\ Job("gum", a) \in jobs
  /\ jobs' = (jobs \ {Job("gum", a)}) \union {Job("lateGum", a)}
  /\ IF IsCurrent("GrabLocalMedia", a) THEN EnterFailed(hungUp) ELSE SessionUnchanged
  /\ UNCHANGED <<signalingVars, serverVars>>

\* ... and may still open the microphone: nobody holds the stream.
LateGumResolved(a) ==
  /\ Job("lateGum", a) \in jobs
  /\ jobs' = jobs \ {Job("lateGum", a)}
  /\ liveStreams' = liveStreams \union {a}
  /\ UNCHANGED <<sessionVars, pc, openPcs, localStream, userProvided,
                 signalingVars, serverVars, reportVars>>

\* The state each job belongs to.
OwnerOf(kind) ==
  CASE kind = "gum"                 -> "GrabLocalMedia"
    [] kind = "createOffer"         -> "CreateOffer"
    [] kind = "setLocalDescription" -> "SetLocalSessionDescription"

\* whenConnected(), getUserMedia, createOffer or setLocalDescription rejects
\* (or the stream has no audio track).
JobRejected(kind, a) ==
  /\ Job(kind, a) \in jobs
  /\ jobs' = jobs \ {Job(kind, a)}
  /\ IF IsCurrent(OwnerOf(kind), a) THEN EnterFailed(hungUp) ELSE SessionUnchanged
  /\ UNCHANGED <<signalingVars, serverVars>>

OfferCreated(a) ==
  /\ Job("createOffer", a) \in jobs
  /\ IF IsCurrent("CreateOffer", a)
       THEN /\ state' = "SetLocalSessionDescription"
            /\ Launch("setLocalDescription", jobs \ {Job("createOffer", a)})
       ELSE UNCHANGED state /\ jobs' = jobs \ {Job("createOffer", a)}
  /\ UNCHANGED <<attempt, hasCandidate, mediaVars, signalingVars, serverVars,
                 reportVars>>

\* Entering ConnectSignalingAndIceCollection creates the attempt's channel and
\* connects it: the websocket is shared and already open, so the channel goes
\* through PendingConnect to PendingInvite and onSignalingConnected runs, all
\* within this handler.
LocalDescriptionSet(a) ==
  /\ Job("setLocalDescription", a) \in jobs
  /\ jobs' = jobs \ {Job("setLocalDescription", a)}
  /\ IF IsCurrent("SetLocalSessionDescription", a)
       THEN /\ state' = "ConnectSignalingAndIceCollection"
            /\ hasCandidate' = FALSE
            /\ channel' = a
            /\ chan' = [chan EXCEPT ![a] = "PendingInvite"]
       ELSE UNCHANGED <<state, hasCandidate, channel, chan>>
  /\ UNCHANGED <<attempt, mediaVars, sent, serverVars, reportVars>>

-----------------------------------------------------------------------------
(* ICE collection.                                                         *)

\* InviteAnswerState.onEnter: SharedMediaSignaling.invite.
SendInvite ==
  /\ state' = "InviteAnswer"
  /\ chan' = [chan EXCEPT ![channel] = "PendingAnswer"]
  /\ sent' = sent \union {Msg("invite", channel)}
  /\ UNCHANGED channel

\* onIceCandidate with a candidate; a sufficient one ends the collection.
IceCandidate(sufficient) ==
  /\ state = "ConnectSignalingAndIceCollection"
  /\ hasCandidate' = TRUE
  /\ IF sufficient THEN SendInvite ELSE UNCHANGED <<state, signalingVars>>
  /\ UNCHANGED <<attempt, mediaVars, serverVars, reportVars, jobs>>

\* Mutant: without a candidate the collection is left as it is.
IceCollectionEnds_Waits ==
  /\ state = "ConnectSignalingAndIceCollection"
  /\ IF hasCandidate
       THEN SendInvite /\ UNCHANGED <<attempt, hasCandidate, mediaVars, reportVars>>
       ELSE SessionUnchanged /\ UNCHANGED signalingVars
  /\ UNCHANGED <<serverVars, jobs>>

\* The end-of-candidates event or the collection timer: _reportIceCompleted.
IceCollectionEnds ==
  /\ state = "ConnectSignalingAndIceCollection"
  /\ IF hasCandidate
       THEN SendInvite /\ UNCHANGED <<attempt, hasCandidate, mediaVars, reportVars>>
       ELSE EnterFailed(hungUp) /\ UNCHANGED signalingVars
  /\ UNCHANGED <<serverVars, jobs>>

-----------------------------------------------------------------------------
(* Messages from the server, delivered to the channel that listens, and    *)
(* the channels' own timers.  A message names the channel it replies to;   *)
(* the listener ignores replies that carry another request's id.           *)

\* Mutant: replies reach channels that are not the listener any more.
Listening_AnyChannel(c, s) == chan[c] = s

Listening(c, s) == channel = c /\ chan[c] = s

\* The session's half of an answer with an SDP: InviteAnswer moves to Accept,
\* which either starts setRemoteDescription or rejects an unusable answer (an
\* empty SDP, no candidates).
OnSignalingAnswered(usable) ==
  CASE state = "InviteAnswer" /\ usable ->
         /\ state' = "Accept"
         /\ Launch("setRemoteDescription", jobs)
         /\ UNCHANGED <<attempt, hasCandidate, mediaVars, reportVars>>
    [] state = "InviteAnswer" /\ ~usable -> EnterFailed(hungUp) /\ UNCHANGED jobs
    [] OTHER -> SessionUnchanged /\ UNCHANGED jobs

Answers == {"usable", "unusable", "withoutSdp"}

\* notifyAnswered.  An answer without an SDP throws where the SDP is logged,
\* the promise executor swallows it and the session never hears of the answer.
NotifyAnswered(c, answer) ==
  IF answer = "withoutSdp"
    THEN sdpless' = sdpless \union {c} /\ SessionUnchanged /\ UNCHANGED jobs
    ELSE OnSignalingAnswered(answer = "usable") /\ UNCHANGED sdpless

\* Mutant: the channel waits in PendingAccept.
InviteAnswered_Lingers(c, answer) ==
  /\ Msg("invite", c) \in sent
  /\ c \notin replied
  /\ replied' = replied \union {c}
  /\ IF Listening(c, "PendingAnswer")
       THEN /\ NotifyAnswered(c, answer)
            /\ chan' = [chan EXCEPT ![c] = "PendingAccept"]
            /\ sent' = sent \union {Msg("accept", c)}
            /\ UNCHANGED channel
       ELSE SessionUnchanged /\ UNCHANGED <<jobs, signalingVars, sdpless>>
  /\ UNCHANGED byed

\* The answer to an INVITE: the session is told first, then ACCEPT is sent and
\* the channel talks, whatever the session made of the answer.
InviteAnswered(c, answer) ==
  /\ Msg("invite", c) \in sent
  /\ c \notin replied
  /\ replied' = replied \union {c}
  /\ IF Listening(c, "PendingAnswer")
       THEN /\ NotifyAnswered(c, answer)
            /\ chan' = [chan EXCEPT ![c] = "Talking"]
            /\ sent' = sent \union {Msg("accept", c)}
            /\ UNCHANGED channel
       ELSE SessionUnchanged /\ UNCHANGED <<jobs, signalingVars, sdpless>>
  /\ UNCHANGED byed

\* A channel fails and tells the session.
ChannelFails(c, accessDenied) ==
  /\ chan' = [chan EXCEPT ![c] = "Failed"]
  /\ UNCHANGED <<channel, sent, jobs>>
  /\ OnSignalingFailed(accessDenied)

InviteRejected(c) ==
  /\ Msg("invite", c) \in sent
  /\ c \notin replied
  /\ replied' = replied \union {c}
  /\ IF Listening(c, "PendingAnswer")
       THEN ChannelFails(c, FALSE)
       ELSE SessionUnchanged /\ UNCHANGED <<jobs, signalingVars>>
  /\ UNCHANGED <<byed, sdpless>>

\* FailOnTimeoutState: the timers of PendingAnswer and PendingRemoteHangup
\* belong to their channel, which need not be the listener any more.
ChannelTimeout(c) ==
  /\ chan[c] \in {"PendingAnswer", "PendingRemoteHangup"}
  /\ ChannelFails(c, FALSE)
  /\ UNCHANGED serverVars

\* An error response to ACCEPT.
AcceptRejected(c, accessDenied) ==
  /\ Msg("accept", c) \in sent
  /\ Listening(c, "Talking")
  /\ ChannelFails(c, accessDenied)
  /\ UNCHANGED serverVars

\* BYE from the server.  In Talking it is acknowledged by the session's own
\* hangup; any other session state throws and the channel is left where it is.
\* The BYE carries an id of its own, so any listener takes it.
ServerBye(c) ==
  /\ Msg("accept", c) \in sent
  /\ c \notin byed
  /\ byed' = byed \union {c}
  /\ CASE chan[channel] = "Talking" /\ state = "Talking" ->
            /\ chan' = [chan EXCEPT ![channel] = "Disconnected"]
            /\ sent' = sent \union {Msg("byeResult", channel)}
            /\ EnterDisconnected(hungUp)
       [] chan[channel] = "Talking" /\ state # "Talking" ->
            /\ chan' = [chan EXCEPT ![channel] = "PendingLocalHangup"]
            /\ UNCHANGED sent
            /\ SessionUnchanged
       [] chan[channel] = "PendingRemoteHangup" ->
            /\ chan' = [chan EXCEPT ![channel] = "Disconnected"]
            /\ UNCHANGED sent
            /\ SessionUnchanged
       [] OTHER -> UNCHANGED <<chan, sent>> /\ SessionUnchanged
  /\ UNCHANGED <<channel, replied, sdpless, jobs>>

\* The response to the BYE this side sent.
ByeAnswered(c) ==
  /\ Msg("bye", c) \in sent
  /\ Listening(c, "PendingRemoteHangup")
  /\ chan' = [chan EXCEPT ![c] = "Disconnected"]
  /\ UNCHANGED <<channel, sent, serverVars, jobs>>
  /\ SessionUnchanged

-----------------------------------------------------------------------------
(* setRemoteDescription of StandardStrategy.                               *)

\* Mutant: Talking is entered from whatever state the session is in.
RemoteDescriptionSet_Unguarded(a) ==
  /\ Job("setRemoteDescription", a) \in jobs
  /\ jobs' = jobs \ {Job("setRemoteDescription", a)}
  /\ state' = "Talking"
  /\ told' = Append(told, "connected")
  /\ UNCHANGED <<attempt, hasCandidate, mediaVars, signalingVars, serverVars,
                 hungUp>>

\* The handshake is over by now: InviteAnswered ran onSignalingHandshaked.
RemoteDescriptionSet(a) ==
  /\ Job("setRemoteDescription", a) \in jobs
  /\ jobs' = jobs \ {Job("setRemoteDescription", a)}
  /\ IF IsCurrent("Accept", a)
       THEN /\ state' = "Talking"
            /\ told' = Append(told, "connected")
       ELSE UNCHANGED <<state, told>>
  /\ UNCHANGED <<attempt, hasCandidate, mediaVars, signalingVars, serverVars,
                 hungUp>>

\* On rejection the strategy stops the session before it looks at the state,
\* and its FailedState is the one of rtc_session.js.
RemoteDescriptionRejected(a) ==
  /\ Job("setRemoteDescription", a) \in jobs
  /\ jobs' = jobs \ {Job("setRemoteDescription", a)}
  /\ StopSession
  /\ IF IsCurrent("Accept", a)
       THEN state' = "Failed" /\ told' = told \o <<"failed", "destroyed">>
       ELSE UNCHANGED <<state, told>>
  /\ UNCHANGED <<attempt, hasCandidate, hungUp, signalingVars, serverVars>>

-----------------------------------------------------------------------------
JobSettles(a) ==
  \/ GumResolved(a)
  \/ GumTimeout(a)
  \/ OfferCreated(a)
  \/ LocalDescriptionSet(a)
  \/ \E kind \in {"gum", "createOffer", "setLocalDescription"} :
       JobRejected(kind, a)
  \/ RemoteDescriptionSet(a)
  \/ RemoteDescriptionRejected(a)

ServerMessage(c) ==
  \/ \E answer \in Answers : InviteAnswered(c, answer)
  \/ InviteRejected(c)
  \/ \E denied \in BOOLEAN : AcceptRejected(c, denied)
  \/ ServerBye(c)
  \/ ByeAnswered(c)

Next ==
  \/ Connect
  \/ ProvideStream
  \/ \E by \in {"client", "server"} : HangupTalking(by) \/ HangupSetup(by)
  \/ \E a \in Attempts : JobSettles(a) \/ LateGumResolved(a)
  \/ \E sufficient \in BOOLEAN : IceCandidate(sufficient)
  \/ IceCollectionEnds
  \/ \E c \in Attempts : ServerMessage(c) \/ ChannelTimeout(c)

Spec == Init /\ [][Next]_vars

\* Promises of the browser settle, timers fire.  Nothing is assumed of the
\* server, the application or the agent.
Fairness ==
  /\ WF_vars(IceCollectionEnds)
  /\ \A a \in Attempts : WF_vars(JobSettles(a)) /\ WF_vars(ChannelTimeout(a))

FairSpec == Spec /\ Fairness

-----------------------------------------------------------------------------
(* Properties.                                                             *)

\* The attempt whose answer had no SDP: no timer of the session or the channel
\* is left to end it, only a hangup, a new connect() or the server.
Forsaken == state = "InviteAnswer" /\ channel \in sdpless

\* The channel is where the session believes it is.  Each setup state from
\* the signaling ones on belongs to the attempt's own channel, in the state
\* that lets it go on: _createSignalingChannel, invite() and the answer
\* handlers keep two machines in step across timers of older channels, late
\* promises and messages that arrive at any time.  They part in one case: the
\* channel that took an answer without an SDP (line 289) has accepted and
\* talks, or was hung up by the server, while its session awaits the answer.
SignalingFollowsSession ==
  /\ state = "ConnectSignalingAndIceCollection" =>
       channel = attempt /\ chan[channel] = "PendingInvite"
  /\ state = "InviteAnswer" =>
       /\ channel = attempt
       /\ channel \notin sdpless =>
            chan[channel] = "PendingAnswer" /\ Msg("accept", channel) \notin sent
       /\ channel \in sdpless =>
            /\ chan[channel] \in {"Talking", "PendingLocalHangup"}
            /\ Msg("accept", channel) \in sent
  /\ state \in {"Accept", "Talking"} =>
       /\ channel = attempt
       /\ channel \notin sdpless
       /\ chan[channel] \in {"Talking", "Failed", "PendingLocalHangup"}
       /\ Msg("accept", channel) \in sent

\* A conversation that ended was ended for the server as well: it sent the
\* BYE or PC_BYE, or it was sent a BYE, or its own BYE was answered (Talking's
\* hangup and onRemoteHungup, lines 495-506).
DisconnectedSaidGoodbye ==
  state = "Disconnected" =>
    \/ hungUp = "server"
    \/ Msg("bye", channel) \in sent
    \/ Msg("byeResult", channel) \in sent

\* An ended session holds no peer connection, and with a single attempt every
\* peer connection it was given is closed, whichever promise was pending when
\* it ended (_stopSession, line 1441).
EndedReleasesPeerConnection ==
  state \in EndStates =>
    pc = None /\ (attempt = 1 => openPcs = {})

\* Late promises, timers and messages never revive a session that has ended:
\* only connect() leaves an end state (the guard of transit, line 58, and
\* CleanUpState.hangup).
EndedIsFinal ==
  [][(state \in EndStates) => (state' = state \/ attempt' # attempt)]_vars

\* Every attempt to set up a session comes to an end: it talks or it has
\* failed, even when the server never answers and no candidate is gathered
\* (the gUM, ICE and invite timers).  Only the answer without an SDP leaves it
\* without any of these timers.
SetupTerminates ==
  state \in SetupStates ~> []Forsaken \/ state \in {"Talking"} \union EndStates

\* The session keeps the promise of SessionLifecycle.
Phase ==
  IF state = "none" THEN "idle"
  ELSE IF Forsaken THEN "forsaken"
  ELSE IF state \in SetupStates THEN "setup"
  ELSE IF state = "Talking" THEN "connected"
  ELSE "ended"

Lifecycle == INSTANCE SessionLifecycle WITH phase <- Phase

ImplementsLifecycle == Lifecycle!Spec

\* Its safety part, which also holds when connect() is called again before the
\* first attempt has settled.
LifecycleOrder == Lifecycle!Init /\ [][Lifecycle!Next]_<<Phase, told>>

-----------------------------------------------------------------------------
(* What a comment of the code says and the code does not do.               *)

\* "If it's acquired from local devices, then we must close the stream when
\* the session ends" (shared_media_session.js:710).
DeviceStreamsClosedAtEnd ==
  state \in EndStates => liveStreams \subseteq {UserStream}
=============================================================================
