------------------------------ MODULE RtcSession ------------------------------
(***************************************************************************)
(* The V1 session without a connection manager (src/src/rtc_session.js)    *)
(* together with its signaling channel (module RtcSignaling) and the       *)
(* websockets below it.  The session and the channel call each other       *)
(* synchronously, so one action is one event handler with everything both  *)
(* machines do in it; what a handler throws stops it there, which matters: *)
(* a hang-up that throws leaves the session as it was.                     *)
(*                                                                         *)
(* Such a session is connected once.  ICE restart needs a manager          *)
(* (rtc_session_talking_substates.js line 38) and has no part here.        *)
(***************************************************************************)
EXTENDS RtcSignaling, Sequences

CONSTANTS
  Pcs,                 \* peer connections a factory may hand to the session
  Own,                 \* the one the session creates itself
  None

ASSUME PcsAssumption == Own \notin Pcs /\ None \notin Pcs /\ Own # None

VARIABLES
  state,               \* _state
  pc,                  \* _pc
  closedPcs,           \* peer connections the session closed
  userProvided,        \* _isUserProvidedStream
  localStream,         \* _localStream
  liveStreams,         \* streams whose tracks are not stopped
  jobs,                \* promises the session started, not settled yet
  flags,               \* what the current state is still waiting for
  sig,                 \* _signalingChannel
  byed,                \* the server sent its BYE
  sdpless,             \* the server's answer to the INVITE had no sdp
  told,                \* callbacks invoked, in order
  hungUp               \* who hung up

mediaVars   == <<pc, closedPcs, userProvided, localStream, liveStreams>>
sessionVars == <<state, jobs, flags>>
serverVars  == <<byed, sdpless>>
reportVars  == <<told, hungUp>>
rtcVars == <<sessionVars, mediaVars, sig, serverVars, reportVars>>

-----------------------------------------------------------------------------
SetupStates == {"GrabLocalMedia", "CreateOffer", "SetLocalSessionDescription",
                "ConnectSignalingAndIceCollection", "InviteAnswer", "Accept"}
EndStates   == {"Disconnected", "Failed"}
States      == {"none", "Talking"} \union SetupStates \union EndStates

Jobs == {"gum", "lateGum", "createOffer", "setLocalDescription",
         "setRemoteDescription"}

\* hasCandidate, iceCompleted and signalingConnected belong to
\* ConnectSignalingAndIceCollectionState, handshaked to AcceptState.
Flags == {"hasCandidate", "iceCompleted", "signalingConnected", "handshaked"}

Callbacks == {"connected", "completed", "failed", "destroyed"}

TypeOK ==
  /\ state \in States
  /\ pc \in Pcs \union {Own, None}
  /\ closedPcs \subseteq Pcs \union {Own}
  /\ userProvided \in BOOLEAN
  /\ localStream \in {"none", "user", "device"}
  /\ liveStreams \subseteq {"user", "device"}
  /\ jobs \subseteq Jobs
  /\ flags \subseteq Flags
  /\ sig \in Channel
  /\ byed \in BOOLEAN
  /\ sdpless \in BOOLEAN
  /\ told \in Seq(Callbacks)
  /\ hungUp \in {"nobody", "client", "server"}

\* The application may set mediaStream before it connects; whether signaling
\* runs over its websocket manager is decided by the constructor's arguments.
Init ==
  /\ state = "none"
  /\ pc = None
  /\ closedPcs = {}
  /\ userProvided \in BOOLEAN
  /\ localStream = IF userProvided THEN "user" ELSE "none"
  /\ liveStreams = IF userProvided THEN {"user"} ELSE {}
  /\ jobs = {}
  /\ flags = {}
  /\ \E isVirtual \in BOOLEAN : sig = NoChannel(isVirtual)
  /\ byed = FALSE
  /\ sdpless = FALSE
  /\ told = <<>>
  /\ hungUp = "nobody"

-----------------------------------------------------------------------------
(* What the handlers are made of.                                          *)

\* Mutant: the microphone is left running.
StopSession_KeepsStream ==
  /\ closedPcs' = closedPcs \union ({pc} \ {None})
  /\ pc' = None
  /\ localStream' = IF userProvided THEN localStream ELSE "none"
  /\ UNCHANGED <<userProvided, liveStreams>>

\* _stopSession: a stream of the device is stopped and forgotten, the peer
\* connection is closed and forgotten.
StopSession ==
  /\ closedPcs' = closedPcs \union ({pc} \ {None})
  /\ pc' = None
  /\ IF userProvided
       THEN UNCHANGED <<localStream, liveStreams>>
       ELSE /\ localStream' = "none"
            /\ liveStreams' = liveStreams \ {localStream}
  /\ UNCHANGED userProvided

\* transit(FailedState): the application is told, then the session cleans up.
Fail ==
  /\ state' = "Failed"
  /\ told' = told \o <<"failed", "destroyed">>
  /\ StopSession

\* Mutant: leaving TalkingState does not complete the call.
Disconnect_NotCompleted ==
  /\ state' = "Disconnected"
  /\ told' = Append(told, "destroyed")
  /\ StopSession

\* TalkingState is left for DisconnectedState: onExit completes the call.
Disconnect ==
  /\ state' = "Disconnected"
  /\ told' = told \o <<"completed", "destroyed">>
  /\ StopSession

\* Mutant: InviteAnswerState does not handle it either.
OnSignalingFailed_OnlyConnecting ==
  IF state = "ConnectSignalingAndIceCollection"
    THEN Fail
    ELSE UNCHANGED <<state, told, mediaVars>>

\* Only two states handle onSignalingFailed by failing; TalkingState logs, the
\* others throw inside a promise executor, which swallows it.
OnSignalingFailed ==
  IF state \in {"ConnectSignalingAndIceCollection", "InviteAnswer"}
    THEN Fail
    ELSE UNCHANGED <<state, told, mediaVars>>

\* Mutant: the session waits for one of the two, not for both.
CheckAndTransit_Either(known, channel) ==
  IF known \intersect {"iceCompleted", "signalingConnected"} # {}
    THEN /\ state' = "InviteAnswer"
         /\ sig' = InviteChannel(channel)
    ELSE /\ sig' = channel
         /\ UNCHANGED state

\* _checkAndTransit of ConnectSignalingAndIceCollectionState, and the INVITE
\* that InviteAnswerState sends when it is entered.
CheckAndTransit(known, channel) ==
  IF {"iceCompleted", "signalingConnected"} \subseteq known
    THEN /\ state' = "InviteAnswer"
         /\ sig' = InviteChannel(channel)
    ELSE /\ sig' = channel
         /\ UNCHANGED state

-----------------------------------------------------------------------------
(* The application.                                                        *)

\* connect(pc): a connection that is open is adopted, otherwise the session
\* creates one.  With a stream of the user nothing is awaited for the media.
Connect(p) ==
  /\ state = "none"
  /\ pc' = IF p = None THEN Own ELSE p
  /\ IF userProvided
       THEN /\ state' = "CreateOffer"
            /\ jobs' = {"createOffer"}
       ELSE /\ state' = "GrabLocalMedia"
            /\ jobs' = {"gum"}
  /\ UNCHANGED <<closedPcs, userProvided, localStream, liveStreams, flags, sig,
                 serverVars, reportVars>>

\* hangup() before the conversation; InviteAnswerState ignores it when there is
\* no manager.
HangupInSetup ==
  /\ state \in SetupStates
  /\ hungUp' = "client"
  /\ IF state = "InviteAnswer"
       THEN UNCHANGED <<state, told, mediaVars>>
       ELSE Fail
  /\ UNCHANGED <<jobs, flags, sig, serverVars>>

\* hangup() of a conversation: first the channel, then the session.
HangupTalking ==
  /\ state = "Talking"
  /\ hungUp' = "client"
  /\ IF HangupThrows(sig)
       THEN UNCHANGED <<state, told, mediaVars, sig>>
       ELSE /\ sig' = HangupChannel(sig)
            /\ Disconnect
  /\ UNCHANGED <<jobs, flags, serverVars>>

-----------------------------------------------------------------------------
(* Local media and the offer.                                              *)

\* getUserMedia delivers before the timeout.  The stream is stored whether or
\* not the session still waits for it.
GumGranted ==
  /\ "gum" \in jobs
  /\ localStream' = "device"
  /\ liveStreams' = liveStreams \union {"device"}
  /\ IF state = "GrabLocalMedia"
       THEN /\ state' = "CreateOffer"
            /\ jobs' = (jobs \ {"gum"}) \union {"createOffer"}
       ELSE /\ jobs' = jobs \ {"gum"}
            /\ UNCHANGED state
  /\ UNCHANGED <<pc, closedPcs, userProvided, flags, sig, serverVars, reportVars>>

\* The race is lost: to the user's refusal, or to the timer, after which the
\* device may still answer.
GumRaceLost ==
  /\ "gum" \in jobs
  /\ jobs' \in {jobs \ {"gum"}, (jobs \ {"gum"}) \union {"lateGum"}}
  /\ IF state = "GrabLocalMedia" THEN Fail ELSE UNCHANGED <<state, told, mediaVars>>
  /\ UNCHANGED <<flags, sig, serverVars, hungUp>>

\* The device answers after the race: nobody holds the stream any more.
LateGum ==
  /\ "lateGum" \in jobs
  /\ jobs' = jobs \ {"lateGum"}
  /\ liveStreams' \in {liveStreams, liveStreams \union {"device"}}
  /\ UNCHANGED <<state, pc, closedPcs, userProvided, localStream, flags, sig,
                 serverVars, reportVars>>

OfferCreated ==
  /\ "createOffer" \in jobs
  /\ IF state = "CreateOffer"
       THEN /\ state' = "SetLocalSessionDescription"
            /\ jobs' = (jobs \ {"createOffer"}) \union {"setLocalDescription"}
       ELSE /\ jobs' = jobs \ {"createOffer"}
            /\ UNCHANGED state
  /\ UNCHANGED <<mediaVars, flags, sig, serverVars, reportVars>>

\* setLocalDescription is done: the channel is created and connects while the
\* candidates are collected.
LocalDescriptionSet ==
  /\ "setLocalDescription" \in jobs
  /\ jobs' = jobs \ {"setLocalDescription"}
  /\ IF state = "SetLocalSessionDescription"
       THEN /\ state' = "ConnectSignalingAndIceCollection"
            /\ sig' = ConnectChannel(sig)
       ELSE UNCHANGED <<state, sig>>
  /\ UNCHANGED <<mediaVars, flags, serverVars, reportVars>>

\* createOffer or setLocalDescription is rejected.
OfferRejected ==
  \E p \in {<<"createOffer", "CreateOffer">>,
            <<"setLocalDescription", "SetLocalSessionDescription">>} :
    /\ p[1] \in jobs
    /\ jobs' = jobs \ {p[1]}
    /\ IF state = p[2] THEN Fail ELSE UNCHANGED <<state, told, mediaVars>>
    /\ UNCHANGED <<flags, sig, serverVars, hungUp>>

-----------------------------------------------------------------------------
(* Candidates.                                                             *)

\* _reportIceCompleted: without a candidate the session fails.
IceCompleted(found) ==
  IF "hasCandidate" \in found
    THEN /\ flags' = found \union {"iceCompleted"}
         /\ CheckAndTransit(flags', sig)
         /\ UNCHANGED <<told, mediaVars>>
    ELSE Fail /\ UNCHANGED <<flags, sig>>

\* A candidate; it may be the one that makes the collection sufficient.
IceCandidate ==
  /\ state = "ConnectSignalingAndIceCollection"
  /\ "iceCompleted" \notin flags
  /\ \/ /\ flags' = flags \union {"hasCandidate"}
        /\ UNCHANGED <<state, told, mediaVars, sig>>
     \/ IceCompleted(flags \union {"hasCandidate"})
  /\ UNCHANGED <<jobs, serverVars, hungUp>>

\* The end of the candidates, or the timeout of the collection.
IceCollectionEnds ==
  /\ state = "ConnectSignalingAndIceCollection"
  /\ "iceCompleted" \notin flags
  /\ IceCompleted(flags)
  /\ UNCHANGED <<jobs, serverVars, hungUp>>

-----------------------------------------------------------------------------
(* The websockets.                                                         *)

\* What the session does when its channel has gone from sig to channel in an
\* event of a socket.
Follow(channel) ==
  CASE sig.state # "PendingInvite" /\ channel.state = "PendingInvite"
       /\ state = "ConnectSignalingAndIceCollection" ->
         /\ flags' = flags \union {"signalingConnected"}
         /\ CheckAndTransit(flags', channel)
         /\ UNCHANGED <<told, mediaVars>>
    [] sig.state # "Talking" /\ channel.state = "Talking" /\ state = "Accept" ->
         /\ flags' = flags \union {"handshaked"}
         /\ sig' = channel
         /\ UNCHANGED <<state, told, mediaVars>>
    [] sig.state # "Failed" /\ channel.state = "Failed" ->
         /\ sig' = channel
         /\ UNCHANGED flags
         /\ OnSignalingFailed
    [] OTHER ->
         /\ sig' = channel
         /\ UNCHANGED <<state, flags, told, mediaVars>>

\* open of any socket the channel created; the channel believes it is _wss.
SocketOpens(w) ==
  /\ sig.sock[w] = "connecting"
  /\ Follow(OnOpen([sig EXCEPT !.sock[w] = "open"]))
  /\ UNCHANGED <<jobs, serverVars, hungUp>>

\* A socket cannot connect, or an open one is lost.  The virtual one has
\* neither event.
SocketGoes(w) ==
  /\ ~sig.virtual
  /\ sig.sock[w] \in {"connecting", "open"}
  /\ sig.state = "Talking" => sig.wss < MaxSockets
  /\ \E abnormal, inTime \in BOOLEAN :
       /\ sig.sock[w] = "connecting" => abnormal
       /\ Follow(SocketGone(sig, w, abnormal, inTime))
  /\ UNCHANGED <<jobs, serverVars, hungUp>>

\* The timer of the channel's state.
SignalingTimeout ==
  /\ sig.state \in TimedStates
  /\ Follow(EnterFinal(sig, "Failed"))
  /\ UNCHANGED <<jobs, serverVars, hungUp>>

-----------------------------------------------------------------------------
(* Messages of the server.                                                 *)

Delivers == sig.sock[sig.wss] = "open"

\* A usable answer to the INVITE: AcceptState sets the remote description, the
\* channel sends ACCEPT.
InviteAnswered ==
  /\ sig.state = "PendingAnswer" /\ "invite" \in sig.sent /\ Delivers
  /\ sig' = AcceptChannel(sig)
  /\ IF state = "InviteAnswer"
       THEN /\ state' = "Accept"
            /\ flags' = flags \union {"handshaked"}
            /\ jobs' = jobs \union {"setRemoteDescription"}
       ELSE UNCHANGED <<state, flags, jobs>>
  /\ UNCHANGED <<mediaVars, serverVars, reportVars>>

\* An answer with an empty sdp or without candidates: AcceptState gives up, the
\* channel accepts all the same.
InviteAnsweredUnusably ==
  /\ sig.state = "PendingAnswer" /\ "invite" \in sig.sent /\ Delivers
  /\ sig' = AcceptChannel(sig)
  /\ IF state = "InviteAnswer" THEN Fail ELSE UNCHANGED <<state, told, mediaVars>>
  /\ UNCHANGED <<flags, jobs, serverVars, hungUp>>

\* An answer with no sdp at all: the log line throws before the session hears of
\* it, inside a promise that swallows it, and the channel accepts.
InviteAnsweredWithoutSdp ==
  /\ sig.state = "PendingAnswer" /\ "invite" \in sig.sent /\ Delivers
  /\ sig' = AcceptChannel(sig)
  /\ sdpless' = TRUE
  /\ UNCHANGED <<sessionVars, mediaVars, byed, reportVars>>

InviteRefused ==
  /\ sig.state = "PendingAnswer" /\ "invite" \in sig.sent /\ Delivers
  /\ Follow(EnterFinal(sig, "Failed"))
  /\ UNCHANGED <<jobs, serverVars, hungUp>>

\* _checkAndTransit of AcceptState: the handshake came before (AcceptChannel).
RemoteDescriptionSet ==
  /\ "setRemoteDescription" \in jobs
  /\ jobs' = jobs \ {"setRemoteDescription"}
  /\ IF state = "Accept" /\ "handshaked" \in flags
       THEN /\ state' = "Talking"
            /\ told' = Append(told, "connected")
       ELSE UNCHANGED <<state, told>>
  /\ UNCHANGED <<mediaVars, flags, sig, serverVars, hungUp>>

\* Rejected: the session is stopped first, then asked for its state.
RemoteDescriptionRejected ==
  /\ "setRemoteDescription" \in jobs
  /\ jobs' = jobs \ {"setRemoteDescription"}
  /\ IF state = "Accept" THEN Fail ELSE StopSession /\ UNCHANGED <<state, told>>
  /\ UNCHANGED <<flags, sig, serverVars, hungUp>>

\* BYE.  TalkingState answers it and ends; the other states throw.
ServerHangsUp ==
  /\ "accept" \in sig.sent /\ ~byed /\ Delivers
  /\ byed' = TRUE
  /\ LET heard == RemoteBye(sig) IN
     IF heard.state = "PendingLocalHangup" /\ state = "Talking" /\ ~HangupThrows(heard)
       THEN /\ sig' = HangupChannel(heard)
            /\ Disconnect
            /\ hungUp' = "server"
       ELSE /\ sig' = heard
            /\ UNCHANGED <<state, told, mediaVars, hungUp>>
  /\ UNCHANGED <<jobs, flags, sdpless>>

\* The reply to the client's BYE.
ByeAnswered ==
  /\ sig.state = "PendingRemoteHangup" /\ "bye" \in sig.sent /\ Delivers
  /\ sig' = EnterFinal(sig, "Disconnected")
  /\ UNCHANGED <<state, mediaVars, jobs, flags, serverVars, reportVars>>

-----------------------------------------------------------------------------
Media == GumGranted \/ GumRaceLost \/ LateGum \/ OfferCreated
           \/ LocalDescriptionSet \/ OfferRejected
Ice == IceCandidate \/ IceCollectionEnds
SocketEvents == \E w \in Sockets : SocketOpens(w) \/ SocketGoes(w)
Server == InviteAnswered \/ InviteAnsweredUnusably \/ InviteAnsweredWithoutSdp
            \/ InviteRefused \/ ServerHangsUp \/ ByeAnswered
Answer == RemoteDescriptionSet \/ RemoteDescriptionRejected
Hangup == HangupInSetup \/ HangupTalking

\* Every action but connect().
Progress == Media \/ Ice \/ SocketEvents \/ SignalingTimeout \/ Server \/ Answer
              \/ Hangup

Next == Progress \/ \E p \in Pcs \union {None} : Connect(p)

Spec == Init /\ [][Next]_rtcVars

\* Promises settle and timers fire.  Nothing is asked of the server, of sockets
\* or of the user.
Fairness ==
  /\ WF_rtcVars(GumRaceLost)
  /\ WF_rtcVars(OfferCreated \/ OfferRejected)
  /\ WF_rtcVars(LocalDescriptionSet \/ OfferRejected)
  /\ WF_rtcVars(IceCollectionEnds)
  /\ WF_rtcVars(SignalingTimeout)
  /\ WF_rtcVars(Answer)

FairSpec == Spec /\ Fairness
-----------------------------------------------------------------------------
(* Properties.                                                             *)

\* The INVITE is stuck.
Stranded == state = "InviteAnswer" /\ sig.state = "PendingInvite"

\* The session waits for an answer its channel has had, without an sdp.
Forsaken == state = "InviteAnswer" /\ sdpless

\* What the session believes and what its channel does agree: nothing is
\* signaled before the local description is set, the INVITE is out or stuck
\* while an answer is awaited, and a session that talks has sent INVITE and
\* ACCEPT on sockets that took them, however many were lost on the way
\* (rtc_session.js lines 219-310, signaling.js lines 131-148, 175-210 and
\* 851-917).  The INVITE gets stuck only after a failed socket was replaced: its
\* error and its close each start a connection, the older of the two reports that
\* signaling is up, and the INVITE is sent on the newer one, which is still
\* connecting (lines 75-80, 131-148).  Only an answer without an sdp lets the
\* channel accept while the session waits on (lines 256-279).
SignalingFollowsSession ==
  /\ state \in SetupStates \ {"ConnectSignalingAndIceCollection", "InviteAnswer", "Accept"}
       => sig.state = "none"
  /\ state = "ConnectSignalingAndIceCollection" =>
       sig.state = IF "signalingConnected" \in flags THEN "PendingInvite"
                                                     ELSE "PendingConnect"
  /\ state = "InviteAnswer" =>
       sig.state \in IF sdpless
         THEN {"Talking", "PendingReconnect", "PendingLocalHangup", "Disconnected"}
         ELSE {"PendingInvite", "PendingAnswer"}
  /\ state \in {"Accept", "Talking"} =>
       sig.state \in {"Talking", "PendingReconnect", "PendingLocalHangup",
                     "Disconnected", "Failed"}
  /\ state = "Talking" => {"invite", "accept"} \subseteq sig.sent
  /\ Stranded => sig.retries > 0 /\ ~sig.virtual

\* A hang-up of a conversation reaches the server, or the channel was being
\* reconnected, or the server hung up as well (rtc_session.js line 572).
DisconnectedSaidGoodbye ==
  state = "Disconnected" =>
    \/ {"bye", "byeResult"} \intersect sig.sent # {}
    \/ byed
    \/ sig.wss > 1 /\ ~sig.virtual

\* The end releases what the session holds: its peer connection, and the
\* microphone it was granted in time; a stream of the user is left alone
\* (rtc_session.js lines 786-794 and 1336-1358).
EndedReleasesMedia ==
  /\ state \in EndStates => pc = None
  /\ state \in EndStates /\ sig.state # "none" => "device" \notin liveStreams
  /\ userProvided => "user" \in liveStreams

Phase ==
  IF state = "none" THEN "idle"
  ELSE IF Forsaken THEN "forsaken"
  ELSE IF state \in SetupStates THEN "setup"
  ELSE IF state = "Talking" THEN "connected"
  ELSE "ended"

Lifecycle == INSTANCE SessionLifecycle WITH phase <- Phase

\* The callbacks come in the order module SessionLifecycle states, each once
\* (TalkingState and the end states, rtc_session.js lines 506-518, 663-700 and
\* 717-726).
LifecycleOrder == Lifecycle!Init /\ [][Lifecycle!Next]_<<Phase, told>>

\* Setup ends in a conversation or in an end state, whatever the user, the
\* sockets and the server do, unless the INVITE stays stranded or its answer,
\* which had no sdp, was accepted.
SetupEnds ==
  state \in SetupStates ~> state \notin SetupStates \/ []Stranded \/ []Forsaken

\* test/unit/rtc_session.ts:738 'hangs up signaling when hangup is requested by
\* client' expects DisconnectedState.
HangupEndsTalking ==
  [][state = "Talking" /\ hungUp = "nobody" /\ hungUp' = "client"
       => state' = "Disconnected"]_rtcVars
=============================================================================
