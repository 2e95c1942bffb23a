------------------------------- MODULE IceRestart -------------------------------
(***************************************************************************)
(* ICE restart of a media session that talks: the substates of TalkingState *)
(* (src/src/shared_media_session_talking_substates.js) and the signaling    *)
(* channels they open (src/src/shared_media_signaling.js).                  *)
(*                                                                          *)
(* setSubState has no guard.  A promise, a timer or a channel that belongs  *)
(* to an earlier restart moves the session all the same, so every step of a *)
(* restart carries the number of the restart it belongs to.  Of the older   *)
(* channels only the timers of those still waiting for an answer matter.    *)
(* The session has a peerConnectionToken: without one nothing happens here. *)
(***************************************************************************)
EXTENDS Naturals

CONSTANTS
  MaxRestarts,         \* bound on the restarts of one session
  MaxRetries,          \* maxRetries of InviteAnswerSubstate
  MaxOrphans           \* bound on the ICE timers running with no id

ASSUME RestartAssumption ==
  MaxRestarts \in Nat /\ MaxRetries \in Nat /\ MaxOrphans \in Nat

VARIABLES
  session,             \* _state of the session, which starts in Talking
  sub, restart,        \* _subState, and the restart it belongs to
  started,             \* number of restarts so far
  iceLost,             \* the connection's ICE state is "disconnected"
  timers,              \* the timers running that the current substate has the id of
  lossOrphans,         \* running ICE timers whose id was overwritten
  promise,             \* the promise each restart waits for
  hasCandidate,        \* the collecting substate has a candidate
  listener,            \* state of _signalingChannel, the listener
  sdpless,             \* the listener's INVITE was answered without an sdp
  waiting,             \* older channels in PendingAnswer
  retries,             \* retryCount of each restart's InviteAnswerSubstate
  retryOrphans,        \* running retry timers whose id was overwritten
  invites,             \* INVITEs sent by each restart
  reports,             \* outcomes each restart reported
  goodbye              \* what the end of the session told the server

substateVars == <<sub, restart, timers>>
channelVars  == <<listener, sdpless, waiting, invites>>
retryVars    == <<retries, retryOrphans>>
lossVars     == <<iceLost, lossOrphans>>
vars == <<session, sub, restart, timers, started, iceLost, lossOrphans, promise,
          hasCandidate, listener, sdpless, waiting, invites, retries, retryOrphans, reports,
          goodbye>>

Restarts == 1..MaxRestarts

PlaceType ==
  /\ sub \in {"Connected", "IceRestart", "SetLocal", "Collect", "Invite", "Accept"}
  /\ restart \in 0..MaxRestarts
  /\ sub # "Connected" => restart \in Restarts
  /\ started \in 0..MaxRestarts
  /\ timers \subseteq {"loss", "retry"}
  /\ promise \in [Restarts -> {"none", "offer", "setLocal", "setRemote"}]

CountType ==
  /\ retries \in [Restarts -> 0..MaxRetries]
  /\ retryOrphans \in [Restarts -> Nat]
  /\ invites \in [Restarts -> Nat]
  /\ reports \in [Restarts -> Nat]

ChannelType ==
  /\ session \in {"Talking", "Disconnected", "Failed"}
  /\ listener \in {"PendingAnswer", "Talking", "Failed", "Disconnected"}
  /\ sdpless \in BOOLEAN
  /\ waiting \in Nat
  /\ goodbye \in {"none", "bye", "byeResult", "server"}

IceType ==
  /\ iceLost \in BOOLEAN
  /\ lossOrphans \in 0..MaxOrphans
  /\ hasCandidate \in BOOLEAN

TypeOK == PlaceType /\ CountType /\ ChannelType /\ IceType

\* TalkingState.onEnter.
Init ==
  /\ session = "Talking"
  /\ sub = "Connected"
  /\ restart = 0
  /\ started = 0
  /\ iceLost = FALSE
  /\ timers = {}
  /\ lossOrphans = 0
  /\ promise = [r \in Restarts |-> "none"]
  /\ hasCandidate = FALSE
  /\ listener = "Talking"
  /\ sdpless = FALSE
  /\ waiting = 0
  /\ retries = [r \in Restarts |-> 0]
  /\ retryOrphans = [r \in Restarts |-> 0]
  /\ invites = [r \in Restarts |-> 0]
  /\ reports = [r \in Restarts |-> 0]
  /\ goodbye = "none"

-----------------------------------------------------------------------------
(* What the handlers are made of.                                          *)

Talks == session = "Talking"

\* setSubState: leaving a substate clears the timer it has the id of.
SetSubState(name, r) ==
  /\ sub' = name
  /\ restart' = r
  /\ timers' = {}

\* The promise a restart waits for settles.
Settled(r) == promise' = [promise EXCEPT ![r] = "none"]

\* A restart is over: report its outcome (_onIceRestartComplete) and go back.
Report(r) == reports' = [reports EXCEPT ![r] = @ + 1]
Finish(r) == Report(r) /\ SetSubState("Connected", 0)

\* Enter IceRestartSubstate: ask for ICE servers, then create an offer.
StartRestart ==
  /\ started < MaxRestarts
  /\ started' = started + 1
  /\ SetSubState("IceRestart", started + 1)
  /\ promise' = [promise EXCEPT ![started + 1] = "offer"]

\* attemptInvite: a new channel takes over and sends an INVITE.
AttemptInvite(r) ==
  /\ waiting' = IF listener = "PendingAnswer" THEN waiting + 1 ELSE waiting
  /\ listener' = "PendingAnswer"
  /\ sdpless' = FALSE
  /\ invites' = [invites EXCEPT ![r] = @ + 1]

EnterInvite(r) == SetSubState("Invite", r) /\ AttemptInvite(r)

\* Mutant: retries are not limited.
Retry_Unlimited ==
  /\ retries' = [retries EXCEPT ![restart] = @ + 1]
  /\ timers' = timers \union {"retry"}
  /\ retryOrphans' = [retryOrphans EXCEPT
                       ![restart] = IF "retry" \in timers THEN @ + 1 ELSE @]
  /\ UNCHANGED <<sub, restart, reports>>

\* Mutant: retries are not counted.
Retry_Uncounted ==
  /\ timers' = timers \union {"retry"}
  /\ retryOrphans' = [retryOrphans EXCEPT
                       ![restart] = IF "retry" \in timers THEN @ + 1 ELSE @]
  /\ UNCHANGED <<sub, restart, reports, retries>>

\* retryInvite of the current InviteAnswerSubstate: another INVITE in a second,
\* overwriting the id of a timer that still runs, or the end of the restart.
Retry ==
  IF retries[restart] < MaxRetries
    THEN /\ retries' = [retries EXCEPT ![restart] = @ + 1]
         /\ timers' = timers \union {"retry"}
         /\ retryOrphans' = [retryOrphans EXCEPT
                               ![restart] = IF "retry" \in timers THEN @ + 1 ELSE @]
         /\ UNCHANGED <<sub, restart, reports>>
    ELSE Finish(restart) /\ UNCHANGED retryVars

\* A failure that concerns no one.
NothingFails ==
  UNCHANGED <<sub, restart, timers, started, promise, reports, retries, retryOrphans>>

\* Mutant: a busy agent is retried without a timer.
SubSignalingFailed_NoTimer(e) ==
  CASE sub = "Connected" /\ e = "stale" ->
         StartRestart /\ UNCHANGED <<reports, retries, retryOrphans>>
    [] sub = "Invite" /\ e = "giveUp" ->
         /\ retries' = [retries EXCEPT ![restart] = MaxRetries]
         /\ UNCHANGED <<started, promise, retryOrphans, reports>>
         /\ UNCHANGED substateVars
    [] sub = "Invite" /\ e # "giveUp" -> Retry /\ UNCHANGED <<started, promise>>
    [] OTHER -> NothingFails

\* onSignalingFailed of the substate: "stale" is the server's complaint about
\* the connection, "giveUp" stands for Busy and Call not found.
SubSignalingFailed(e) ==
  CASE sub = "Connected" /\ e = "stale" ->
         StartRestart /\ UNCHANGED <<reports, retries, retryOrphans>>
    [] sub = "Invite" /\ e = "giveUp" ->
         Finish(restart) /\ UNCHANGED <<started, promise, retries, retryOrphans>>
    [] sub = "Invite" /\ e # "giveUp" -> Retry /\ UNCHANGED <<started, promise>>
    [] OTHER -> NothingFails

\* The session's end leaves the substate, which clears its timer.
End(state) ==
  /\ session' = state
  /\ SetSubState("Connected", 0)

\* The failure that the end of the session brings to an InviteAnswerSubstate: a
\* retry whose timer is cleared at once, unlike the one it overwrites, or a report.
LastFailure ==
  CASE sub = "Invite" /\ retries[restart] < MaxRetries ->
         /\ retries' = [retries EXCEPT ![restart] = @ + 1]
         /\ retryOrphans' = [retryOrphans EXCEPT
                               ![restart] = IF "retry" \in timers THEN @ + 1 ELSE @]
         /\ UNCHANGED reports
    [] sub = "Invite" /\ retries[restart] = MaxRetries ->
         Report(restart) /\ UNCHANGED retryVars
    [] OTHER -> UNCHANGED <<reports, retries, retryOrphans>>

\* onSignalingFailed of the session: its substate's, and the end of the session
\* when access is denied.  An ended session does nothing.
SignalingFailed(e) ==
  CASE Talks /\ e # "denied" -> SubSignalingFailed(e) /\ UNCHANGED session
    [] Talks /\ e = "denied" ->
         /\ LastFailure
         /\ End("Failed")
         /\ UNCHANGED <<started, promise>>
    [] ~Talks -> NothingFails /\ UNCHANGED session

-----------------------------------------------------------------------------
(* The ICE connection is lost and comes back.                              *)

\* onIceStateChange with "disconnected": Connected waits three seconds.
IceLost ==
  /\ Talks
  /\ ~iceLost
  /\ started < MaxRestarts
  /\ "loss" \in timers => lossOrphans < MaxOrphans
  /\ iceLost' = TRUE
  /\ IF sub = "Connected"
       THEN /\ timers' = {"loss"}
            /\ lossOrphans' = IF "loss" \in timers THEN lossOrphans + 1 ELSE lossOrphans
       ELSE UNCHANGED <<timers, lossOrphans>>
  /\ UNCHANGED <<session, sub, restart, started, promise, hasCandidate, reports, goodbye>>
  /\ UNCHANGED channelVars /\ UNCHANGED retryVars

IceRecovers ==
  /\ iceLost
  /\ iceLost' = FALSE
  /\ UNCHANGED <<session, started, lossOrphans, promise, hasCandidate, reports, goodbye>>
  /\ UNCHANGED substateVars /\ UNCHANGED channelVars /\ UNCHANGED retryVars

\* What the timer finds: still disconnected, recovered, or no connection left.
LossChecked ==
  IF Talks /\ iceLost
    THEN StartRestart
    ELSE timers' = {} /\ UNCHANGED <<sub, restart, started, promise>>

LossTimerFires ==
  /\ "loss" \in timers
  /\ LossChecked
  /\ UNCHANGED <<session, hasCandidate, reports, goodbye>>
  /\ UNCHANGED lossVars /\ UNCHANGED channelVars /\ UNCHANGED retryVars

\* A timer whose id was overwritten fires in whatever substate there is.
LossOrphanFires ==
  /\ lossOrphans > 0
  /\ lossOrphans' = lossOrphans - 1
  /\ IF Talks /\ iceLost THEN StartRestart
                         ELSE UNCHANGED <<started, promise>> /\ UNCHANGED substateVars
  /\ UNCHANGED <<session, iceLost, hasCandidate, reports, goodbye>>
  /\ UNCHANGED channelVars /\ UNCHANGED retryVars

-----------------------------------------------------------------------------
(* The restart's promises and ICE collection.                              *)

\* New ICE servers and an offer.  After the end of the session the connection
\* is null, and what follows fails.
OfferCreated(r) ==
  /\ Talks
  /\ promise[r] = "offer"
  /\ promise' = [promise EXCEPT ![r] = "setLocal"]
  /\ SetSubState("SetLocal", r)
  /\ UNCHANGED <<session, started, hasCandidate, reports, goodbye>>
  /\ UNCHANGED lossVars /\ UNCHANGED channelVars /\ UNCHANGED retryVars

OfferFails(r) ==
  /\ promise[r] = "offer"
  /\ Settled(r)
  /\ IF Talks THEN Finish(r) ELSE Report(r) /\ UNCHANGED substateVars
  /\ UNCHANGED <<session, started, hasCandidate, goodbye>>
  /\ UNCHANGED lossVars /\ UNCHANGED channelVars /\ UNCHANGED retryVars

\* The promises of a peer connection that has been closed do not settle.
LocalDescriptionSet(r) ==
  /\ Talks
  /\ promise[r] = "setLocal"
  /\ Settled(r)
  /\ SetSubState("Collect", r)
  /\ hasCandidate' = FALSE
  /\ UNCHANGED <<session, started, reports, goodbye>>
  /\ UNCHANGED lossVars /\ UNCHANGED channelVars /\ UNCHANGED retryVars

\* setLocalDescription or setRemoteDescription is rejected.
DescriptionFails(kind, r) ==
  /\ Talks
  /\ promise[r] = kind
  /\ Settled(r)
  /\ Finish(r)
  /\ UNCHANGED <<session, started, hasCandidate, goodbye>>
  /\ UNCHANGED lossVars /\ UNCHANGED channelVars /\ UNCHANGED retryVars

\* onIceCandidate, in the collecting substate only.
IceCandidate(sufficient) ==
  /\ Talks
  /\ sub = "Collect"
  /\ hasCandidate' = TRUE
  /\ IF sufficient THEN EnterInvite(restart)
                   ELSE UNCHANGED substateVars /\ UNCHANGED channelVars
  /\ UNCHANGED <<session, started, promise, reports, goodbye>>
  /\ UNCHANGED lossVars /\ UNCHANGED retryVars

\* Mutant: without a candidate the substate is not left.
CollectionEnds_Stays ==
  /\ Talks
  /\ sub = "Collect"
  /\ IF hasCandidate THEN EnterInvite(restart) /\ UNCHANGED reports
                     ELSE /\ Report(restart)
                          /\ UNCHANGED substateVars /\ UNCHANGED channelVars
  /\ UNCHANGED <<session, started, promise, hasCandidate, goodbye>>
  /\ UNCHANGED lossVars /\ UNCHANGED retryVars

\* Mutant: without a candidate the collection goes on.
CollectionEnds_Waits ==
  /\ Talks
  /\ sub = "Collect"
  /\ hasCandidate
  /\ EnterInvite(restart)
  /\ UNCHANGED <<session, started, promise, hasCandidate, reports, goodbye>>
  /\ UNCHANGED lossVars /\ UNCHANGED retryVars

\* The end of the candidates, or the collection timer.
CollectionEnds ==
  /\ Talks
  /\ sub = "Collect"
  /\ IF hasCandidate THEN EnterInvite(restart) /\ UNCHANGED reports
                     ELSE Finish(restart) /\ UNCHANGED channelVars
  /\ UNCHANGED <<session, started, promise, hasCandidate, goodbye>>
  /\ UNCHANGED lossVars /\ UNCHANGED retryVars

\* setRemoteDescriptionForIceRestart succeeds; the handshake is over by now.
RemoteDescriptionSet(r) ==
  /\ Talks
  /\ promise[r] = "setRemote"
  /\ Settled(r)
  /\ Finish(r)
  /\ UNCHANGED <<session, started, hasCandidate, goodbye>>
  /\ UNCHANGED lossVars /\ UNCHANGED channelVars /\ UNCHANGED retryVars

-----------------------------------------------------------------------------
(* INVITE and its answers.                                                 *)

RetryTimerFires ==
  /\ "retry" \in timers
  /\ timers' = {}
  /\ AttemptInvite(restart)
  /\ UNCHANGED <<session, sub, restart, started, promise, hasCandidate, reports, goodbye>>
  /\ UNCHANGED lossVars /\ UNCHANGED retryVars

\* A retry timer whose id was overwritten invites in whatever state there is.
RetryOrphanFires(r) ==
  /\ retryOrphans[r] > 0
  /\ retryOrphans' = [retryOrphans EXCEPT ![r] = @ - 1]
  /\ AttemptInvite(r)
  /\ UNCHANGED <<session, started, promise, hasCandidate, retries, reports, goodbye>>
  /\ UNCHANGED substateVars /\ UNCHANGED lossVars

\* What an answer may be: "unusable" has an empty sdp or no candidates.
Answers == {"usable", "unusable", "withoutSdp"}

\* The answer reaches the listener, then its session, then ACCEPT is sent.  Without
\* an sdp the log line throws before the session hears, and ACCEPT is sent anyway.
InviteAnswered(answer) ==
  /\ listener = "PendingAnswer"
  /\ listener' = "Talking"
  /\ sdpless' = (answer = "withoutSdp")
  /\ CASE Talks /\ sub = "Invite" /\ answer = "usable" ->
            /\ SetSubState("Accept", restart)
            /\ promise' = [promise EXCEPT ![restart] = "setRemote"]
            /\ UNCHANGED reports
       [] Talks /\ sub = "Invite" /\ answer = "unusable" ->
            Finish(restart) /\ UNCHANGED promise
       [] OTHER -> UNCHANGED <<promise, reports>> /\ UNCHANGED substateVars
  /\ UNCHANGED <<session, started, hasCandidate, waiting, invites, goodbye>>
  /\ UNCHANGED lossVars /\ UNCHANGED retryVars

Errors == {"stale", "giveUp", "denied", "other"}

\* An error response to the INVITE or the ACCEPT of the listening channel.
RequestRejected(e) ==
  /\ listener \in {"PendingAnswer", "Talking"}
  /\ listener' = "Failed"
  /\ SignalingFailed(e)
  /\ UNCHANGED <<hasCandidate, sdpless, waiting, invites, goodbye>>
  /\ UNCHANGED lossVars

InviteTimeout ==
  /\ listener = "PendingAnswer"
  /\ listener' = "Failed"
  /\ SignalingFailed("other")
  /\ UNCHANGED <<hasCandidate, sdpless, waiting, invites, goodbye>>
  /\ UNCHANGED lossVars

\* The timer of a channel that is not the listener any more.
OldInviteTimeout ==
  /\ waiting > 0
  /\ waiting' = waiting - 1
  /\ SignalingFailed("other")
  /\ UNCHANGED <<hasCandidate, listener, sdpless, invites, goodbye>>
  /\ UNCHANGED lossVars

-----------------------------------------------------------------------------
(* The end of the session.                                                 *)

\* BYE from the server: a channel that does not talk ignores it.
ServerBye ==
  /\ Talks
  /\ listener = "Talking"
  /\ listener' = "Disconnected"
  /\ goodbye' = "byeResult"
  /\ End("Disconnected")
  /\ UNCHANGED <<started, promise, hasCandidate, sdpless, waiting, invites, reports>>
  /\ UNCHANGED lossVars /\ UNCHANGED retryVars

\* hangup(serverInitiated).  A channel that waits for an answer fails, which the
\* substate takes for a failed INVITE, and sends nothing.
Hangup(by) ==
  /\ Talks
  /\ End("Disconnected")
  /\ listener' = IF listener = "Talking" THEN "Disconnected" ELSE "Failed"
  /\ goodbye' = CASE by = "server" /\ listener # "Failed" -> "server"
                  [] by = "client" /\ listener = "Talking" -> "bye"
                  [] listener = "Failed"                  -> "bye"
                  [] OTHER                                -> "none"
  /\ IF listener = "PendingAnswer" THEN LastFailure
                                 ELSE UNCHANGED <<reports, retries, retryOrphans>>
  /\ UNCHANGED <<started, promise, hasCandidate, sdpless, waiting, invites>>
  /\ UNCHANGED lossVars

-----------------------------------------------------------------------------
\* A promise of the connection settles; requestIceAccess is the application's.
DescriptionSettles(r) ==
  \/ LocalDescriptionSet(r)
  \/ \E kind \in {"setLocal", "setRemote"} : DescriptionFails(kind, r)
  \/ RemoteDescriptionSet(r)

Next ==
  \/ IceLost
  \/ IceRecovers
  \/ LossTimerFires
  \/ LossOrphanFires
  \/ \E r \in Restarts :
       OfferCreated(r) \/ OfferFails(r) \/ DescriptionSettles(r) \/ RetryOrphanFires(r)
  \/ \E yes \in BOOLEAN : IceCandidate(yes)
  \/ \E answer \in Answers : InviteAnswered(answer)
  \/ CollectionEnds
  \/ RetryTimerFires
  \/ \E e \in Errors : RequestRejected(e)
  \/ InviteTimeout
  \/ OldInviteTimeout
  \/ ServerBye
  \/ \E by \in {"client", "server"} : Hangup(by)

Spec == Init /\ [][Next]_vars

\* The promises of an open connection settle and timers fire.  Nothing is assumed
\* of the server, nor of the application's requestIceAccess.
FairSpec ==
  /\ Spec
  /\ \A r \in Restarts : WF_vars(DescriptionSettles(r))
  /\ WF_vars(CollectionEnds)
  /\ WF_vars(RetryTimerFires)
  /\ WF_vars(InviteTimeout)
  /\ WF_vars(OldInviteTimeout)

-----------------------------------------------------------------------------
(* Properties.                                                             *)

\* The restart waits for an answer its channel has had: it had no sdp, and the
\* channel accepted it all the same.
Forsaken == sub = "Invite" /\ listener = "Talking" /\ sdpless

\* A restart that waits for an answer is driven on, by a channel whose timer
\* will fail it or by a retry timer, although channels of other restarts fail,
\* answer and overwrite the timer; an answer without an sdp is the one exception
\* (InviteAnswerSubstate, FailOnTimeoutState, PendingAnswerState).
InviteIsDriven ==
  Talks /\ sub = "Invite" =>
    "retry" \in timers \/ listener = "PendingAnswer" \/ Forsaken

\* No restart reports twice, neither two failures nor a failure and a success,
\* however its promises interleave with those of another restart that took the
\* substate over (_onIceRestartComplete counts into the calls' reports).
OneOutcome == \A r \in Restarts : reports[r] <= 1

\* Timers that nobody can clear and failures of other channels do not make a
\* restart send more INVITEs than its retries allow (retryInvite).
InvitesBounded == \A r \in Restarts : invites[r] <= 1 + MaxRetries

\* The session does not stay in a restart: whatever fails, is overtaken or never
\* answers, it is back in ConnectedSubstate and notices the next loss of the
\* connection.  It stays only where requestIceAccess never answers, or where an
\* INVITE was answered without an sdp (the substates, FailOnTimeoutState).
RestartEnds ==
  sub # "Connected" ~>
    \/ sub = "Connected"
    \/ [](sub = "IceRestart" /\ promise[restart] = "offer")
    \/ []Forsaken
=============================================================================
