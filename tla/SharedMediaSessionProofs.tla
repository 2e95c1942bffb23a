----------------------- MODULE SharedMediaSessionProofs -----------------------
(***************************************************************************)
(* Machine-checked proofs about SharedMediaSession, for every number of    *)
(* connect() calls.                                                        *)
(***************************************************************************)
EXTENDS SharedMediaSession, SequenceTheorems, TLAPS

(***************************************************************************)
(* The strengthening.  Before it creates its channel an attempt has none,  *)
(* so nothing that older channels do can touch it; and a channel that is   *)
(* still negotiating has taken no answer and has not sent ACCEPT.          *)
(***************************************************************************)
AttemptsStarted ==
  /\ state # "none" => attempt # 0
  /\ channel <= attempt
  /\ state \in {"GrabLocalMedia", "CreateOffer", "SetLocalSessionDescription"} =>
       channel # attempt
  /\ \A c \in Attempts : c > channel => chan[c] = "none"

ChannelHistory ==
  /\ \A c \in Attempts :
       chan[c] \in {"none", "PendingInvite", "PendingAnswer"} =>
         Msg("accept", c) \notin sent /\ c \notin sdpless
  /\ sent # {} => channel # None

SessionInv ==
  /\ TypeOK
  /\ AttemptsStarted
  /\ ChannelHistory
  /\ SignalingFollowsSession

USE DEF Attempts, None, UserStream, vars, sessionVars, mediaVars, signalingVars,
        serverVars, reportVars, SessionUnchanged

\* Messages of existing channels are messages.
LEMMA MsgType ==
  ASSUME NEW c \in Attempts,
         NEW type \in {"invite", "accept", "bye", "byeResult"}
  PROVE  Msg(type, c) \in Messages
BY DEF Msg, Messages

\* Jobs of existing attempts are jobs.
LEMMA JobType ==
  ASSUME NEW a \in Attempts, NEW kind \in JobKinds
  PROVE  Job(kind, a) \in Jobs
BY DEF Job, Jobs

\* What a handler appends to the callbacks told keeps their type.
LEMMA ToldType ==
  ASSUME told \in Seq(Callbacks)
  PROVE  /\ told \o LeaveTalking \in Seq(Callbacks)
         /\ told \o LeaveTalking \o <<"failed", "destroyed">> \in Seq(Callbacks)
         /\ told \o LeaveTalking \o <<"destroyed">> \in Seq(Callbacks)
         /\ told \o <<"failed", "destroyed">> \in Seq(Callbacks)
         /\ Append(told, "connected") \in Seq(Callbacks)
<1>1. LeaveTalking \in Seq(Callbacks)
  <2>1. <<"completed">> \in Seq(Callbacks)
    BY DEF Callbacks
  <2>2. << >> \in Seq(Callbacks)
    OBVIOUS
  <2> QED
    BY <2>1, <2>2, Zenon DEF LeaveTalking
<1>2. /\ <<"failed", "destroyed">> \in Seq(Callbacks)
      /\ <<"destroyed">> \in Seq(Callbacks)
      /\ "connected" \in Callbacks
  BY DEF Callbacks
<1>3. \A s, t \in Seq(Callbacks) : s \o t \in Seq(Callbacks)
  OBVIOUS
<1> QED
  BY <1>1, <1>2, <1>3

\* The two halves of the type invariant.
SessionTypes ==
  /\ state \in States
  /\ attempt \in 0..MaxConnects
  /\ pc \in 0..MaxConnects
  /\ openPcs \subseteq Attempts
  /\ localStream \in 0..UserStream
  /\ liveStreams \subseteq 1..UserStream
  /\ userProvided \in BOOLEAN
  /\ hasCandidate \in BOOLEAN
  /\ told \in Seq(Callbacks)
  /\ hungUp \in {"nobody", "client", "server"}

SignalingTypes ==
  /\ jobs \subseteq Jobs
  /\ channel \in 0..MaxConnects
  /\ chan \in [Attempts -> ChannelStates]
  /\ sent \subseteq Messages
  /\ replied \subseteq Attempts
  /\ byed \subseteq Attempts
  /\ sdpless \subseteq Attempts

\* The type invariant is that of the session and that of the rest.
LEMMA TypeParts == /\ TypeOK <=> SessionTypes /\ SignalingTypes
                   /\ TypeOK' <=> SessionTypes' /\ SignalingTypes'
BY DEF TypeOK, SessionTypes, SignalingTypes

\* _stopSession keeps the types of the media variables.
LEMMA StopSessionTypes ==
  ASSUME SessionTypes, StopSession
  PROVE  /\ pc' \in 0..MaxConnects
         /\ openPcs' \subseteq Attempts
         /\ localStream' \in 0..UserStream
         /\ liveStreams' \subseteq 1..UserStream
         /\ userProvided' \in BOOLEAN
BY ConnectsAssumption DEF SessionTypes, StopSession

\* FailedState keeps the session's types.
LEMMA EnterFailedTypes ==
  ASSUME SessionTypes, NEW by \in {"nobody", "client", "server"},
         EnterFailed(by)
  PROVE  SessionTypes'
<1>1. told' \in Seq(Callbacks)
  BY ToldType DEF SessionTypes, EnterFailed
<1>2. state' \in States
  BY DEF EnterFailed, States, EndStates
<1> QED
  BY <1>1, <1>2, StopSessionTypes DEF SessionTypes, EnterFailed

\* DisconnectedState keeps the session's types.
LEMMA EnterDisconnectedTypes ==
  ASSUME SessionTypes, NEW by \in {"nobody", "client", "server"},
         EnterDisconnected(by)
  PROVE  SessionTypes'
<1>1. told' \in Seq(Callbacks)
  BY ToldType DEF SessionTypes, EnterDisconnected
<1>2. state' \in States
  BY DEF EnterDisconnected, States, EndStates
<1> QED
  BY <1>1, <1>2, StopSessionTypes DEF SessionTypes, EnterDisconnected

\* A handler the session ignores keeps them too.
LEMMA UnchangedTypes ==
  ASSUME SessionTypes, SessionUnchanged
  PROVE  SessionTypes'
BY DEF SessionTypes

\* So does what the session makes of a failed channel.
LEMMA OnSignalingFailedTypes ==
  ASSUME SessionTypes, NEW accessDenied \in BOOLEAN,
         OnSignalingFailed(accessDenied)
  PROVE  SessionTypes'
<1>1. hungUp \in {"nobody", "client", "server"}
  BY DEF SessionTypes
<1>2. EnterFailed(hungUp) \/ SessionUnchanged
  BY DEF OnSignalingFailed
<1> QED
  BY <1>1, <1>2, EnterFailedTypes, UnchangedTypes

\* A channel that fails keeps all types.
LEMMA ChannelFailsTypes ==
  ASSUME TypeOK, NEW c \in Attempts, NEW accessDenied \in BOOLEAN,
         ChannelFails(c, accessDenied), replied' \subseteq Attempts,
         UNCHANGED <<byed, sdpless>>
  PROVE  TypeOK'
<1>1. SessionTypes'
  BY TypeParts, OnSignalingFailedTypes DEF ChannelFails
<1>2. chan' \in [Attempts -> ChannelStates]
  BY DEF TypeOK, ChannelFails, ChannelStates
<1>3. SignalingTypes'
  BY <1>2 DEF TypeOK, SignalingTypes, ChannelFails
<1> QED
  BY <1>1, <1>3, TypeParts

\* The initial states satisfy the invariant.
LEMMA InitInv == Init => SessionInv
<1> SUFFICES ASSUME Init PROVE SessionInv
  OBVIOUS
<1>1. TypeOK
  <2>1. told \in Seq(Callbacks)
    BY DEF Init
  <2>2. chan \in [Attempts -> ChannelStates]
    BY DEF Init, ChannelStates
  <2>3. state \in States
    BY DEF Init, States
  <2>4. /\ attempt \in 0..MaxConnects
        /\ pc \in 0..MaxConnects
        /\ channel \in 0..MaxConnects
        /\ localStream \in 0..UserStream
        /\ liveStreams \subseteq 1..UserStream
          BY ConnectsAssumption DEF Init
  <2> QED
    BY <2>1, <2>2, <2>3, <2>4 DEF Init, TypeOK
<1>2. AttemptsStarted
  BY DEF Init, AttemptsStarted
<1>3. ChannelHistory
  BY DEF Init, ChannelHistory
<1>4. SignalingFollowsSession
  BY DEF Init, SignalingFollowsSession
<1> QED
  BY <1>1, <1>2, <1>3, <1>4 DEF SessionInv

\* A new attempt has a number no channel has.
LEMMA ConnectInv ==
  ASSUME SessionInv, Connect
  PROVE  SessionInv'
<1> USE ConnectsAssumption DEF SessionInv, Connect
<1>1. TypeOK'
  BY ToldType, MsgType, JobType DEF TypeOK, AttemptsStarted, ChannelHistory,
     SignalingFollowsSession, States, SetupStates, EndStates, ChannelStates,
     JobKinds
<1>2. AttemptsStarted'
  BY DEF TypeOK, AttemptsStarted, ChannelHistory, SignalingFollowsSession,
     SetupStates, EndStates
<1>3. ChannelHistory'
  BY DEF TypeOK, AttemptsStarted, ChannelHistory, SignalingFollowsSession, Msg
<1>4. SignalingFollowsSession'
  BY DEF TypeOK, AttemptsStarted, ChannelHistory, SignalingFollowsSession,
     SetupStates, EndStates, Msg
<1> QED
  BY <1>1, <1>2, <1>3, <1>4

\* The stream setter leaves the signaling alone.
LEMMA ProvideStreamInv ==
  ASSUME SessionInv, ProvideStream
  PROVE  SessionInv'
<1> USE ConnectsAssumption DEF SessionInv, ProvideStream
<1>1. TypeOK'
  BY ToldType, MsgType, JobType DEF TypeOK, AttemptsStarted, ChannelHistory,
     SignalingFollowsSession, States, SetupStates, EndStates, ChannelStates,
     JobKinds
<1>2. AttemptsStarted'
  BY DEF TypeOK, AttemptsStarted, ChannelHistory, SignalingFollowsSession,
     SetupStates, EndStates
<1>3. ChannelHistory'
  BY DEF TypeOK, AttemptsStarted, ChannelHistory, SignalingFollowsSession, Msg
<1>4. SignalingFollowsSession'
  BY DEF TypeOK, AttemptsStarted, ChannelHistory, SignalingFollowsSession,
     SetupStates, EndStates, Msg
<1> QED
  BY <1>1, <1>2, <1>3, <1>4

\* A hangup in Talking drives the session's own channel.
LEMMA HangupTalkingInv ==
  ASSUME SessionInv, NEW by \in {"client", "server"}, HangupTalking(by)
  PROVE  SessionInv'
<1> USE ConnectsAssumption DEF SessionInv, HangupTalking, ChannelHangup,
        HangupState, HangupReply, EnterDisconnected, StopSession
<1>1. TypeOK'
  <2>1. SessionTypes'
    BY TypeParts, EnterDisconnectedTypes
  <2>2. channel \in Attempts /\ chan[channel] \in {"Talking", "Failed",
        "PendingLocalHangup"}
    BY DEF TypeOK, AttemptsStarted, SignalingFollowsSession
  <2>3. chan' \in [Attempts -> ChannelStates] /\ channel' = channel
    BY <2>2 DEF TypeOK, ChannelStates
  <2>4. HangupReply(channel) \subseteq Messages
    BY <2>2, MsgType
  <2>5. sent' \subseteq Messages
    BY <2>4 DEF TypeOK
  <2>6. SignalingTypes'
    BY <2>3, <2>5 DEF TypeOK, SignalingTypes
  <2> QED
    BY <2>1, <2>6, TypeParts
<1>2. AttemptsStarted'
  BY DEF TypeOK, AttemptsStarted, ChannelHistory, SignalingFollowsSession,
     SetupStates, EndStates
<1>3. ChannelHistory'
  <2>1. channel \in Attempts /\ channel' = channel
    BY DEF TypeOK, AttemptsStarted, SignalingFollowsSession
  <2>2. \A c \in Attempts :
          chan'[c] \in {"none", "PendingInvite", "PendingAnswer"} => chan'[c] = chan[c]
    BY <2>1 DEF TypeOK
  <2>3. sent' \subseteq sent \union {Msg("bye", channel), Msg("byeResult", channel)}
    OBVIOUS
  <2>4. \A c \in Attempts : Msg("accept", c) \in sent' => Msg("accept", c) \in sent
    BY <2>3 DEF Msg
  <2> QED
    BY <2>1, <2>2, <2>4 DEF ChannelHistory
<1>4. SignalingFollowsSession'
  BY DEF TypeOK, AttemptsStarted, ChannelHistory, SignalingFollowsSession,
     SetupStates, EndStates, Msg
<1> QED
  BY <1>1, <1>2, <1>3, <1>4

\* A hangup before Talking leaves the channels alone.
LEMMA HangupSetupInv ==
  ASSUME SessionInv, NEW by \in {"client", "server"}, HangupSetup(by)
  PROVE  SessionInv'
<1> USE ConnectsAssumption DEF SessionInv, HangupSetup, EnterFailed,
        StopSession
<1>1. TypeOK'
  BY ToldType, MsgType, JobType DEF TypeOK, AttemptsStarted, ChannelHistory,
     SignalingFollowsSession, States, SetupStates, EndStates, ChannelStates,
     JobKinds
<1>2. AttemptsStarted'
  BY DEF TypeOK, AttemptsStarted, ChannelHistory, SignalingFollowsSession,
     SetupStates, EndStates
<1>3. ChannelHistory'
  BY DEF TypeOK, AttemptsStarted, ChannelHistory, SignalingFollowsSession, Msg
<1>4. SignalingFollowsSession'
  BY DEF TypeOK, AttemptsStarted, ChannelHistory, SignalingFollowsSession,
     SetupStates, EndStates, Msg
<1> QED
  BY <1>1, <1>2, <1>3, <1>4

\* CreateOffer is still before the channel.
LEMMA GumResolvedInv ==
  ASSUME SessionInv, NEW a \in Attempts, GumResolved(a)
  PROVE  SessionInv'
<1> USE ConnectsAssumption DEF SessionInv, GumResolved, IsCurrent, Launch
<1>1. TypeOK'
  BY ToldType, MsgType, JobType DEF TypeOK, AttemptsStarted, ChannelHistory,
     SignalingFollowsSession, States, SetupStates, EndStates, ChannelStates,
     JobKinds
<1>2. AttemptsStarted'
  BY DEF TypeOK, AttemptsStarted, ChannelHistory, SignalingFollowsSession,
     SetupStates, EndStates
<1>3. ChannelHistory'
  BY DEF TypeOK, AttemptsStarted, ChannelHistory, SignalingFollowsSession, Msg
<1>4. SignalingFollowsSession'
  BY DEF TypeOK, AttemptsStarted, ChannelHistory, SignalingFollowsSession,
     SetupStates, EndStates, Msg
<1> QED
  BY <1>1, <1>2, <1>3, <1>4

\* A timed-out getUserMedia fails the session or changes nothing.
LEMMA GumTimeoutInv ==
  ASSUME SessionInv, NEW a \in Attempts, GumTimeout(a)
  PROVE  SessionInv'
<1> USE ConnectsAssumption DEF SessionInv, GumTimeout, IsCurrent,
        EnterFailed, StopSession
<1>1. TypeOK'
  <2>1. SessionTypes'
    BY TypeParts, EnterFailedTypes, UnchangedTypes, hungUp \in {"nobody",
       "client", "server"} DEF TypeOK
  <2>2. Job("lateGum", a) \in Jobs
    BY JobType DEF JobKinds
  <2>3. SignalingTypes'
    BY <2>2 DEF TypeOK, SignalingTypes
  <2> QED
    BY <2>1, <2>3, TypeParts
<1>2. AttemptsStarted'
  BY DEF TypeOK, AttemptsStarted, ChannelHistory, SignalingFollowsSession,
     SetupStates, EndStates
<1>3. ChannelHistory'
  BY DEF TypeOK, AttemptsStarted, ChannelHistory, SignalingFollowsSession, Msg
<1>4. SignalingFollowsSession'
  BY DEF TypeOK, AttemptsStarted, ChannelHistory, SignalingFollowsSession,
     SetupStates, EndStates, Msg
<1> QED
  BY <1>1, <1>2, <1>3, <1>4

\* A late stream reaches no state.
LEMMA LateGumResolvedInv ==
  ASSUME SessionInv, NEW a \in Attempts, LateGumResolved(a)
  PROVE  SessionInv'
<1> USE ConnectsAssumption DEF SessionInv, LateGumResolved
<1>1. TypeOK'
  BY ToldType, MsgType, JobType DEF TypeOK, AttemptsStarted, ChannelHistory,
     SignalingFollowsSession, States, SetupStates, EndStates, ChannelStates,
     JobKinds
<1>2. AttemptsStarted'
  BY DEF TypeOK, AttemptsStarted, ChannelHistory, SignalingFollowsSession,
     SetupStates, EndStates
<1>3. ChannelHistory'
  BY DEF TypeOK, AttemptsStarted, ChannelHistory, SignalingFollowsSession, Msg
<1>4. SignalingFollowsSession'
  BY DEF TypeOK, AttemptsStarted, ChannelHistory, SignalingFollowsSession,
     SetupStates, EndStates, Msg
<1> QED
  BY <1>1, <1>2, <1>3, <1>4

\* A rejected promise fails the session or changes nothing.
LEMMA JobRejectedInv ==
  ASSUME SessionInv, NEW a \in Attempts, NEW kind \in {"gum", "createOffer",
         "setLocalDescription"}, JobRejected(kind, a)
  PROVE  SessionInv'
<1> USE ConnectsAssumption DEF SessionInv, JobRejected, IsCurrent, OwnerOf,
        EnterFailed, StopSession
<1>1. TypeOK'
  <2>1. SessionTypes'
    BY TypeParts, EnterFailedTypes, UnchangedTypes, hungUp \in {"nobody",
       "client", "server"} DEF TypeOK
  <2>2. SignalingTypes'
    BY DEF TypeOK, SignalingTypes
  <2> QED
    BY <2>1, <2>2, TypeParts
<1>2. AttemptsStarted'
  BY DEF TypeOK, AttemptsStarted, ChannelHistory, SignalingFollowsSession,
     SetupStates, EndStates
<1>3. ChannelHistory'
  BY DEF TypeOK, AttemptsStarted, ChannelHistory, SignalingFollowsSession, Msg
<1>4. SignalingFollowsSession'
  BY DEF TypeOK, AttemptsStarted, ChannelHistory, SignalingFollowsSession,
     SetupStates, EndStates, Msg
<1> QED
  BY <1>1, <1>2, <1>3, <1>4

\* SetLocalSessionDescription is still before the channel.
LEMMA OfferCreatedInv ==
  ASSUME SessionInv, NEW a \in Attempts, OfferCreated(a)
  PROVE  SessionInv'
<1> USE ConnectsAssumption DEF SessionInv, OfferCreated, IsCurrent, Launch
<1>1. TypeOK'
  BY ToldType, MsgType, JobType DEF TypeOK, AttemptsStarted, ChannelHistory,
     SignalingFollowsSession, States, SetupStates, EndStates, ChannelStates,
     JobKinds
<1>2. AttemptsStarted'
  BY DEF TypeOK, AttemptsStarted, ChannelHistory, SignalingFollowsSession,
     SetupStates, EndStates
<1>3. ChannelHistory'
  BY DEF TypeOK, AttemptsStarted, ChannelHistory, SignalingFollowsSession, Msg
<1>4. SignalingFollowsSession'
  BY DEF TypeOK, AttemptsStarted, ChannelHistory, SignalingFollowsSession,
     SetupStates, EndStates, Msg
<1> QED
  BY <1>1, <1>2, <1>3, <1>4

\* The attempt's channel is created in PendingInvite, with no history.
LEMMA LocalDescriptionSetInv ==
  ASSUME SessionInv, NEW a \in Attempts, LocalDescriptionSet(a)
  PROVE  SessionInv'
<1> USE ConnectsAssumption DEF SessionInv, LocalDescriptionSet, IsCurrent
<1>1. TypeOK'
  BY ToldType, MsgType, JobType DEF TypeOK, AttemptsStarted, ChannelHistory,
     SignalingFollowsSession, States, SetupStates, EndStates, ChannelStates,
     JobKinds
<1>2. AttemptsStarted'
  BY DEF TypeOK, AttemptsStarted, ChannelHistory, SignalingFollowsSession,
     SetupStates, EndStates
<1>3. ChannelHistory'
  BY DEF TypeOK, AttemptsStarted, ChannelHistory, SignalingFollowsSession, Msg
<1>4. SignalingFollowsSession'
  BY DEF TypeOK, AttemptsStarted, ChannelHistory, SignalingFollowsSession,
     SetupStates, EndStates, Msg
<1> QED
  BY <1>1, <1>2, <1>3, <1>4

\* The INVITE goes out on the attempt's own channel.
LEMMA IceCandidateInv ==
  ASSUME SessionInv, NEW sufficient \in BOOLEAN, IceCandidate(sufficient)
  PROVE  SessionInv'
<1> USE ConnectsAssumption DEF SessionInv, IceCandidate, SendInvite
<1>1. TypeOK'
  BY ToldType, MsgType, JobType DEF TypeOK, AttemptsStarted, ChannelHistory,
     SignalingFollowsSession, States, SetupStates, EndStates, ChannelStates,
     JobKinds
<1>2. AttemptsStarted'
  BY DEF TypeOK, AttemptsStarted, ChannelHistory, SignalingFollowsSession,
     SetupStates, EndStates
<1>3. ChannelHistory'
  BY DEF TypeOK, AttemptsStarted, ChannelHistory, SignalingFollowsSession, Msg
<1>4. SignalingFollowsSession'
  BY DEF TypeOK, AttemptsStarted, ChannelHistory, SignalingFollowsSession,
     SetupStates, EndStates, Msg
<1> QED
  BY <1>1, <1>2, <1>3, <1>4

\* The INVITE goes out on the attempt's own channel, or the session fails.
LEMMA IceCollectionEndsInv ==
  ASSUME SessionInv, IceCollectionEnds
  PROVE  SessionInv'
<1> USE ConnectsAssumption DEF SessionInv, IceCollectionEnds, SendInvite,
        EnterFailed, StopSession
<1>1. TypeOK'
  <2>1. CASE hasCandidate
    <3>1. channel \in Attempts
      BY DEF TypeOK, AttemptsStarted, SignalingFollowsSession
    <3>2. chan' \in [Attempts -> ChannelStates] /\ sent' \subseteq Messages
      BY <2>1, <3>1, MsgType DEF TypeOK, ChannelStates
    <3> QED
      BY <2>1, <3>2 DEF TypeOK, States, SetupStates
  <2>2. CASE ~hasCandidate
    <3>1. SessionTypes'
      BY <2>2, TypeParts, EnterFailedTypes, hungUp \in {"nobody", "client",
         "server"} DEF TypeOK
    <3>2. SignalingTypes'
      BY <2>2 DEF TypeOK, SignalingTypes
    <3> QED
      BY <3>1, <3>2, TypeParts
  <2> QED
    BY <2>1, <2>2
<1>2. AttemptsStarted'
  BY DEF TypeOK, AttemptsStarted, ChannelHistory, SignalingFollowsSession,
     SetupStates, EndStates
<1>3. ChannelHistory'
  BY DEF TypeOK, AttemptsStarted, ChannelHistory, SignalingFollowsSession, Msg
<1>4. SignalingFollowsSession'
  BY DEF TypeOK, AttemptsStarted, ChannelHistory, SignalingFollowsSession,
     SetupStates, EndStates, Msg
<1> QED
  BY <1>1, <1>2, <1>3, <1>4

\* Only the listener in PendingAnswer takes an answer, and it has sent no
\* ACCEPT.
LEMMA InviteAnsweredInv ==
  ASSUME SessionInv, NEW c \in Attempts, NEW answer \in Answers,
         InviteAnswered(c, answer)
  PROVE  SessionInv'
<1> USE ConnectsAssumption DEF SessionInv, InviteAnswered, NotifyAnswered,
        OnSignalingAnswered, Listening, Launch, EnterFailed, StopSession
<1>1. TypeOK'
  <2>1. SessionTypes' /\ jobs' \subseteq Jobs
    <3>1. CASE EnterFailed(hungUp) /\ UNCHANGED jobs
      BY <3>1, TypeParts, EnterFailedTypes, hungUp \in {"nobody", "client",
         "server"} DEF TypeOK
    <3>2. CASE SessionUnchanged /\ UNCHANGED jobs
      BY <3>2, TypeParts, UnchangedTypes DEF TypeOK
    <3>3. CASE /\ state = "InviteAnswer" /\ state' = "Accept"
               /\ Launch("setRemoteDescription", jobs)
               /\ UNCHANGED <<attempt, hasCandidate, mediaVars, reportVars>>
      <4>1. Job("setRemoteDescription", attempt) \in Jobs
        BY <3>3, JobType DEF TypeOK, AttemptsStarted, JobKinds
      <4>2. jobs' \subseteq Jobs
        BY <3>3, <4>1 DEF TypeOK
      <4>3. SessionTypes'
        BY <3>3 DEF TypeOK, SessionTypes, States, SetupStates
      <4> QED
        BY <4>2, <4>3
    <3> QED
      BY <3>1, <3>2, <3>3
  <2>2. chan' \in [Attempts -> ChannelStates]
    BY DEF TypeOK, ChannelStates
  <2>3. sent' \subseteq Messages
    BY MsgType DEF TypeOK
  <2>4. SignalingTypes'
    BY <2>1, <2>2, <2>3 DEF TypeOK, SignalingTypes
  <2> QED
    BY <2>1, <2>4, TypeParts
<1>2. AttemptsStarted'
  BY DEF TypeOK, AttemptsStarted, ChannelHistory, SignalingFollowsSession,
     SetupStates, EndStates
<1>3. ChannelHistory'
  BY DEF TypeOK, AttemptsStarted, ChannelHistory, SignalingFollowsSession, Msg
<1>4. SignalingFollowsSession'
  BY DEF TypeOK, AttemptsStarted, ChannelHistory, SignalingFollowsSession,
     SetupStates, EndStates, Msg
<1> QED
  BY <1>1, <1>2, <1>3, <1>4

\* A rejected INVITE fails the channel and, in InviteAnswer, the session.
LEMMA InviteRejectedInv ==
  ASSUME SessionInv, NEW c \in Attempts, InviteRejected(c)
  PROVE  SessionInv'
<1> USE ConnectsAssumption DEF SessionInv, InviteRejected, ChannelFails,
        Listening, OnSignalingFailed, EnterFailed, StopSession
<1>1. TypeOK'
  <2>1. CASE ChannelFails(c, FALSE)
    BY <2>1, ChannelFailsTypes DEF TypeOK
  <2>2. CASE SessionUnchanged /\ UNCHANGED <<jobs, signalingVars>>
    BY <2>2 DEF TypeOK
  <2> QED
    BY <2>1, <2>2
<1>2. AttemptsStarted'
  BY DEF TypeOK, AttemptsStarted, ChannelHistory, SignalingFollowsSession,
     SetupStates, EndStates
<1>3. ChannelHistory'
  BY DEF TypeOK, AttemptsStarted, ChannelHistory, SignalingFollowsSession, Msg
<1>4. SignalingFollowsSession'
  BY DEF TypeOK, AttemptsStarted, ChannelHistory, SignalingFollowsSession,
     SetupStates, EndStates, Msg
<1> QED
  BY <1>1, <1>2, <1>3, <1>4

\* A channel that times out is old, or takes the session with it.
LEMMA ChannelTimeoutInv ==
  ASSUME SessionInv, NEW c \in Attempts, ChannelTimeout(c)
  PROVE  SessionInv'
<1> USE ConnectsAssumption DEF SessionInv, ChannelTimeout, ChannelFails,
        OnSignalingFailed, EnterFailed, StopSession
<1>1. TypeOK'
  BY ChannelFailsTypes DEF TypeOK
<1>2. AttemptsStarted'
  BY DEF TypeOK, AttemptsStarted, ChannelHistory, SignalingFollowsSession,
     SetupStates, EndStates
<1>3. ChannelHistory'
  BY DEF TypeOK, AttemptsStarted, ChannelHistory, SignalingFollowsSession, Msg
<1>4. SignalingFollowsSession'
  BY DEF TypeOK, AttemptsStarted, ChannelHistory, SignalingFollowsSession,
     SetupStates, EndStates, Msg
<1> QED
  BY <1>1, <1>2, <1>3, <1>4

\* A rejected ACCEPT leaves the session in Accept or Talking.
LEMMA AcceptRejectedInv ==
  ASSUME SessionInv, NEW c \in Attempts, NEW denied \in BOOLEAN,
         AcceptRejected(c, denied)
  PROVE  SessionInv'
<1> USE ConnectsAssumption DEF SessionInv, AcceptRejected, ChannelFails,
        Listening, OnSignalingFailed, EnterFailed, StopSession
<1>1. TypeOK'
  BY ChannelFailsTypes DEF TypeOK
<1>2. AttemptsStarted'
  BY DEF TypeOK, AttemptsStarted, ChannelHistory, SignalingFollowsSession,
     SetupStates, EndStates
<1>3. ChannelHistory'
  BY DEF TypeOK, AttemptsStarted, ChannelHistory, SignalingFollowsSession, Msg
<1>4. SignalingFollowsSession'
  BY DEF TypeOK, AttemptsStarted, ChannelHistory, SignalingFollowsSession,
     SetupStates, EndStates, Msg
<1> QED
  BY <1>1, <1>2, <1>3, <1>4

\* A BYE moves the session's own channel, or none that matters.
LEMMA ServerByeInv ==
  ASSUME SessionInv, NEW c \in Attempts, ServerBye(c)
  PROVE  SessionInv'
<1> USE ConnectsAssumption DEF SessionInv, ServerBye, EnterDisconnected,
        StopSession
<1>1. TypeOK'
  <2>1. SessionTypes'
    BY TypeParts, EnterDisconnectedTypes, UnchangedTypes, hungUp \in
       {"nobody", "client", "server"} DEF TypeOK
  <2>2. channel \in Attempts
    BY DEF TypeOK, ChannelHistory
  <2>3. chan' \in [Attempts -> ChannelStates]
    BY <2>2 DEF TypeOK, ChannelStates
  <2>5. Msg("byeResult", channel) \in Messages
    BY <2>2, MsgType
  <2>6. sent' = sent \/ sent' = sent \union {Msg("byeResult", channel)}
    OBVIOUS
  <2>7. sent' \subseteq Messages
    BY <2>5, <2>6 DEF TypeOK
  <2>4. SignalingTypes'
    BY <2>3, <2>7 DEF TypeOK, SignalingTypes
  <2> QED
    BY <2>1, <2>4, TypeParts
<1>2. AttemptsStarted'
  BY DEF TypeOK, AttemptsStarted, ChannelHistory, SignalingFollowsSession,
     SetupStates, EndStates
<1>3. ChannelHistory'
  <2>1. channel \in Attempts /\ UNCHANGED channel
    BY DEF TypeOK, ChannelHistory
  <2>2. \A d \in Attempts : Msg("accept", d) # Msg("byeResult", channel)
    BY DEF Msg
  <2>3. \A d \in Attempts : Msg("accept", d) \in sent' => Msg("accept",
        d) \in sent
    BY <2>2
  <2>4. \A d \in Attempts :
          chan'[d] \in {"none", "PendingInvite", "PendingAnswer"} =>
          chan'[d] = chan[d]
    BY <2>1 DEF TypeOK
  <2> QED
    BY <2>1, <2>3, <2>4 DEF ChannelHistory, TypeOK
<1>4. SignalingFollowsSession'
  BY DEF TypeOK, AttemptsStarted, ChannelHistory, SignalingFollowsSession,
     SetupStates, EndStates, Msg
<1> QED
  BY <1>1, <1>2, <1>3, <1>4

\* The answer to a BYE reaches a channel no session state needs.
LEMMA ByeAnsweredInv ==
  ASSUME SessionInv, NEW c \in Attempts, ByeAnswered(c)
  PROVE  SessionInv'
<1> USE ConnectsAssumption DEF SessionInv, ByeAnswered, Listening
<1>1. TypeOK'
  BY ToldType, MsgType, JobType DEF TypeOK, AttemptsStarted, ChannelHistory,
     SignalingFollowsSession, States, SetupStates, EndStates, ChannelStates,
     JobKinds
<1>2. AttemptsStarted'
  BY DEF TypeOK, AttemptsStarted, ChannelHistory, SignalingFollowsSession,
     SetupStates, EndStates
<1>3. ChannelHistory'
  BY DEF TypeOK, AttemptsStarted, ChannelHistory, SignalingFollowsSession, Msg
<1>4. SignalingFollowsSession'
  BY DEF TypeOK, AttemptsStarted, ChannelHistory, SignalingFollowsSession,
     SetupStates, EndStates, Msg
<1> QED
  BY <1>1, <1>2, <1>3, <1>4

\* Talking needs of the channel what Accept needs.
LEMMA RemoteDescriptionSetInv ==
  ASSUME SessionInv, NEW a \in Attempts, RemoteDescriptionSet(a)
  PROVE  SessionInv'
<1> USE ConnectsAssumption DEF SessionInv, RemoteDescriptionSet, IsCurrent
<1>1. TypeOK'
  <2>1. told' \in Seq(Callbacks)
    BY ToldType, told' = told \/ told' = Append(told, "connected") DEF TypeOK
  <2>2. state' \in States
    BY DEF TypeOK, States
  <2> QED
    BY <2>1, <2>2 DEF TypeOK
<1>2. AttemptsStarted'
  BY DEF TypeOK, AttemptsStarted, ChannelHistory, SignalingFollowsSession,
     SetupStates, EndStates
<1>3. ChannelHistory'
  BY DEF TypeOK, AttemptsStarted, ChannelHistory, SignalingFollowsSession, Msg
<1>4. SignalingFollowsSession'
  BY DEF TypeOK, AttemptsStarted, ChannelHistory, SignalingFollowsSession,
     SetupStates, EndStates, Msg
<1> QED
  BY <1>1, <1>2, <1>3, <1>4

\* A rejected answer fails the session or changes no state.
LEMMA RemoteDescriptionRejectedInv ==
  ASSUME SessionInv, NEW a \in Attempts, RemoteDescriptionRejected(a)
  PROVE  SessionInv'
<1> USE ConnectsAssumption DEF SessionInv, RemoteDescriptionRejected,
        IsCurrent, StopSession
<1>1. TypeOK'
  <2>1. told' \in Seq(Callbacks)
    BY ToldType DEF TypeOK
  <2>2. state' \in States
    BY DEF TypeOK, States, EndStates
  <2>3. SessionTypes'
    BY <2>1, <2>2, TypeParts, StopSessionTypes DEF SessionTypes
  <2>4. SignalingTypes'
    BY DEF TypeOK, SignalingTypes
  <2> QED
    BY <2>3, <2>4, TypeParts
<1>2. AttemptsStarted'
  BY DEF TypeOK, AttemptsStarted, ChannelHistory, SignalingFollowsSession,
     SetupStates, EndStates
<1>3. ChannelHistory'
  BY DEF TypeOK, AttemptsStarted, ChannelHistory, SignalingFollowsSession, Msg
<1>4. SignalingFollowsSession'
  BY DEF TypeOK, AttemptsStarted, ChannelHistory, SignalingFollowsSession,
     SetupStates, EndStates, Msg
<1> QED
  BY <1>1, <1>2, <1>3, <1>4

\* Every step keeps the invariant.
LEMMA SessionInvStep == SessionInv /\ [Next]_vars => SessionInv'
<1> SUFFICES ASSUME SessionInv, [Next]_vars PROVE SessionInv'
  OBVIOUS
<1>1. CASE UNCHANGED vars
  BY <1>1 DEF SessionInv, TypeOK, AttemptsStarted, ChannelHistory,
     SignalingFollowsSession
<1>2. CASE Next
  BY <1>2, ConnectInv, ProvideStreamInv, HangupTalkingInv, HangupSetupInv,
     GumResolvedInv, GumTimeoutInv, LateGumResolvedInv, JobRejectedInv,
     OfferCreatedInv, LocalDescriptionSetInv, IceCandidateInv,
     IceCollectionEndsInv, InviteAnsweredInv, InviteRejectedInv,
     ChannelTimeoutInv, AcceptRejectedInv, ServerByeInv, ByeAnsweredInv,
     RemoteDescriptionSetInv, RemoteDescriptionRejectedInv
     DEF Next, JobSettles, ServerMessage
<1> QED
  BY <1>1, <1>2

\* The invariant holds throughout.
LEMMA SessionInvHolds == Spec => []SessionInv
<1> QED
  BY InitInv, SessionInvStep, PTL DEF Spec

\* Every variable keeps its type (definition TypeOK).
THEOREM TypeCorrect == Spec => []TypeOK
<1>1. SessionInv => TypeOK
  BY DEF SessionInv
<1> QED
  BY <1>1, SessionInvHolds, PTL

\* The signaling channel is where the session state needs it, at every moment
\* (transit and the handlers of both state machines).
THEOREM ChannelInStep == Spec => []SignalingFollowsSession
<1>1. SessionInv => SignalingFollowsSession
  BY DEF SessionInv
<1> QED
  BY <1>1, SessionInvHolds, PTL

\* Every step keeps the goodbyes: Disconnected is entered from Talking only.
LEMMA GoodbyeStep ==
  ASSUME SessionInv, DisconnectedSaidGoodbye, [Next]_vars
  PROVE  DisconnectedSaidGoodbye'
<1>1. CASE Connect
  BY <1>1 DEF Connect, SessionInv, TypeOK, AttemptsStarted,
     SignalingFollowsSession, SetupStates, DisconnectedSaidGoodbye
<1>2. CASE ProvideStream
  BY <1>2 DEF ProvideStream, SessionInv, TypeOK, AttemptsStarted,
     SignalingFollowsSession, SetupStates, DisconnectedSaidGoodbye
<1>3. ASSUME NEW by \in {"client", "server"}, HangupTalking(by)
      PROVE  DisconnectedSaidGoodbye'
  BY <1>3 DEF HangupTalking, ChannelHangup, HangupState, HangupReply,
     EnterDisconnected, StopSession, SessionInv, TypeOK, AttemptsStarted,
     SignalingFollowsSession, SetupStates, DisconnectedSaidGoodbye
<1>4. ASSUME NEW by \in {"client", "server"}, HangupSetup(by)
      PROVE  DisconnectedSaidGoodbye'
  BY <1>4 DEF HangupSetup, EnterFailed, StopSession, SessionInv, TypeOK,
     AttemptsStarted, SignalingFollowsSession, SetupStates,
     DisconnectedSaidGoodbye
<1>5. ASSUME NEW a \in Attempts, GumResolved(a)
      PROVE  DisconnectedSaidGoodbye'
  BY <1>5 DEF GumResolved, IsCurrent, Launch, SessionInv, TypeOK,
     AttemptsStarted, SignalingFollowsSession, SetupStates,
     DisconnectedSaidGoodbye
<1>6. ASSUME NEW a \in Attempts, GumTimeout(a)
      PROVE  DisconnectedSaidGoodbye'
  BY <1>6 DEF GumTimeout, IsCurrent, EnterFailed, StopSession, SessionInv,
     TypeOK, AttemptsStarted, SignalingFollowsSession, SetupStates,
     DisconnectedSaidGoodbye
<1>7. ASSUME NEW a \in Attempts, LateGumResolved(a)
      PROVE  DisconnectedSaidGoodbye'
  BY <1>7 DEF LateGumResolved, SessionInv, TypeOK, AttemptsStarted,
     SignalingFollowsSession, SetupStates, DisconnectedSaidGoodbye
<1>8. ASSUME NEW kind \in {"gum", "createOffer", "setLocalDescription"},
             NEW a \in Attempts, JobRejected(kind, a)
      PROVE  DisconnectedSaidGoodbye'
  BY <1>8 DEF JobRejected, IsCurrent, OwnerOf, EnterFailed, StopSession,
     SessionInv, TypeOK, AttemptsStarted, SignalingFollowsSession, SetupStates,
     DisconnectedSaidGoodbye
<1>9. ASSUME NEW a \in Attempts, OfferCreated(a)
      PROVE  DisconnectedSaidGoodbye'
  BY <1>9 DEF OfferCreated, IsCurrent, Launch, SessionInv, TypeOK,
     AttemptsStarted, SignalingFollowsSession, SetupStates,
     DisconnectedSaidGoodbye
<1>10. ASSUME NEW a \in Attempts, LocalDescriptionSet(a)
      PROVE  DisconnectedSaidGoodbye'
  BY <1>10 DEF LocalDescriptionSet, IsCurrent, SessionInv, TypeOK,
     AttemptsStarted, SignalingFollowsSession, SetupStates,
     DisconnectedSaidGoodbye
<1>11. ASSUME NEW sufficient \in BOOLEAN, IceCandidate(sufficient)
      PROVE  DisconnectedSaidGoodbye'
  BY <1>11 DEF IceCandidate, SendInvite, SessionInv, TypeOK, AttemptsStarted,
     SignalingFollowsSession, SetupStates, DisconnectedSaidGoodbye
<1>12. CASE IceCollectionEnds
  BY <1>12 DEF IceCollectionEnds, SendInvite, EnterFailed, StopSession,
     SessionInv, TypeOK, AttemptsStarted, SignalingFollowsSession, SetupStates,
     DisconnectedSaidGoodbye
<1>13. ASSUME NEW c \in Attempts, NEW answer \in Answers, InviteAnswered(c,
              answer)
      PROVE  DisconnectedSaidGoodbye'
  BY <1>13 DEF InviteAnswered, NotifyAnswered, OnSignalingAnswered, Listening,
     Launch, EnterFailed, StopSession, SessionInv, TypeOK, AttemptsStarted,
     SignalingFollowsSession, SetupStates, DisconnectedSaidGoodbye
<1>14. ASSUME NEW c \in Attempts, InviteRejected(c)
      PROVE  DisconnectedSaidGoodbye'
  BY <1>14 DEF InviteRejected, ChannelFails, Listening, OnSignalingFailed,
     EnterFailed, StopSession, SessionInv, TypeOK, AttemptsStarted,
     SignalingFollowsSession, SetupStates, DisconnectedSaidGoodbye
<1>15. ASSUME NEW c \in Attempts, ChannelTimeout(c)
      PROVE  DisconnectedSaidGoodbye'
  BY <1>15 DEF ChannelTimeout, ChannelFails, OnSignalingFailed, EnterFailed,
     StopSession, SessionInv, TypeOK, AttemptsStarted, SignalingFollowsSession,
     SetupStates, DisconnectedSaidGoodbye
<1>16. ASSUME NEW c \in Attempts, NEW denied \in BOOLEAN, AcceptRejected(c,
              denied)
      PROVE  DisconnectedSaidGoodbye'
  BY <1>16 DEF AcceptRejected, ChannelFails, Listening, OnSignalingFailed,
     EnterFailed, StopSession, SessionInv, TypeOK, AttemptsStarted,
     SignalingFollowsSession, SetupStates, DisconnectedSaidGoodbye
<1>17. ASSUME NEW c \in Attempts, ServerBye(c)
      PROVE  DisconnectedSaidGoodbye'
  BY <1>17 DEF ServerBye, EnterDisconnected, StopSession, SessionInv, TypeOK,
     AttemptsStarted, SignalingFollowsSession, SetupStates,
     DisconnectedSaidGoodbye
<1>18. ASSUME NEW c \in Attempts, ByeAnswered(c)
      PROVE  DisconnectedSaidGoodbye'
  BY <1>18 DEF ByeAnswered, Listening, SessionInv, TypeOK, AttemptsStarted,
     SignalingFollowsSession, SetupStates, DisconnectedSaidGoodbye
<1>19. ASSUME NEW a \in Attempts, RemoteDescriptionSet(a)
      PROVE  DisconnectedSaidGoodbye'
  BY <1>19 DEF RemoteDescriptionSet, IsCurrent, SessionInv, TypeOK,
     AttemptsStarted, SignalingFollowsSession, SetupStates,
     DisconnectedSaidGoodbye
<1>20. ASSUME NEW a \in Attempts, RemoteDescriptionRejected(a)
      PROVE  DisconnectedSaidGoodbye'
  BY <1>20 DEF RemoteDescriptionRejected, IsCurrent, StopSession, SessionInv,
     TypeOK, AttemptsStarted, SignalingFollowsSession, SetupStates,
     DisconnectedSaidGoodbye
<1>21. CASE UNCHANGED vars
  BY <1>21 DEF DisconnectedSaidGoodbye
<1> QED
  BY <1>1, <1>2, <1>3, <1>4, <1>5, <1>6, <1>7, <1>8, <1>9, <1>10, <1>11, <1>12,
     <1>13, <1>14, <1>15, <1>16, <1>17, <1>18, <1>19, <1>20, <1>21
     DEF Next, JobSettles, ServerMessage

\* The peer connections: the session's own one is the only one a first attempt
\* can leave open.
PcInv ==
  /\ state \in EndStates => pc = None
  /\ attempt = 0 => pc = None
  /\ attempt <= 1 => openPcs \subseteq {pc}

\* Every step keeps the bookkeeping of peer connections.
LEMMA PcStep ==
  ASSUME SessionInv, PcInv, [Next]_vars
  PROVE  PcInv'
<1>1. CASE Connect
  BY <1>1 DEF Connect, SessionInv, TypeOK, AttemptsStarted, SetupStates,
     EndStates, PcInv
<1>2. CASE ProvideStream
  BY <1>2 DEF ProvideStream, SessionInv, TypeOK, AttemptsStarted, SetupStates,
     EndStates, PcInv
<1>3. ASSUME NEW by \in {"client", "server"}, HangupTalking(by)
      PROVE  PcInv'
  BY <1>3 DEF HangupTalking, ChannelHangup, HangupState, HangupReply,
     EnterDisconnected, StopSession, SessionInv, TypeOK, AttemptsStarted,
     SetupStates, EndStates, PcInv
<1>4. ASSUME NEW by \in {"client", "server"}, HangupSetup(by)
      PROVE  PcInv'
  BY <1>4 DEF HangupSetup, EnterFailed, StopSession, SessionInv, TypeOK,
     AttemptsStarted, SetupStates, EndStates, PcInv
<1>5. ASSUME NEW a \in Attempts, GumResolved(a)
      PROVE  PcInv'
  BY <1>5 DEF GumResolved, IsCurrent, Launch, SessionInv, TypeOK,
     AttemptsStarted, SetupStates, EndStates, PcInv
<1>6. ASSUME NEW a \in Attempts, GumTimeout(a)
      PROVE  PcInv'
  BY <1>6 DEF GumTimeout, IsCurrent, EnterFailed, StopSession, SessionInv,
     TypeOK, AttemptsStarted, SetupStates, EndStates, PcInv
<1>7. ASSUME NEW a \in Attempts, LateGumResolved(a)
      PROVE  PcInv'
  BY <1>7 DEF LateGumResolved, SessionInv, TypeOK, AttemptsStarted, SetupStates,
     EndStates, PcInv
<1>8. ASSUME NEW kind \in {"gum", "createOffer", "setLocalDescription"},
             NEW a \in Attempts, JobRejected(kind, a)
      PROVE  PcInv'
  BY <1>8 DEF JobRejected, IsCurrent, OwnerOf, EnterFailed, StopSession,
     SessionInv, TypeOK, AttemptsStarted, SetupStates, EndStates, PcInv
<1>9. ASSUME NEW a \in Attempts, OfferCreated(a)
      PROVE  PcInv'
  BY <1>9 DEF OfferCreated, IsCurrent, Launch, SessionInv, TypeOK,
     AttemptsStarted, SetupStates, EndStates, PcInv
<1>10. ASSUME NEW a \in Attempts, LocalDescriptionSet(a)
      PROVE  PcInv'
  BY <1>10 DEF LocalDescriptionSet, IsCurrent, SessionInv, TypeOK,
     AttemptsStarted, SetupStates, EndStates, PcInv
<1>11. ASSUME NEW sufficient \in BOOLEAN, IceCandidate(sufficient)
      PROVE  PcInv'
  BY <1>11 DEF IceCandidate, SendInvite, SessionInv, TypeOK, AttemptsStarted,
     SetupStates, EndStates, PcInv
<1>12. CASE IceCollectionEnds
  BY <1>12 DEF IceCollectionEnds, SendInvite, EnterFailed, StopSession,
     SessionInv, TypeOK, AttemptsStarted, SetupStates, EndStates, PcInv
<1>13. ASSUME NEW c \in Attempts, NEW answer \in Answers, InviteAnswered(c,
              answer)
      PROVE  PcInv'
  BY <1>13 DEF InviteAnswered, NotifyAnswered, OnSignalingAnswered, Listening,
     Launch, EnterFailed, StopSession, SessionInv, TypeOK, AttemptsStarted,
     SetupStates, EndStates, PcInv
<1>14. ASSUME NEW c \in Attempts, InviteRejected(c)
      PROVE  PcInv'
  BY <1>14 DEF InviteRejected, ChannelFails, Listening, OnSignalingFailed,
     EnterFailed, StopSession, SessionInv, TypeOK, AttemptsStarted, SetupStates,
     EndStates, PcInv
<1>15. ASSUME NEW c \in Attempts, ChannelTimeout(c)
      PROVE  PcInv'
  BY <1>15 DEF ChannelTimeout, ChannelFails, OnSignalingFailed, EnterFailed,
     StopSession, SessionInv, TypeOK, AttemptsStarted, SetupStates, EndStates,
     PcInv
<1>16. ASSUME NEW c \in Attempts, NEW denied \in BOOLEAN, AcceptRejected(c,
              denied)
      PROVE  PcInv'
  BY <1>16 DEF AcceptRejected, ChannelFails, Listening, OnSignalingFailed,
     EnterFailed, StopSession, SessionInv, TypeOK, AttemptsStarted, SetupStates,
     EndStates, PcInv
<1>17. ASSUME NEW c \in Attempts, ServerBye(c)
      PROVE  PcInv'
  BY <1>17 DEF ServerBye, EnterDisconnected, StopSession, SessionInv, TypeOK,
     AttemptsStarted, SetupStates, EndStates, PcInv
<1>18. ASSUME NEW c \in Attempts, ByeAnswered(c)
      PROVE  PcInv'
  BY <1>18 DEF ByeAnswered, Listening, SessionInv, TypeOK, AttemptsStarted,
     SetupStates, EndStates, PcInv
<1>19. ASSUME NEW a \in Attempts, RemoteDescriptionSet(a)
      PROVE  PcInv'
  BY <1>19 DEF RemoteDescriptionSet, IsCurrent, SessionInv, TypeOK,
     AttemptsStarted, SetupStates, EndStates, PcInv
<1>20. ASSUME NEW a \in Attempts, RemoteDescriptionRejected(a)
      PROVE  PcInv'
  BY <1>20 DEF RemoteDescriptionRejected, IsCurrent, StopSession, SessionInv,
     TypeOK, AttemptsStarted, SetupStates, EndStates, PcInv
<1>21. CASE UNCHANGED vars
  BY <1>21 DEF PcInv
<1> QED
  BY <1>1, <1>2, <1>3, <1>4, <1>5, <1>6, <1>7, <1>8, <1>9, <1>10, <1>11, <1>12,
     <1>13, <1>14, <1>15, <1>16, <1>17, <1>18, <1>19, <1>20, <1>21
     DEF Next, JobSettles, ServerMessage

\* No step but connect() leaves an end state.
LEMMA FinalStep ==
  ASSUME SessionInv, [Next]_vars
  PROVE  (state \in EndStates) => (state' = state \/ attempt' # attempt)
<1>1. CASE Connect
  BY <1>1 DEF Connect, SetupStates, EndStates, SessionInv, TypeOK
<1>2. CASE ProvideStream
  BY <1>2 DEF ProvideStream, SetupStates, EndStates, SessionInv, TypeOK
<1>3. ASSUME NEW by \in {"client", "server"}, HangupTalking(by)
      PROVE  (state \in EndStates) => (state' = state \/ attempt' # attempt)
  BY <1>3 DEF HangupTalking, ChannelHangup, HangupState, HangupReply,
     EnterDisconnected, StopSession, SetupStates, EndStates, SessionInv, TypeOK
<1>4. ASSUME NEW by \in {"client", "server"}, HangupSetup(by)
      PROVE  (state \in EndStates) => (state' = state \/ attempt' # attempt)
  BY <1>4 DEF HangupSetup, EnterFailed, StopSession, SetupStates, EndStates,
     SessionInv, TypeOK
<1>5. ASSUME NEW a \in Attempts, GumResolved(a)
      PROVE  (state \in EndStates) => (state' = state \/ attempt' # attempt)
  BY <1>5 DEF GumResolved, IsCurrent, Launch, SetupStates, EndStates,
     SessionInv, TypeOK
<1>6. ASSUME NEW a \in Attempts, GumTimeout(a)
      PROVE  (state \in EndStates) => (state' = state \/ attempt' # attempt)
  BY <1>6 DEF GumTimeout, IsCurrent, EnterFailed, StopSession, SetupStates,
     EndStates, SessionInv, TypeOK
<1>7. ASSUME NEW a \in Attempts, LateGumResolved(a)
      PROVE  (state \in EndStates) => (state' = state \/ attempt' # attempt)
  BY <1>7 DEF LateGumResolved, SetupStates, EndStates, SessionInv, TypeOK
<1>8. ASSUME NEW kind \in {"gum", "createOffer", "setLocalDescription"},
             NEW a \in Attempts, JobRejected(kind, a)
      PROVE  (state \in EndStates) => (state' = state \/ attempt' # attempt)
  BY <1>8 DEF JobRejected, IsCurrent, OwnerOf, EnterFailed, StopSession,
     SetupStates, EndStates, SessionInv, TypeOK
<1>9. ASSUME NEW a \in Attempts, OfferCreated(a)
      PROVE  (state \in EndStates) => (state' = state \/ attempt' # attempt)
  BY <1>9 DEF OfferCreated, IsCurrent, Launch, SetupStates, EndStates,
     SessionInv, TypeOK
<1>10. ASSUME NEW a \in Attempts, LocalDescriptionSet(a)
      PROVE  (state \in EndStates) => (state' = state \/ attempt' # attempt)
  BY <1>10 DEF LocalDescriptionSet, IsCurrent, SetupStates, EndStates,
     SessionInv, TypeOK
<1>11. ASSUME NEW sufficient \in BOOLEAN, IceCandidate(sufficient)
      PROVE  (state \in EndStates) => (state' = state \/ attempt' # attempt)
  BY <1>11 DEF IceCandidate, SendInvite, SetupStates, EndStates, SessionInv,
     TypeOK
<1>12. CASE IceCollectionEnds
  BY <1>12 DEF IceCollectionEnds, SendInvite, EnterFailed, StopSession,
     SetupStates, EndStates, SessionInv, TypeOK
<1>13. ASSUME NEW c \in Attempts, NEW answer \in Answers, InviteAnswered(c,
              answer)
      PROVE  (state \in EndStates) => (state' = state \/ attempt' # attempt)
  BY <1>13 DEF InviteAnswered, NotifyAnswered, OnSignalingAnswered, Listening,
     Launch, EnterFailed, StopSession, SetupStates, EndStates, SessionInv,
     TypeOK
<1>14. ASSUME NEW c \in Attempts, InviteRejected(c)
      PROVE  (state \in EndStates) => (state' = state \/ attempt' # attempt)
  BY <1>14 DEF InviteRejected, ChannelFails, Listening, OnSignalingFailed,
     EnterFailed, StopSession, SetupStates, EndStates, SessionInv, TypeOK
<1>15. ASSUME NEW c \in Attempts, ChannelTimeout(c)
      PROVE  (state \in EndStates) => (state' = state \/ attempt' # attempt)
  BY <1>15 DEF ChannelTimeout, ChannelFails, OnSignalingFailed, EnterFailed,
     StopSession, SetupStates, EndStates, SessionInv, TypeOK
<1>16. ASSUME NEW c \in Attempts, NEW denied \in BOOLEAN, AcceptRejected(c,
              denied)
      PROVE  (state \in EndStates) => (state' = state \/ attempt' # attempt)
  BY <1>16 DEF AcceptRejected, ChannelFails, Listening, OnSignalingFailed,
     EnterFailed, StopSession, SetupStates, EndStates, SessionInv, TypeOK
<1>17. ASSUME NEW c \in Attempts, ServerBye(c)
      PROVE  (state \in EndStates) => (state' = state \/ attempt' # attempt)
  BY <1>17 DEF ServerBye, EnterDisconnected, StopSession, SetupStates,
     EndStates, SessionInv, TypeOK
<1>18. ASSUME NEW c \in Attempts, ByeAnswered(c)
      PROVE  (state \in EndStates) => (state' = state \/ attempt' # attempt)
  BY <1>18 DEF ByeAnswered, Listening, SetupStates, EndStates, SessionInv,
     TypeOK
<1>19. ASSUME NEW a \in Attempts, RemoteDescriptionSet(a)
      PROVE  (state \in EndStates) => (state' = state \/ attempt' # attempt)
  BY <1>19 DEF RemoteDescriptionSet, IsCurrent, SetupStates, EndStates,
     SessionInv, TypeOK
<1>20. ASSUME NEW a \in Attempts, RemoteDescriptionRejected(a)
      PROVE  (state \in EndStates) => (state' = state \/ attempt' # attempt)
  BY <1>20 DEF RemoteDescriptionRejected, IsCurrent, StopSession, SetupStates,
     EndStates, SessionInv, TypeOK
<1>21. CASE UNCHANGED vars
  BY <1>21 DEF EndStates
<1> QED
  BY <1>1, <1>2, <1>3, <1>4, <1>5, <1>6, <1>7, <1>8, <1>9, <1>10, <1>11, <1>12,
     <1>13, <1>14, <1>15, <1>16, <1>17, <1>18, <1>19, <1>20, <1>21
     DEF Next, JobSettles, ServerMessage

\* Every step is one of SessionLifecycle's or changes nothing there.
LEMMA LifecycleStep ==
  ASSUME SessionInv, [Next]_vars
  PROVE  [Lifecycle!Next]_<<Phase, told>>
<1>1. CASE Connect
  <2>1. Phase' = "setup"
    <3>1. state' \in {"CreateOffer", "GrabLocalMedia"}
      BY <1>1 DEF Connect
    <3> QED
      BY <3>1 DEF SetupStates, EndStates, Phase, Forsaken
  <2>2. LeaveTalking = Lifecycle!Completion
    BY DEF LeaveTalking, Lifecycle!Completion, Phase, Forsaken, States,
       SetupStates, EndStates, SessionInv, TypeOK
  <2> QED
    BY <1>1, <2>1, <2>2 DEF Connect, Lifecycle!Next, Lifecycle!Start
<1>2. CASE ProvideStream
  BY <1>2 DEF ProvideStream, SessionInv, TypeOK, AttemptsStarted,
     ChannelHistory, SignalingFollowsSession, SetupStates, EndStates, Phase,
     Forsaken, LeaveTalking, Lifecycle!Next, Lifecycle!Start,
     Lifecycle!Establish, Lifecycle!Forsake, Lifecycle!End,
     Lifecycle!Completion
<1>3. ASSUME NEW by \in {"client", "server"}, HangupTalking(by)
      PROVE  [Lifecycle!Next]_<<Phase, told>>
  BY <1>3 DEF HangupTalking, ChannelHangup, HangupState, HangupReply,
     EnterDisconnected, StopSession, SessionInv, TypeOK, AttemptsStarted,
     ChannelHistory, SignalingFollowsSession, SetupStates, EndStates, Phase,
     Forsaken, LeaveTalking, Lifecycle!Next, Lifecycle!Start,
     Lifecycle!Establish, Lifecycle!Forsake, Lifecycle!End,
     Lifecycle!Completion
<1>4. ASSUME NEW by \in {"client", "server"}, HangupSetup(by)
      PROVE  [Lifecycle!Next]_<<Phase, told>>
  BY <1>4 DEF HangupSetup, EnterFailed, StopSession, SessionInv, TypeOK,
     AttemptsStarted, ChannelHistory, SignalingFollowsSession, SetupStates,
     EndStates, Phase, Forsaken, LeaveTalking, Lifecycle!Next,
     Lifecycle!Start, Lifecycle!Establish, Lifecycle!Forsake, Lifecycle!End,
     Lifecycle!Completion
<1>5. ASSUME NEW a \in Attempts, GumResolved(a)
      PROVE  [Lifecycle!Next]_<<Phase, told>>
  BY <1>5 DEF GumResolved, IsCurrent, Launch, SessionInv, TypeOK,
     AttemptsStarted, ChannelHistory, SignalingFollowsSession, SetupStates,
     EndStates, Phase, Forsaken, LeaveTalking, Lifecycle!Next,
     Lifecycle!Start, Lifecycle!Establish, Lifecycle!Forsake, Lifecycle!End,
     Lifecycle!Completion
<1>6. ASSUME NEW a \in Attempts, GumTimeout(a)
      PROVE  [Lifecycle!Next]_<<Phase, told>>
  BY <1>6 DEF GumTimeout, IsCurrent, EnterFailed, StopSession, SessionInv,
     TypeOK, AttemptsStarted, ChannelHistory, SignalingFollowsSession,
     SetupStates, EndStates, Phase, Forsaken, LeaveTalking, Lifecycle!Next,
     Lifecycle!Start, Lifecycle!Establish, Lifecycle!Forsake, Lifecycle!End,
     Lifecycle!Completion
<1>7. ASSUME NEW a \in Attempts, LateGumResolved(a)
      PROVE  [Lifecycle!Next]_<<Phase, told>>
  BY <1>7 DEF LateGumResolved, SessionInv, TypeOK, AttemptsStarted,
     ChannelHistory, SignalingFollowsSession, SetupStates, EndStates, Phase,
     Forsaken, LeaveTalking, Lifecycle!Next, Lifecycle!Start,
     Lifecycle!Establish, Lifecycle!Forsake, Lifecycle!End,
     Lifecycle!Completion
<1>8. ASSUME NEW kind \in {"gum", "createOffer", "setLocalDescription"},
             NEW a \in Attempts, JobRejected(kind, a)
      PROVE  [Lifecycle!Next]_<<Phase, told>>
  BY <1>8 DEF JobRejected, IsCurrent, OwnerOf, EnterFailed, StopSession,
     SessionInv, TypeOK, AttemptsStarted, ChannelHistory,
     SignalingFollowsSession, SetupStates, EndStates, Phase, Forsaken,
     LeaveTalking, Lifecycle!Next, Lifecycle!Start, Lifecycle!Establish,
     Lifecycle!Forsake, Lifecycle!End, Lifecycle!Completion
<1>9. ASSUME NEW a \in Attempts, OfferCreated(a)
      PROVE  [Lifecycle!Next]_<<Phase, told>>
  BY <1>9 DEF OfferCreated, IsCurrent, Launch, SessionInv, TypeOK,
     AttemptsStarted, ChannelHistory, SignalingFollowsSession, SetupStates,
     EndStates, Phase, Forsaken, LeaveTalking, Lifecycle!Next,
     Lifecycle!Start, Lifecycle!Establish, Lifecycle!Forsake, Lifecycle!End,
     Lifecycle!Completion
<1>10. ASSUME NEW a \in Attempts, LocalDescriptionSet(a)
      PROVE  [Lifecycle!Next]_<<Phase, told>>
  BY <1>10 DEF LocalDescriptionSet, IsCurrent, SessionInv, TypeOK,
     AttemptsStarted, ChannelHistory, SignalingFollowsSession, SetupStates,
     EndStates, Phase, Forsaken, LeaveTalking, Lifecycle!Next,
     Lifecycle!Start, Lifecycle!Establish, Lifecycle!Forsake, Lifecycle!End,
     Lifecycle!Completion
<1>11. ASSUME NEW sufficient \in BOOLEAN, IceCandidate(sufficient)
      PROVE  [Lifecycle!Next]_<<Phase, told>>
  BY <1>11 DEF IceCandidate, SendInvite, SessionInv, TypeOK, AttemptsStarted,
     ChannelHistory, SignalingFollowsSession, SetupStates, EndStates, Phase,
     Forsaken, LeaveTalking, Lifecycle!Next, Lifecycle!Start,
     Lifecycle!Establish, Lifecycle!Forsake, Lifecycle!End,
     Lifecycle!Completion
<1>12. CASE IceCollectionEnds
  BY <1>12 DEF IceCollectionEnds, SendInvite, EnterFailed, StopSession,
     SessionInv, TypeOK, AttemptsStarted, ChannelHistory,
     SignalingFollowsSession, SetupStates, EndStates, Phase, Forsaken,
     LeaveTalking, Lifecycle!Next, Lifecycle!Start, Lifecycle!Establish,
     Lifecycle!Forsake, Lifecycle!End, Lifecycle!Completion
<1>13. ASSUME NEW c \in Attempts, NEW answer \in Answers, InviteAnswered(c,
              answer)
      PROVE  [Lifecycle!Next]_<<Phase, told>>
  BY <1>13 DEF InviteAnswered, NotifyAnswered, OnSignalingAnswered, Listening,
     Launch, EnterFailed, StopSession, SessionInv, TypeOK, AttemptsStarted,
     ChannelHistory, SignalingFollowsSession, SetupStates, EndStates, Phase,
     Forsaken, LeaveTalking, Lifecycle!Next, Lifecycle!Start,
     Lifecycle!Establish, Lifecycle!Forsake, Lifecycle!End,
     Lifecycle!Completion
<1>14. ASSUME NEW c \in Attempts, InviteRejected(c)
      PROVE  [Lifecycle!Next]_<<Phase, told>>
  BY <1>14 DEF InviteRejected, ChannelFails, Listening, OnSignalingFailed,
     EnterFailed, StopSession, SessionInv, TypeOK, AttemptsStarted,
     ChannelHistory, SignalingFollowsSession, SetupStates, EndStates, Phase,
     Forsaken, LeaveTalking, Lifecycle!Next, Lifecycle!Start,
     Lifecycle!Establish, Lifecycle!Forsake, Lifecycle!End,
     Lifecycle!Completion
<1>15. ASSUME NEW c \in Attempts, ChannelTimeout(c)
      PROVE  [Lifecycle!Next]_<<Phase, told>>
  BY <1>15 DEF ChannelTimeout, ChannelFails, OnSignalingFailed, EnterFailed,
     StopSession, SessionInv, TypeOK, AttemptsStarted, ChannelHistory,
     SignalingFollowsSession, SetupStates, EndStates, Phase, Forsaken,
     LeaveTalking, Lifecycle!Next, Lifecycle!Start, Lifecycle!Establish,
     Lifecycle!Forsake, Lifecycle!End, Lifecycle!Completion
<1>16. ASSUME NEW c \in Attempts, NEW denied \in BOOLEAN, AcceptRejected(c,
              denied)
      PROVE  [Lifecycle!Next]_<<Phase, told>>
  BY <1>16 DEF AcceptRejected, ChannelFails, Listening, OnSignalingFailed,
     EnterFailed, StopSession, SessionInv, TypeOK, AttemptsStarted,
     ChannelHistory, SignalingFollowsSession, SetupStates, EndStates, Phase,
     Forsaken, LeaveTalking, Lifecycle!Next, Lifecycle!Start,
     Lifecycle!Establish, Lifecycle!Forsake, Lifecycle!End,
     Lifecycle!Completion
<1>17. ASSUME NEW c \in Attempts, ServerBye(c)
      PROVE  [Lifecycle!Next]_<<Phase, told>>
  <2>1. CASE state = "Talking" /\ EnterDisconnected(hungUp)
    BY <2>1 DEF EnterDisconnected, SetupStates, EndStates, Phase, Forsaken,
       LeaveTalking, Lifecycle!Next, Lifecycle!End, Lifecycle!Completion
  <2>2. CASE SessionUnchanged
    <3>1. UNCHANGED <<state, channel, sdpless, told>>
      BY <1>17, <2>2 DEF ServerBye, SessionUnchanged, sessionVars, reportVars
    <3> QED
      BY <3>1 DEF Phase, Forsaken
  <2> QED
    BY <1>17, <2>1, <2>2 DEF ServerBye
<1>18. ASSUME NEW c \in Attempts, ByeAnswered(c)
      PROVE  [Lifecycle!Next]_<<Phase, told>>
  BY <1>18 DEF ByeAnswered, Listening, SessionInv, TypeOK, AttemptsStarted,
     ChannelHistory, SignalingFollowsSession, SetupStates, EndStates, Phase,
     Forsaken, LeaveTalking, Lifecycle!Next, Lifecycle!Start,
     Lifecycle!Establish, Lifecycle!Forsake, Lifecycle!End,
     Lifecycle!Completion
<1>19. ASSUME NEW a \in Attempts, RemoteDescriptionSet(a)
      PROVE  [Lifecycle!Next]_<<Phase, told>>
  BY <1>19 DEF RemoteDescriptionSet, IsCurrent, SessionInv, TypeOK,
     AttemptsStarted, ChannelHistory, SignalingFollowsSession, SetupStates,
     EndStates, Phase, Forsaken, LeaveTalking, Lifecycle!Next,
     Lifecycle!Start, Lifecycle!Establish, Lifecycle!Forsake, Lifecycle!End,
     Lifecycle!Completion
<1>20. ASSUME NEW a \in Attempts, RemoteDescriptionRejected(a)
      PROVE  [Lifecycle!Next]_<<Phase, told>>
  <2>1. CASE ~IsCurrent("Accept", a)
    BY <1>20, <2>1 DEF RemoteDescriptionRejected, Phase, Forsaken
  <2>2. CASE IsCurrent("Accept", a)
    <3>1. told \o << >> = told
      BY ConcatEmptySeq DEF SessionInv, TypeOK
    <3>2. /\ Phase = "setup" /\ Phase' = "ended"
          /\ told' = told \o <<"failed", "destroyed">>
      BY <1>20, <2>2 DEF RemoteDescriptionRejected, IsCurrent, Phase, Forsaken,
         SetupStates, EndStates
    <3>3. Lifecycle!Completion = << >>
      BY <3>2 DEF Lifecycle!Completion
    <3>4. told' = told \o Lifecycle!Completion \o <<"failed", "destroyed">>
      BY <3>1, <3>2, <3>3, Zenon
    <3> QED
      BY <3>2, <3>4 DEF Lifecycle!Next, Lifecycle!End
  <2> QED
    BY <2>1, <2>2
<1>21. CASE UNCHANGED vars
  BY <1>21 DEF Phase, Forsaken
<1> QED
  BY <1>1, <1>2, <1>3, <1>4, <1>5, <1>6, <1>7, <1>8, <1>9, <1>10, <1>11, <1>12,
     <1>13, <1>14, <1>15, <1>16, <1>17, <1>18, <1>19, <1>20, <1>21
     DEF Next, JobSettles, ServerMessage

\* What ended was said goodbye to on the server's side too (hangup and
\* onRemoteHungup of Talking, lines 495-506, and the channels' answers to them).
THEOREM GoodbyeSaid == Spec => []DisconnectedSaidGoodbye
<1>1. Init => DisconnectedSaidGoodbye
  BY DEF Init, DisconnectedSaidGoodbye
<1>2. SessionInv /\ DisconnectedSaidGoodbye /\ [Next]_vars =>
      DisconnectedSaidGoodbye'
  BY GoodbyeStep
<1> QED
  BY <1>1, <1>2, SessionInvHolds, PTL DEF Spec

\* An ended session holds no peer connection, and a first attempt closes the
\* one it was given (_stopSession).
THEOREM PeerConnectionReleased == Spec => []EndedReleasesPeerConnection
<1>1. Init => PcInv
  BY DEF Init, PcInv, EndStates
<1>2. SessionInv /\ PcInv /\ [Next]_vars => PcInv'
  BY PcStep
<1>3. SessionInv /\ PcInv => EndedReleasesPeerConnection
  BY DEF SessionInv, TypeOK, PcInv, EndedReleasesPeerConnection
<1> QED
  BY <1>1, <1>2, <1>3, SessionInvHolds, PTL DEF Spec

\* Only connect() leaves an end state.
THEOREM EndsAreFinal == Spec => EndedIsFinal
<1>1. SessionInv /\ [Next]_vars =>
        [(state \in EndStates) => (state' = state \/ attempt' # attempt)]_vars
  BY FinalStep
<1> QED
  BY <1>1, SessionInvHolds, PTL DEF Spec, EndedIsFinal

\* The callbacks of every run come in the order SessionLifecycle allows.
THEOREM CallbacksInOrder == Spec => LifecycleOrder
<1>1. Init => Lifecycle!Init
  BY DEF Init, Lifecycle!Init, Phase, Forsaken, SetupStates, EndStates
<1>2. SessionInv /\ [Next]_vars => [Lifecycle!Next]_<<Phase, told>>
  BY LifecycleStep
<1> QED
  BY <1>1, <1>2, SessionInvHolds, PTL DEF Spec, LifecycleOrder
===============================================================================
