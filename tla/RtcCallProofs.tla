----------------------------- MODULE RtcCallProofs -----------------------------
(***************************************************************************)
(* Safety of a V1 call with its channel, its websockets and the factory    *)
(* beside it, for every number of sockets and connections.                 *)
(***************************************************************************)
EXTENDS RtcCall, RtcSignalingProofs

USE DEF serverVars

-----------------------------------------------------------------------------
(* The invariant of the session.                                           *)

BeforeSignaling ==
  {"none"} \union
    (SetupStates \ {"ConnectSignalingAndIceCollection", "InviteAnswer", "Accept"})

\* Media that is granted late finds a session that ended before it signaled.
MediaInv ==
  /\ "gum" \in jobs => state \in {"GrabLocalMedia"} \union EndStates
  /\ "lateGum" \in jobs => state \in EndStates
  /\ jobs \intersect {"gum", "lateGum"} # {} => sig.state = "none" /\ ~userProvided
  /\ userProvided => "user" \in liveStreams /\ "device" \notin liveStreams
  /\ state \notin EndStates /\ "device" \in liveStreams => localStream = "device"
  /\ state \in EndStates => pc = None
  /\ state \in EndStates /\ sig.state # "none" => "device" \notin liveStreams

\* The session and its channel are in step; an answer without an sdp finds the
\* session awaiting it, or at its end.
StepInv ==
  /\ state \in BeforeSignaling => sig.state = "none" /\ flags = {}
  /\ state = "ConnectSignalingAndIceCollection" =>
       sig.state = IF "signalingConnected" \in flags THEN "PendingInvite"
                                                     ELSE "PendingConnect"
  /\ state = "InviteAnswer" /\ ~sdpless => sig.state \in {"PendingInvite", "PendingAnswer"}
  /\ state = "InviteAnswer" /\ sdpless =>
       sig.state \in {"Talking", "PendingReconnect", "PendingLocalHangup", "Disconnected"}
  /\ sdpless => state \in {"InviteAnswer"} \union EndStates
  /\ Stranded => sig.retries > 0 /\ ~sig.virtual
  /\ state \in {"Accept", "Talking"} =>
       /\ sig.state \in {"Talking", "PendingReconnect", "PendingLocalHangup",
                         "Disconnected", "Failed"}
       /\ {"invite", "accept"} \subseteq sig.sent

\* Who knows of the end.
GoodbyeInv ==
  /\ sig.state = "PendingLocalHangup" => byed
  /\ sig.state = "PendingRemoteHangup" => state = "Disconnected"
  /\ sig.state = "Disconnected" => byed \/ state = "Disconnected"
  /\ DisconnectedSaidGoodbye

CallInv ==
  /\ TypeOK
  /\ Wires(sig)
  /\ FirstIsOpen(sig)
  /\ MediaInv
  /\ StepInv
  /\ GoodbyeInv

\* The factory clears every timer it starts, and asks only when it has nothing.
FactoryInv ==
  /\ Factory!TypeOK
  /\ timers = IF timerKnown THEN 1 ELSE 0
  /\ requested => inFlight /\ ~timerKnown /\ idlePc = Factory!NoPc
  /\ idlePc # Factory!NoPc => timerKnown /\ pcs[idlePc] = "idle"
  /\ pc \in Pcs => pcs[pc] = "handed"

-----------------------------------------------------------------------------
(* What the handlers of the session are made of.                           *)

\* The end of a session forgets its connection and closes its microphone.
LEMMA StopStep ==
  ASSUME TypeOK, StopSession
  PROVE  /\ pc' = None /\ closedPcs' \subseteq Pcs \union {Own}
         /\ localStream' \in {"none", "user", "device"}
         /\ liveStreams' \subseteq liveStreams
         /\ userProvided' = userProvided
         /\ userProvided => liveStreams' = liveStreams
         /\ localStream = "device" /\ ~userProvided => "device" \notin liveStreams'
  BY DEF TypeOK, StopSession

\* A setup fails, with its channel where it is or on its way.
LEMMA FailStep ==
  ASSUME CallInv, Fail, state \in SetupStates,
         jobs' \subseteq jobs \union {"lateGum"}, "lateGum" \in jobs' \ jobs => "gum" \in jobs,
         flags' \subseteq Flags, UNCHANGED serverVars,
         hungUp' \in {"nobody", "client", "server"},
         Wires(sig'), FirstIsOpen(sig'),
         sig' = sig \/ ( /\ sig.state # "none"
                         /\ sig'.state \in {"PendingConnect", "PendingInvite",
                                            "PendingAnswer", "Talking", "Failed"} )
  PROVE  CallInv'
<1>1. TypeOK /\ MediaInv /\ GoodbyeInv /\ StepInv
  BY DEF CallInv
<1>2. /\ pc' = None /\ closedPcs' \subseteq Pcs \union {Own}
      /\ localStream' \in {"none", "user", "device"}
      /\ liveStreams' \subseteq liveStreams
      /\ userProvided' = userProvided
      /\ userProvided => liveStreams' = liveStreams
      /\ localStream = "device" /\ ~userProvided => "device" \notin liveStreams'
  BY <1>1, StopStep DEF Fail
<1>3. state' = "Failed" /\ told' \in Seq(Callbacks)
  BY <1>1 DEF Fail, TypeOK, Callbacks
<1>4. jobs' \subseteq Jobs
  BY <1>1 DEF TypeOK, Jobs
<1>5. sig' \in Channel
  BY DEF Wires
<1>6. TypeOK'
  BY <1>1, <1>2, <1>3, <1>4, <1>5 DEF TypeOK, States, EndStates
<1>7. state \notin EndStates /\ state # "Disconnected"
  BY DEF SetupStates, EndStates
<1>8. "device" \notin liveStreams'
  BY <1>1, <1>2, <1>7 DEF MediaInv
<1>9. MediaInv'
  BY <1>1, <1>2, <1>3, <1>7, <1>8 DEF MediaInv, EndStates
<1>10. StepInv'
  BY <1>3 DEF StepInv, Stranded, BeforeSignaling, SetupStates, EndStates
<1>11. GoodbyeInv'
  BY <1>1, <1>3, <1>7 DEF GoodbyeInv, DisconnectedSaidGoodbye
<1>. QED  BY <1>6, <1>9, <1>10, <1>11 DEF CallInv

\* Nothing changes but the channel and what the session notes of it.
LEMMA ChannelStep ==
  ASSUME CallInv, UNCHANGED <<mediaVars, jobs, hungUp, told>>,
         sig.state # "none", sig'.state # "none",
         state' \in States, state' \in EndStates <=> state \in EndStates,
         state # "GrabLocalMedia", state' # "GrabLocalMedia",
         flags' \subseteq Flags, byed' \in BOOLEAN, sdpless' \in BOOLEAN,
         Wires(sig'), FirstIsOpen(sig'), StepInv', GoodbyeInv'
  PROVE  CallInv'
<1>1. sig' \in Channel
  BY DEF Wires
<1>2. TypeOK'
  BY <1>1 DEF CallInv, TypeOK, mediaVars
<1>3. MediaInv'
  BY DEF CallInv, MediaInv, mediaVars
<1>. QED  BY <1>2, <1>3 DEF CallInv

-----------------------------------------------------------------------------
(* Events of sockets and timers.                                           *)

\* Where an event of a socket or of a timer may leave a channel.
MovesTo(a) ==
  {OpenFrom(a)} \union DownFrom(a) \union (IF a \in TimedStates THEN {"Failed"} ELSE {})

LEMMA Moves ==
  ASSUME NEW a \in SignalingStates \ {"none"}, NEW b \in MovesTo(a)
  PROVE  /\ b \in SignalingStates \ {"none"}
         /\ a = "PendingConnect" => b \in {"PendingConnect", "PendingInvite", "Failed"}
         /\ a = "PendingInvite" => b \in {"PendingInvite", "Failed"}
         /\ a = "PendingAnswer" => b \in {"PendingAnswer", "Failed"}
         /\ a = "Talking" => b \in {"Talking", "PendingReconnect", "Failed"}
         /\ a = "PendingReconnect" => b \in {"PendingReconnect", "Talking", "Failed"}
         /\ a = "PendingLocalHangup" => b \in {"PendingLocalHangup", "Disconnected"}
         /\ a = "PendingRemoteHangup" => b \in {"PendingRemoteHangup", "Failed"}
         /\ a = "Disconnected" => b = "Disconnected"
         /\ a = "Failed" => b = "Failed"
  BY DEF MovesTo, OpenFrom, DownFrom, TimedStates, SignalingStates

\* The states a channel can be in while the session is in a state.
LEMMA SignalingOfState ==
  ASSUME CallInv, sig.state # "none"
  PROVE  state \notin BeforeSignaling /\ state # "none" /\ state # "GrabLocalMedia"
  BY DEF CallInv, StepInv, BeforeSignaling, SetupStates

LEMMA FollowStep ==
  ASSUME CallInv, sig.state # "none", NEW channel,
         Wires(channel), FirstIsOpen(channel),
         channel.state \in MovesTo(sig.state),
         channel.sent = sig.sent, channel.virtual = sig.virtual, channel.wss >= sig.wss,
         channel.state = "PendingInvite" => channel.retries = sig.retries,
         Follow(channel), UNCHANGED <<jobs, serverVars, hungUp>>
  PROVE  CallInv'
<1>1. /\ TypeOK /\ StepInv /\ GoodbyeInv /\ MediaInv /\ Wires(sig)
      /\ sig.state \in SignalingStates \ {"none"}
      /\ sig.wss \in Nat /\ channel.wss \in Nat
  BY ChannelFields DEF CallInv, Wires
<1>2. state \notin BeforeSignaling /\ state # "none" /\ state # "GrabLocalMedia"
  BY SignalingOfState
<1>3. channel.state \in SignalingStates \ {"none"}
  BY <1>1, Moves
<1>4. CASE /\ sig.state # "PendingInvite" /\ channel.state = "PendingInvite"
           /\ state = "ConnectSignalingAndIceCollection"
  <2>1. /\ flags' = flags \union {"signalingConnected"}
        /\ CheckAndTransit(flags', channel)
        /\ UNCHANGED <<told, mediaVars>>
    BY <1>4 DEF Follow
  <2>2. flags' \subseteq Flags
    BY <1>1, <2>1 DEF TypeOK, Flags
  <2>3. CASE {"iceCompleted", "signalingConnected"} \subseteq flags'
    <3>1. state' = "InviteAnswer" /\ sig' = InviteChannel(channel)
      BY <2>1, <2>3 DEF CheckAndTransit
    <3>2. /\ Wires(sig') /\ FirstIsOpen(sig')
          /\ sig'.state \in {"PendingInvite", "PendingAnswer"}
          /\ sig'.state = "PendingInvite" => sig'.retries > 0 /\ ~sig'.virtual
      BY <1>4, <3>1, InviteChannelStep
    <3>3. ~sdpless /\ ~sdpless'
      BY <1>1, <1>4 DEF StepInv, EndStates
    <3>4. StepInv'
      BY <3>1, <3>2, <3>3 DEF StepInv, BeforeSignaling, SetupStates, Stranded
    <3>5. GoodbyeInv'
      BY <3>1, <3>2 DEF GoodbyeInv, DisconnectedSaidGoodbye
    <3>. QED
      BY <1>1, <1>2, <1>4, <2>1, <2>2, <3>1, <3>2, <3>4, <3>5, ChannelStep
         DEF States, SetupStates, EndStates, TypeOK
  <2>4. CASE ~ {"iceCompleted", "signalingConnected"} \subseteq flags'
    <3>1. state' = state /\ sig' = channel
      BY <2>1, <2>4 DEF CheckAndTransit
    <3>2. StepInv' /\ GoodbyeInv'
      BY <1>1, <1>4, <2>1, <3>1 DEF StepInv, GoodbyeInv, DisconnectedSaidGoodbye,
         BeforeSignaling, SetupStates, EndStates, Stranded
    <3>. QED
      BY <1>1, <1>2, <1>3, <2>1, <2>2, <3>1, <3>2, ChannelStep DEF TypeOK
  <2>. QED  BY <2>3, <2>4
<1>5. CASE sig.state # "Talking" /\ channel.state = "Talking" /\ state = "Accept"
  <2>1. /\ flags' = flags \union {"handshaked"} /\ sig' = channel
        /\ UNCHANGED <<state, told, mediaVars>>
    BY <1>5 DEF Follow
  <2>2. flags' \subseteq Flags
    BY <1>1, <2>1 DEF TypeOK, Flags
  <2>3. StepInv' /\ GoodbyeInv'
    BY <1>1, <1>5, <2>1 DEF StepInv, GoodbyeInv, DisconnectedSaidGoodbye,
                            BeforeSignaling, SetupStates, Stranded
  <2>. QED
    BY <1>1, <1>2, <1>3, <2>1, <2>2, <2>3, ChannelStep DEF TypeOK
<1>6. CASE sig.state # "Failed" /\ channel.state = "Failed"
  <2>1. sig' = channel /\ flags' = flags /\ OnSignalingFailed
    BY <1>6 DEF Follow
  <2>2. CASE state \in {"ConnectSignalingAndIceCollection", "InviteAnswer"}
    <3>1. Fail /\ state \in SetupStates
      BY <2>1, <2>2 DEF OnSignalingFailed, SetupStates
    <3>. QED
      BY <1>1, <1>6, <2>1, <3>1, FailStep DEF TypeOK
  <2>3. CASE state \notin {"ConnectSignalingAndIceCollection", "InviteAnswer"}
    <3>1. UNCHANGED <<state, told, mediaVars>>
      BY <2>1, <2>3 DEF OnSignalingFailed
    <3>2. StepInv'
      BY <1>1, <1>2, <1>6, <2>1, <2>3, <3>1 DEF StepInv, Stranded
    <3>3. GoodbyeInv'
      BY <1>1, <1>6, <2>1, <3>1 DEF GoodbyeInv, DisconnectedSaidGoodbye
    <3>. QED
      BY <1>1, <1>2, <1>3, <2>1, <3>1, <3>2, <3>3, ChannelStep DEF TypeOK
  <2>. QED  BY <2>2, <2>3
<1>7. CASE /\ ~ ( /\ sig.state # "PendingInvite" /\ channel.state = "PendingInvite"
                  /\ state = "ConnectSignalingAndIceCollection" )
           /\ ~ (sig.state # "Talking" /\ channel.state = "Talking" /\ state = "Accept")
           /\ ~ (sig.state # "Failed" /\ channel.state = "Failed")
  <2>1. sig' = channel /\ UNCHANGED <<state, flags, told, mediaVars>>
    BY <1>7 DEF Follow
  <2>2. StepInv'
    BY <1>1, <1>2, <1>7, <2>1, Moves DEF StepInv, Stranded
  <2>3. /\ channel.state = "PendingLocalHangup" => sig.state = "PendingLocalHangup"
        /\ channel.state = "PendingRemoteHangup" => sig.state = "PendingRemoteHangup"
        /\ channel.state = "Disconnected" =>
             sig.state \in {"PendingLocalHangup", "Disconnected"}
    BY <1>1, Moves DEF SignalingStates
  <2>4. GoodbyeInv'
    BY <1>1, <2>1, <2>3 DEF GoodbyeInv, DisconnectedSaidGoodbye
  <2>. QED
    BY <1>1, <1>2, <1>3, <2>1, <2>2, <2>4, ChannelStep DEF TypeOK
<1>. QED  BY <1>4, <1>5, <1>6, <1>7

LEMMA SocketsStep ==
  ASSUME CallInv, SocketEvents \/ SignalingTimeout
  PROVE  CallInv'
<1>1. /\ Wires(sig) /\ FirstIsOpen(sig) /\ sig \in Channel
      /\ sig.wss \in Nat /\ sig.state \in SignalingStates
  BY ChannelFields DEF CallInv, Wires
<1>2. ASSUME NEW w \in Sockets, SocketOpens(w) PROVE CallInv'
  <2>. DEFINE r == OnOpen([sig EXCEPT !.sock[w] = "open"])
  <2>1. sig.state # "none"
    BY <1>1, <1>2 DEF SocketOpens, Wires, Sockets
  <2>2. /\ Wires(r) /\ FirstIsOpen(r) /\ r.state = OpenFrom(sig.state)
        /\ r.sent = sig.sent /\ r.virtual = sig.virtual /\ r.wss = sig.wss
        /\ r.retries = sig.retries
    BY <1>1, <1>2, <2>1, OnOpenStep DEF SocketOpens
  <2>3. Follow(r) /\ UNCHANGED <<jobs, serverVars, hungUp>>
    BY <1>2 DEF SocketOpens
  <2>. HIDE DEF r
  <2>4. r.state \in MovesTo(sig.state) /\ r.wss >= sig.wss
    BY <1>1, <2>2 DEF MovesTo
  <2>. QED  BY <2>1, <2>2, <2>3, <2>4, FollowStep
<1>3. ASSUME NEW w \in Sockets, SocketGoes(w) PROVE CallInv'
  <2>1. PICK abnormal, inTime \in BOOLEAN : Follow(SocketGone(sig, w, abnormal, inTime))
    BY <1>3 DEF SocketGoes
  <2>. DEFINE r == SocketGone(sig, w, abnormal, inTime)
  <2>2. /\ sig.state # "none" /\ w <= sig.wss /\ ~sig.virtual
        /\ sig.state = "Talking" => sig.wss < MaxSockets
    BY <1>1, <1>3 DEF SocketGoes, Wires, Sockets
  <2>3. /\ Wires(r) /\ FirstIsOpen(r) /\ r.state \in DownFrom(sig.state)
        /\ r.sent = sig.sent /\ ~r.virtual /\ r.wss >= sig.wss
    BY <1>1, <2>2, SocketGoneStep
  <2>4. Follow(r) /\ UNCHANGED <<jobs, serverVars, hungUp>>
    BY <1>3, <2>1 DEF SocketGoes
  <2>. HIDE DEF r
  <2>5. r.state \in MovesTo(sig.state) /\ r.virtual = sig.virtual /\ r.state # "PendingInvite"
    <3>1. r.state \in MovesTo(sig.state)
      BY <2>3 DEF MovesTo
    <3>2. r.virtual = sig.virtual
      <4>1. r.virtual \in BOOLEAN /\ sig.virtual \in BOOLEAN
        BY <1>1, <2>3, ChannelFields DEF Wires
      <4>. QED  BY <2>2, <2>3, <4>1
    <3>3. r.state # "PendingInvite"
      BY <1>1, <2>2, <2>3 DEF DownFrom, SignalingStates
    <3>. QED  BY <3>1, <3>2, <3>3
  <2>. QED  BY <2>2, <2>3, <2>4, <2>5, FollowStep
<1>4. CASE SignalingTimeout
  <2>. DEFINE r == EnterFinal(sig, "Failed")
  <2>1. sig.state # "none" /\ sig.state \in TimedStates
    BY <1>4 DEF SignalingTimeout, TimedStates
  <2>2. /\ Wires(r) /\ FirstIsOpen(r) /\ r.state = "Failed" /\ r.sent = sig.sent
        /\ r.virtual = sig.virtual /\ r.wss = sig.wss
    BY <1>1, <2>1, EnterFinalWires DEF Final
  <2>3. Follow(r) /\ UNCHANGED <<jobs, serverVars, hungUp>>
    BY <1>4 DEF SignalingTimeout
  <2>. HIDE DEF r
  <2>4. r.state \in MovesTo(sig.state) /\ r.wss >= sig.wss
    BY <1>1, <2>1, <2>2 DEF MovesTo
  <2>. QED  BY <2>1, <2>2, <2>3, <2>4, FollowStep
<1>. QED  BY <1>2, <1>3, <1>4 DEF SocketEvents

-----------------------------------------------------------------------------
(* The application, the media and the candidates.                          *)

LEMMA MediaStep ==
  ASSUME CallInv, Media
  PROVE  CallInv'
<1>. USE DEF SetupStates, EndStates
<1>1. /\ TypeOK /\ MediaInv /\ StepInv /\ GoodbyeInv /\ Wires(sig) /\ FirstIsOpen(sig)
  BY DEF CallInv
<1>2. CASE GumGranted
  <2>1. sig' = sig /\ sig.state = "none" /\ ~userProvided
    BY <1>1, <1>2 DEF GumGranted, MediaInv
  <2>2. TypeOK'
    BY <1>1, <1>2 DEF GumGranted, TypeOK, reportVars, States, Jobs
  <2>3. MediaInv' /\ StepInv' /\ GoodbyeInv'
    BY <1>1, <1>2, <2>1 DEF GumGranted, reportVars, MediaInv, StepInv, GoodbyeInv,
       DisconnectedSaidGoodbye, BeforeSignaling, Stranded
  <2>. QED  BY <1>1, <2>1, <2>2, <2>3 DEF CallInv
<1>3. CASE GumRaceLost
  <2>1. sig' = sig /\ flags' = flags /\ UNCHANGED serverVars /\ hungUp' = hungUp
        /\ jobs' \subseteq jobs \union {"lateGum"} /\ "gum" \in jobs
    BY <1>3 DEF GumRaceLost
  <2>2. CASE state = "GrabLocalMedia"
    <3>1. Fail
      BY <1>3, <2>2 DEF GumRaceLost
    <3>. QED  BY <1>1, <2>1, <2>2, <3>1, FailStep DEF TypeOK
  <2>3. CASE state # "GrabLocalMedia"
    <3>1. UNCHANGED <<state, told, mediaVars>>
      BY <1>3, <2>3 DEF GumRaceLost
    <3>2. state \in EndStates /\ sig.state = "none" /\ ~userProvided
      BY <1>1, <2>1, <2>3 DEF MediaInv
    <3>3. TypeOK'
      BY <1>1, <2>1, <3>1 DEF TypeOK, mediaVars, Jobs
    <3>4. MediaInv' /\ StepInv' /\ GoodbyeInv'
      BY <1>1, <2>1, <3>1, <3>2 DEF mediaVars, MediaInv, StepInv, GoodbyeInv,
         DisconnectedSaidGoodbye, BeforeSignaling, Stranded
    <3>. QED  BY <1>1, <2>1, <3>3, <3>4 DEF CallInv
  <2>. QED  BY <2>2, <2>3
<1>4. CASE LateGum
  <2>1. sig' = sig /\ sig.state = "none" /\ ~userProvided /\ state \in EndStates
    BY <1>1, <1>4 DEF LateGum, MediaInv
  <2>2. TypeOK'
    BY <1>1, <1>4 DEF LateGum, TypeOK, reportVars
  <2>3. MediaInv' /\ StepInv' /\ GoodbyeInv'
    BY <1>1, <1>4, <2>1 DEF LateGum, reportVars, MediaInv, StepInv, GoodbyeInv,
       DisconnectedSaidGoodbye, BeforeSignaling, Stranded
  <2>. QED  BY <1>1, <2>1, <2>2, <2>3 DEF CallInv
<1>5. CASE OfferCreated
  <2>1. sig' = sig
    BY <1>5 DEF OfferCreated
  <2>2. TypeOK'
    BY <1>1, <1>5 DEF OfferCreated, TypeOK, mediaVars, reportVars, States, Jobs
  <2>3. MediaInv' /\ StepInv' /\ GoodbyeInv'
    BY <1>1, <1>5, <2>1 DEF OfferCreated, mediaVars, reportVars, MediaInv, StepInv,
       GoodbyeInv, DisconnectedSaidGoodbye, BeforeSignaling, Stranded
  <2>. QED  BY <1>1, <2>1, <2>2, <2>3 DEF CallInv
<1>6. CASE LocalDescriptionSet
  <2>1. CASE state = "SetLocalSessionDescription"
    <3>1. /\ sig' = ConnectChannel(sig) /\ state' = "ConnectSignalingAndIceCollection"
          /\ jobs' = jobs \ {"setLocalDescription"}
          /\ UNCHANGED <<mediaVars, flags, serverVars, reportVars>>
      BY <1>6, <2>1 DEF LocalDescriptionSet
    <3>2. sig.state = "none" /\ flags = {}
      BY <1>1, <2>1 DEF StepInv, BeforeSignaling
    <3>3. /\ Wires(sig') /\ FirstIsOpen(sig') /\ sig'.state = "PendingConnect"
      BY <1>1, <3>1, <3>2, ConnectChannelStep
    <3>4. TypeOK'
      BY <1>1, <3>1, <3>3 DEF TypeOK, mediaVars, reportVars, States, Wires
    <3>5. MediaInv' /\ StepInv' /\ GoodbyeInv'
      BY <1>1, <2>1, <3>1, <3>2, <3>3 DEF mediaVars, reportVars, MediaInv, StepInv,
         GoodbyeInv, DisconnectedSaidGoodbye, BeforeSignaling, Stranded
    <3>. QED  BY <3>3, <3>4, <3>5 DEF CallInv
  <2>2. CASE state # "SetLocalSessionDescription"
    <3>1. /\ jobs' = jobs \ {"setLocalDescription"}
          /\ UNCHANGED <<state, sig, mediaVars, flags, serverVars, reportVars>>
      BY <1>6, <2>2 DEF LocalDescriptionSet
    <3>2. TypeOK'
      BY <1>1, <3>1 DEF TypeOK, mediaVars, reportVars
    <3>3. MediaInv' /\ StepInv' /\ GoodbyeInv'
      BY <1>1, <3>1 DEF mediaVars, reportVars, MediaInv, StepInv, GoodbyeInv,
         DisconnectedSaidGoodbye, BeforeSignaling, Stranded
    <3>. QED  BY <1>1, <3>1, <3>2, <3>3 DEF CallInv
  <2>. QED  BY <2>1, <2>2
<1>7. CASE OfferRejected
  <2>1. /\ jobs' \subseteq jobs /\ UNCHANGED <<flags, sig, serverVars, hungUp>>
        /\ \/ state \in SetupStates /\ Fail
           \/ UNCHANGED <<state, told, mediaVars>>
    BY <1>7 DEF OfferRejected
  <2>2. CASE state \in SetupStates /\ Fail
    BY <1>1, <2>1, <2>2, FailStep DEF TypeOK
  <2>3. CASE UNCHANGED <<state, told, mediaVars>>
    <3>1. TypeOK'
      BY <1>1, <2>1, <2>3 DEF TypeOK, mediaVars
    <3>2. MediaInv' /\ StepInv' /\ GoodbyeInv'
      BY <1>1, <2>1, <2>3 DEF mediaVars, MediaInv, StepInv, GoodbyeInv,
         DisconnectedSaidGoodbye, BeforeSignaling, Stranded
    <3>. QED  BY <1>1, <2>1, <3>1, <3>2 DEF CallInv
  <2>. QED  BY <2>1, <2>2, <2>3
<1>. QED  BY <1>2, <1>3, <1>4, <1>5, <1>6, <1>7 DEF Media

LEMMA IceStep ==
  ASSUME CallInv, Ice
  PROVE  CallInv'
<1>1. /\ TypeOK /\ MediaInv /\ StepInv /\ GoodbyeInv /\ Wires(sig) /\ FirstIsOpen(sig)
      /\ state = "ConnectSignalingAndIceCollection" /\ sig.state # "none"
      /\ jobs' = jobs /\ UNCHANGED serverVars /\ hungUp' = hungUp
  BY DEF CallInv, Ice, IceCandidate, IceCollectionEnds, StepInv
<1>2. state \in SetupStates /\ state \notin EndStates /\ state # "GrabLocalMedia"
  BY <1>1 DEF SetupStates, EndStates
<1>3. ASSUME NEW found \in SUBSET Flags, IceCompleted(found),
             "signalingConnected" \in found <=> "signalingConnected" \in flags
      PROVE  CallInv'
  <2>1. CASE "hasCandidate" \notin found
    <3>1. Fail /\ flags' = flags /\ sig' = sig
      BY <1>3, <2>1 DEF IceCompleted
    <3>. QED  BY <1>1, <1>2, <3>1, FailStep DEF TypeOK
  <2>2. CASE "hasCandidate" \in found
    <3>1. /\ flags' = found \union {"iceCompleted"} /\ CheckAndTransit(flags', sig)
          /\ UNCHANGED <<told, mediaVars>>
      BY <1>3, <2>2 DEF IceCompleted
    <3>2. /\ flags' \subseteq Flags
          /\ "signalingConnected" \in flags' <=> "signalingConnected" \in flags
      BY <1>3, <3>1 DEF Flags
    <3>3. CASE {"iceCompleted", "signalingConnected"} \subseteq flags'
      <4>1. state' = "InviteAnswer" /\ sig' = InviteChannel(sig)
        BY <3>1, <3>3 DEF CheckAndTransit
      <4>2. sig.state = "PendingInvite"
        BY <1>1, <3>2, <3>3 DEF StepInv
      <4>3. /\ Wires(sig') /\ FirstIsOpen(sig')
            /\ sig'.state \in {"PendingInvite", "PendingAnswer"}
            /\ sig'.state = "PendingInvite" => sig'.retries > 0 /\ ~sig'.virtual
        BY <1>1, <4>1, <4>2, InviteChannelStep
      <4>4. StepInv' /\ GoodbyeInv'
        BY <1>1, <4>1, <4>3 DEF StepInv, GoodbyeInv, DisconnectedSaidGoodbye,
           BeforeSignaling, SetupStates, EndStates, Stranded
      <4>. QED
        BY <1>1, <1>2, <3>1, <3>2, <4>1, <4>3, <4>4, ChannelStep
           DEF States, SetupStates, EndStates, TypeOK
    <3>4. CASE ~ {"iceCompleted", "signalingConnected"} \subseteq flags'
      <4>1. state' = state /\ sig' = sig
        BY <3>1, <3>4 DEF CheckAndTransit
      <4>2. StepInv' /\ GoodbyeInv'
        BY <1>1, <3>2, <4>1 DEF StepInv, GoodbyeInv, DisconnectedSaidGoodbye,
           BeforeSignaling, SetupStates, Stranded
      <4>. QED
        BY <1>1, <1>2, <3>1, <3>2, <4>1, <4>2, ChannelStep DEF TypeOK
    <3>. QED  BY <3>3, <3>4
  <2>. QED  BY <2>1, <2>2
<1>4. CASE IceCandidate
  <2>1. CASE /\ flags' = flags \union {"hasCandidate"}
             /\ UNCHANGED <<state, told, mediaVars, sig>>
    <3>1. StepInv' /\ GoodbyeInv' /\ flags' \subseteq Flags
      BY <1>1, <2>1 DEF StepInv, GoodbyeInv, DisconnectedSaidGoodbye, BeforeSignaling,
         SetupStates, Stranded, TypeOK, Flags
    <3>. QED  BY <1>1, <1>2, <2>1, <3>1, ChannelStep DEF TypeOK
  <2>2. CASE IceCompleted(flags \union {"hasCandidate"})
    <3>1. flags \union {"hasCandidate"} \in SUBSET Flags
      BY <1>1 DEF TypeOK, Flags
    <3>. QED  BY <1>3, <2>2, <3>1
  <2>. QED  BY <1>4, <2>1, <2>2 DEF IceCandidate
<1>5. CASE IceCollectionEnds
  BY <1>1, <1>3, <1>5 DEF IceCollectionEnds, TypeOK
<1>. QED  BY <1>4, <1>5 DEF Ice

LEMMA ConnectStep ==
  ASSUME CallInv, NEW p \in Pcs \union {None}, Connect(p)
  PROVE  CallInv'
<1>1. /\ TypeOK /\ MediaInv /\ StepInv /\ GoodbyeInv /\ Wires(sig) /\ FirstIsOpen(sig)
      /\ state = "none" /\ sig' = sig
  BY DEF CallInv, Connect
<1>2. sig.state = "none" /\ flags = {}
  BY <1>1 DEF StepInv, BeforeSignaling
<1>3. TypeOK'
  BY <1>1 DEF Connect, TypeOK, reportVars, States, SetupStates, Jobs
<1>4. MediaInv' /\ StepInv' /\ GoodbyeInv'
  BY <1>1, <1>2 DEF Connect, reportVars, MediaInv, StepInv, GoodbyeInv,
     DisconnectedSaidGoodbye, BeforeSignaling, SetupStates, EndStates, Stranded
<1>. QED  BY <1>1, <1>3, <1>4 DEF CallInv

-----------------------------------------------------------------------------
(* The server and the hang-up.                                             *)

\* A conversation ends.
LEMMA DisconnectStep ==
  ASSUME CallInv, Disconnect, state = "Talking", UNCHANGED <<jobs, flags>>,
         byed' \in BOOLEAN, UNCHANGED sdpless, hungUp' \in {"nobody", "client", "server"},
         Wires(sig'), FirstIsOpen(sig'), sig'.state # "PendingLocalHangup",
         DisconnectedSaidGoodbye'
  PROVE  CallInv'
<1>1. /\ TypeOK /\ MediaInv /\ StepInv /\ Wires(sig)
  BY DEF CallInv
<1>2. /\ pc' = None /\ closedPcs' \subseteq Pcs \union {Own}
      /\ localStream' \in {"none", "user", "device"}
      /\ liveStreams' \subseteq liveStreams
      /\ userProvided' = userProvided
      /\ userProvided => liveStreams' = liveStreams
      /\ localStream = "device" /\ ~userProvided => "device" \notin liveStreams'
  BY <1>1, StopStep DEF Disconnect
<1>3. state' = "Disconnected" /\ told' \in Seq(Callbacks)
  BY <1>1 DEF Disconnect, TypeOK, Callbacks
<1>4. TypeOK'
  BY <1>1, <1>2, <1>3 DEF TypeOK, States, EndStates, Wires
<1>5. sig.state # "none" /\ state \notin EndStates
  BY <1>1 DEF StepInv, EndStates
<1>6. "device" \notin liveStreams' /\ jobs \intersect {"gum", "lateGum"} = {}
  BY <1>1, <1>2, <1>5 DEF MediaInv
<1>7. MediaInv' /\ StepInv' /\ GoodbyeInv'
  BY <1>1, <1>2, <1>3, <1>6 DEF MediaInv, StepInv, GoodbyeInv, BeforeSignaling,
     SetupStates, EndStates, Stranded
<1>. QED  BY <1>4, <1>7 DEF CallInv

LEMMA HangupStep ==
  ASSUME CallInv, Hangup
  PROVE  CallInv'
<1>1. /\ TypeOK /\ MediaInv /\ StepInv /\ GoodbyeInv /\ Wires(sig) /\ FirstIsOpen(sig)
  BY DEF CallInv
<1>2. hungUp' = "client" /\ UNCHANGED <<jobs, flags, serverVars>>
  BY DEF Hangup, HangupInSetup, HangupTalking
<1>3. CASE UNCHANGED <<state, told, mediaVars, sig>>
  <2>1. TypeOK'
    BY <1>1, <1>2, <1>3 DEF TypeOK, mediaVars
  <2>2. MediaInv' /\ StepInv' /\ GoodbyeInv'
    BY <1>1, <1>2, <1>3 DEF mediaVars, MediaInv, StepInv, GoodbyeInv,
       DisconnectedSaidGoodbye, Stranded
  <2>. QED  BY <1>1, <1>3, <2>1, <2>2 DEF CallInv
<1>4. CASE state \in SetupStates /\ Fail /\ sig' = sig
  BY <1>1, <1>2, <1>4, FailStep DEF TypeOK
<1>5. CASE /\ state = "Talking" /\ ~HangupThrows(sig)
           /\ sig' = HangupChannel(sig) /\ Disconnect
  <2>1. /\ Wires(sig') /\ FirstIsOpen(sig')
        /\ sig.state = "Talking" => sig'.state = "PendingRemoteHangup"
        /\ sig.state = "Talking" => "bye" \in sig'.sent \/ (sig'.wss > 1 /\ ~sig'.virtual)
        /\ sig.state = "PendingLocalHangup" => sig'.state = "Disconnected"
        /\ sig.state \notin {"Talking", "PendingLocalHangup"} => sig' = sig
    BY <1>1, <1>5, HangupChannelStep
  <2>2. sig.state \in {"Talking", "PendingReconnect", "PendingLocalHangup", "Disconnected"}
    BY <1>1, <1>5 DEF StepInv, HangupThrows
  <2>3. DisconnectedSaidGoodbye'
    <3>1. CASE sig.state = "PendingReconnect"
      BY <1>1, <2>1, <3>1 DEF Wires, DisconnectedSaidGoodbye
    <3>2. CASE sig.state \in {"PendingLocalHangup", "Disconnected"}
      BY <1>1, <1>2, <1>5, <3>2 DEF GoodbyeInv, DisconnectedSaidGoodbye
    <3>3. CASE sig.state = "Talking"
      BY <2>1, <3>3 DEF DisconnectedSaidGoodbye
    <3>. QED  BY <2>2, <3>1, <3>2, <3>3
  <2>4. sig'.state # "PendingLocalHangup"
    BY <2>1, <2>2
  <2>. QED  BY <1>1, <1>2, <1>5, <2>1, <2>3, <2>4, DisconnectStep DEF TypeOK
<1>. QED  BY <1>3, <1>4, <1>5 DEF Hangup, HangupInSetup, HangupTalking

LEMMA InviteAnsweredStep ==
  ASSUME CallInv, InviteAnswered \/ InviteAnsweredUnusably
  PROVE  CallInv'
<1>1. /\ TypeOK /\ MediaInv /\ StepInv /\ GoodbyeInv /\ Wires(sig) /\ FirstIsOpen(sig)
      /\ sig.state = "PendingAnswer" /\ "invite" \in sig.sent /\ sig.sock[sig.wss] = "open"
      /\ sig' = AcceptChannel(sig) /\ UNCHANGED serverVars /\ hungUp' = hungUp
  BY DEF CallInv, InviteAnswered, InviteAnsweredUnusably, Delivers, reportVars
<1>2. /\ Wires(sig') /\ FirstIsOpen(sig') /\ sig'.state = "Talking"
      /\ sig'.sent = sig.sent \union {"accept"} /\ sig'.wss = sig.wss
      /\ sig'.virtual = sig.virtual /\ sig' \in Channel
  BY <1>1, AcceptChannelStep DEF Wires
<1>3. /\ state \notin BeforeSignaling /\ state # "none" /\ state # "GrabLocalMedia"
      /\ state \notin {"ConnectSignalingAndIceCollection", "Accept", "Talking"}
  BY <1>1, SignalingOfState DEF StepInv
<1>4. CASE state = "InviteAnswer" /\ InviteAnswered
  <2>1. /\ state' = "Accept" /\ flags' = flags \union {"handshaked"}
        /\ jobs' = jobs \union {"setRemoteDescription"} /\ UNCHANGED mediaVars
        /\ told' = told
    BY <1>4 DEF InviteAnswered, reportVars
  <2>2. TypeOK'
    BY <1>1, <1>2, <2>1 DEF TypeOK, mediaVars, States, SetupStates, Flags, Jobs
  <2>3. MediaInv'
    BY <1>1, <1>4, <2>1 DEF MediaInv, mediaVars, EndStates
  <2>4. ~sdpless'
    BY <1>1, <1>4 DEF StepInv
  <2>5. StepInv'
    BY <1>1, <1>2, <2>1, <2>4 DEF StepInv, BeforeSignaling, SetupStates, Stranded
  <2>6. GoodbyeInv'
    BY <1>1, <1>2, <2>1 DEF GoodbyeInv, DisconnectedSaidGoodbye
  <2>. QED  BY <1>2, <2>2, <2>3, <2>5, <2>6 DEF CallInv
<1>5. CASE state = "InviteAnswer" /\ InviteAnsweredUnusably
  <2>1. Fail /\ UNCHANGED <<flags, jobs>> /\ state \in SetupStates
    BY <1>5 DEF InviteAnsweredUnusably, SetupStates
  <2>. QED  BY <1>1, <1>2, <2>1, FailStep DEF TypeOK
<1>6. CASE state # "InviteAnswer"
  <2>1. UNCHANGED <<state, flags, jobs, told, mediaVars>>
    BY <1>6 DEF InviteAnswered, InviteAnsweredUnusably, reportVars
  <2>2. StepInv'
    BY <1>1, <1>3, <1>6, <2>1 DEF StepInv, Stranded
  <2>3. GoodbyeInv'
    BY <1>1, <1>2, <2>1 DEF GoodbyeInv, DisconnectedSaidGoodbye
  <2>. QED  BY <1>1, <1>2, <1>3, <2>1, <2>2, <2>3, ChannelStep DEF TypeOK
<1>. QED  BY <1>4, <1>5, <1>6

LEMMA WithoutSdpStep ==
  ASSUME CallInv, InviteAnsweredWithoutSdp
  PROVE  CallInv'
<1>1. /\ TypeOK /\ MediaInv /\ StepInv /\ GoodbyeInv /\ Wires(sig) /\ FirstIsOpen(sig)
      /\ sig.state = "PendingAnswer" /\ "invite" \in sig.sent /\ sig.sock[sig.wss] = "open"
      /\ sig' = AcceptChannel(sig) /\ sdpless' = TRUE
      /\ UNCHANGED <<sessionVars, mediaVars, byed, reportVars>>
  BY DEF CallInv, InviteAnsweredWithoutSdp, Delivers
<1>2. /\ Wires(sig') /\ FirstIsOpen(sig') /\ sig'.state = "Talking"
      /\ sig'.sent = sig.sent \union {"accept"} /\ sig'.wss = sig.wss
      /\ sig'.virtual = sig.virtual /\ sig' \in Channel
  BY <1>1, AcceptChannelStep DEF Wires
<1>3. /\ state \notin BeforeSignaling /\ state # "none" /\ state # "GrabLocalMedia"
      /\ state \notin {"ConnectSignalingAndIceCollection", "Accept", "Talking"}
  BY <1>1, SignalingOfState DEF StepInv
<1>4. state \in {"InviteAnswer"} \union EndStates
  BY <1>1, <1>3 DEF TypeOK, States, SetupStates, BeforeSignaling
<1>5. UNCHANGED <<state, flags, jobs, told, hungUp>>
  BY <1>1 DEF sessionVars, reportVars
<1>6. StepInv'
  BY <1>1, <1>2, <1>3, <1>4, <1>5 DEF StepInv, Stranded
<1>7. GoodbyeInv'
  BY <1>1, <1>2, <1>5 DEF GoodbyeInv, DisconnectedSaidGoodbye
<1>. QED  BY <1>1, <1>2, <1>3, <1>5, <1>6, <1>7, ChannelStep DEF TypeOK

LEMMA ServerHangsUpStep ==
  ASSUME CallInv, ServerHangsUp
  PROVE  CallInv'
<1>. DEFINE heard == RemoteBye(sig)
<1>1. /\ TypeOK /\ MediaInv /\ StepInv /\ GoodbyeInv /\ Wires(sig) /\ FirstIsOpen(sig)
      /\ byed' = TRUE /\ UNCHANGED <<jobs, flags, sdpless>>
  BY DEF CallInv, ServerHangsUp
<1>2. /\ Wires(heard) /\ FirstIsOpen(heard)
      /\ sig.state = "Talking" => heard.state = "PendingLocalHangup"
      /\ sig.state = "PendingRemoteHangup" => heard.state = "Disconnected"
      /\ sig.state \notin {"Talking", "PendingRemoteHangup"} => heard = sig
      /\ heard.sent = sig.sent
  BY <1>1, RemoteByeStep
<1>3. \/ /\ heard.state = "PendingLocalHangup" /\ state = "Talking" /\ ~HangupThrows(heard)
         /\ sig' = HangupChannel(heard) /\ Disconnect /\ hungUp' = "server"
      \/ sig' = heard /\ UNCHANGED <<state, told, mediaVars, hungUp>>
  BY DEF ServerHangsUp
<1>. HIDE DEF heard
<1>4. CASE /\ heard.state = "PendingLocalHangup" /\ state = "Talking"
           /\ ~HangupThrows(heard)
           /\ sig' = HangupChannel(heard) /\ Disconnect /\ hungUp' = "server"
  <2>1. Wires(sig') /\ FirstIsOpen(sig') /\ sig'.state = "Disconnected"
    BY <1>2, <1>4, HangupChannelStep
  <2>2. DisconnectedSaidGoodbye'
    BY <1>1 DEF DisconnectedSaidGoodbye
  <2>. QED  BY <1>1, <1>4, <2>1, <2>2, DisconnectStep
<1>5. CASE sig' = heard /\ UNCHANGED <<state, told, mediaVars, hungUp>>
  <2>1. CASE sig.state \in {"Talking", "PendingRemoteHangup"}
    <3>1. /\ sig'.state \in {"PendingLocalHangup", "Disconnected"}
          /\ sig'.state = "Disconnected" => state = "Disconnected"
          /\ Wires(sig') /\ FirstIsOpen(sig') /\ sig'.sent = sig.sent
      BY <1>1, <1>2, <1>5, <2>1 DEF GoodbyeInv
    <3>2. /\ state \notin BeforeSignaling /\ state # "none" /\ state # "GrabLocalMedia"
          /\ state # "ConnectSignalingAndIceCollection"
          /\ state = "InviteAnswer" => sdpless
      BY <1>1, <2>1, SignalingOfState DEF StepInv
    <3>3. StepInv'
      BY <1>1, <1>5, <3>1, <3>2 DEF StepInv, Stranded
    <3>4. GoodbyeInv'
      BY <1>1, <3>1 DEF GoodbyeInv, DisconnectedSaidGoodbye
    <3>. QED
      BY <1>1, <1>5, <2>1, <3>1, <3>2, <3>3, <3>4, ChannelStep DEF TypeOK
  <2>2. CASE sig.state \notin {"Talking", "PendingRemoteHangup"}
    <3>1. sig' = sig
      BY <1>2, <1>5, <2>2
    <3>2. TypeOK' /\ MediaInv' /\ StepInv'
      BY <1>1, <1>5, <3>1 DEF TypeOK, mediaVars, MediaInv, StepInv, Stranded
    <3>3. GoodbyeInv'
      BY <1>1, <1>5, <3>1 DEF GoodbyeInv, DisconnectedSaidGoodbye
    <3>. QED  BY <1>1, <3>1, <3>2, <3>3 DEF CallInv
  <2>. QED  BY <2>1, <2>2
<1>. QED  BY <1>3, <1>4, <1>5

LEMMA ServerStep ==
  ASSUME CallInv, Server
  PROVE  CallInv'
<1>1. /\ TypeOK /\ MediaInv /\ StepInv /\ GoodbyeInv /\ Wires(sig) /\ FirstIsOpen(sig)
      /\ sig.wss \in Nat
  BY ChannelFields DEF CallInv, Wires
<1>2. CASE InviteAnswered \/ InviteAnsweredUnusably
  BY <1>2, InviteAnsweredStep
<1>3. CASE InviteRefused
  <2>. DEFINE r == EnterFinal(sig, "Failed")
  <2>1. sig.state = "PendingAnswer"
    BY <1>3 DEF InviteRefused
  <2>2. /\ Wires(r) /\ FirstIsOpen(r) /\ r.state = "Failed" /\ r.sent = sig.sent
        /\ r.virtual = sig.virtual /\ r.wss = sig.wss
    BY <1>1, <2>1, EnterFinalWires DEF Final
  <2>3. Follow(r) /\ UNCHANGED <<jobs, serverVars, hungUp>>
    BY <1>3 DEF InviteRefused
  <2>. HIDE DEF r
  <2>4. r.state \in MovesTo(sig.state) /\ r.wss >= sig.wss
    BY <1>1, <2>1, <2>2 DEF MovesTo, TimedStates
  <2>. QED  BY <2>1, <2>2, <2>3, <2>4, FollowStep
<1>4. CASE ServerHangsUp
  BY <1>4, ServerHangsUpStep
<1>5. CASE InviteAnsweredWithoutSdp
  BY <1>5, WithoutSdpStep
<1>6. CASE ByeAnswered
  <2>1. /\ sig.state = "PendingRemoteHangup" /\ sig' = EnterFinal(sig, "Disconnected")
        /\ UNCHANGED <<state, mediaVars, jobs, flags, serverVars, told, hungUp>>
    BY <1>6 DEF ByeAnswered, reportVars
  <2>2. /\ Wires(sig') /\ FirstIsOpen(sig') /\ sig'.state = "Disconnected"
        /\ sig'.sent = sig.sent /\ sig'.wss = sig.wss /\ sig'.virtual = sig.virtual
    BY <1>1, <2>1, EnterFinalWires DEF Final
  <2>3. state = "Disconnected"
    BY <1>1, <2>1 DEF GoodbyeInv
  <2>4. StepInv'
    BY <1>1, <2>1, <2>3 DEF StepInv, Stranded, BeforeSignaling, SetupStates, EndStates
  <2>5. GoodbyeInv'
    BY <1>1, <2>1, <2>2, <2>3 DEF GoodbyeInv, DisconnectedSaidGoodbye
  <2>. QED  BY <1>1, <2>1, <2>2, <2>3, <2>4, <2>5, ChannelStep DEF TypeOK
<1>. QED  BY <1>2, <1>3, <1>4, <1>5, <1>6 DEF Server

LEMMA AnswerStep ==
  ASSUME CallInv, Answer
  PROVE  CallInv'
<1>1. /\ TypeOK /\ MediaInv /\ StepInv /\ GoodbyeInv /\ Wires(sig) /\ FirstIsOpen(sig)
      /\ jobs' = jobs \ {"setRemoteDescription"} /\ UNCHANGED <<flags, sig, serverVars, hungUp>>
  BY DEF CallInv, Answer, RemoteDescriptionSet, RemoteDescriptionRejected
<1>2. CASE RemoteDescriptionSet
  <2>1. /\ UNCHANGED mediaVars
        /\ \/ state = "Accept" /\ state' = "Talking" /\ told' = Append(told, "connected")
           \/ UNCHANGED <<state, told>>
    BY <1>2 DEF RemoteDescriptionSet
  <2>2. TypeOK'
    BY <1>1, <2>1 DEF TypeOK, mediaVars, States, Callbacks
  <2>3. MediaInv'
    BY <1>1, <2>1 DEF MediaInv, mediaVars, EndStates
  <2>4. StepInv'
    BY <1>1, <2>1 DEF StepInv, Stranded, BeforeSignaling, SetupStates, EndStates
  <2>5. GoodbyeInv'
    BY <1>1, <2>1 DEF GoodbyeInv, DisconnectedSaidGoodbye
  <2>. QED  BY <1>1, <2>2, <2>3, <2>4, <2>5 DEF CallInv
<1>3. CASE RemoteDescriptionRejected /\ state = "Accept"
  <2>1. Fail /\ state \in SetupStates
    BY <1>3 DEF RemoteDescriptionRejected, SetupStates
  <2>. QED  BY <1>1, <2>1, FailStep DEF TypeOK
<1>4. CASE RemoteDescriptionRejected /\ state # "Accept"
  <2>1. StopSession /\ UNCHANGED <<state, told>>
    BY <1>4 DEF RemoteDescriptionRejected
  <2>2. /\ pc' = None /\ closedPcs' \subseteq Pcs \union {Own}
        /\ localStream' \in {"none", "user", "device"}
        /\ liveStreams' \subseteq liveStreams
        /\ userProvided' = userProvided
        /\ userProvided => liveStreams' = liveStreams
        /\ localStream = "device" /\ ~userProvided => "device" \notin liveStreams'
    BY <1>1, <2>1, StopStep
  <2>3. TypeOK'
    BY <1>1, <2>1, <2>2 DEF TypeOK
  <2>4. MediaInv'
    BY <1>1, <2>1, <2>2 DEF MediaInv
  <2>5. StepInv' /\ GoodbyeInv'
    BY <1>1, <2>1 DEF StepInv, Stranded, GoodbyeInv, DisconnectedSaidGoodbye
  <2>. QED  BY <1>1, <2>3, <2>4, <2>5 DEF CallInv
<1>. QED  BY <1>2, <1>3, <1>4 DEF Answer

LEMMA InitInv ==
  ASSUME Init
  PROVE  CallInv
<1>1. PICK isVirtual \in BOOLEAN : sig = NoChannel(isVirtual)
  BY DEF Init
<1>2. sig \in Channel
  BY <1>1, SocketsAssumption DEF NoChannel, Channel, SignalingStates, SocketStates,
     CONNECT_MAX_RETRIES
<1>3. /\ sig.state = "none" /\ sig.wss = 0 /\ sig.retries = 0 /\ sig.sent = {}
      /\ sig.sock = [w \in Sockets |-> "none"]
  BY <1>1 DEF NoChannel
<1>4. Wires(sig) /\ FirstIsOpen(sig)
  BY <1>2, <1>3 DEF Wires, FirstIsOpen, CONNECT_MAX_RETRIES
<1>5. TypeOK
  <2>1. state \in States /\ hungUp \in {"nobody", "client", "server"}
    BY DEF Init, States
  <2>2. pc \in Pcs \union {Own, None} /\ closedPcs \subseteq Pcs \union {Own}
    BY DEF Init
  <2>3. localStream \in {"none", "user", "device"} /\ userProvided \in BOOLEAN
    BY DEF Init
  <2>4. liveStreams \subseteq {"user", "device"}
    BY DEF Init
  <2>5. jobs \subseteq Jobs /\ flags \subseteq Flags /\ byed \in BOOLEAN /\ sdpless \in BOOLEAN
    BY DEF Init
  <2>6. told \in Seq(Callbacks)
    BY DEF Init
  <2>. QED  BY <1>2, <2>1, <2>2, <2>3, <2>4, <2>5, <2>6 DEF TypeOK
<1>6. MediaInv /\ StepInv /\ GoodbyeInv
  BY <1>3 DEF Init, MediaInv, StepInv, GoodbyeInv, DisconnectedSaidGoodbye,
              BeforeSignaling, SetupStates, EndStates, Stranded
<1>. QED  BY <1>4, <1>5, <1>6 DEF CallInv

\* One step of the session, of whomever.
LEMMA ProgressStep ==
  ASSUME CallInv, Progress
  PROVE  CallInv'
<1>1. \/ Media \/ Ice \/ SocketEvents \/ SignalingTimeout
      \/ Server \/ Answer \/ Hangup
  BY DEF Progress
<1>. QED
  BY <1>1, MediaStep, IceStep, SocketsStep, ServerStep, AnswerStep, HangupStep

LEMMA StutterStep ==
  ASSUME CallInv, UNCHANGED rtcVars
  PROVE  CallInv'
<1>1. UNCHANGED <<state, jobs, flags, mediaVars, sig, serverVars, told, hungUp>>
  BY DEF rtcVars, sessionVars, reportVars
<1>2. TypeOK' /\ MediaInv'
  BY <1>1 DEF CallInv, TypeOK, MediaInv, mediaVars
<1>3. StepInv' /\ GoodbyeInv'
  BY <1>1 DEF CallInv, StepInv, Stranded, GoodbyeInv, DisconnectedSaidGoodbye
<1>. QED  BY <1>1, <1>2, <1>3 DEF CallInv

-----------------------------------------------------------------------------
(* The factory.                                                            *)

\* Only connect() gives the session a connection.
LEMMA PcStep ==
  ASSUME Progress
  PROVE  pc' \in {pc, None}
<1>1. StopSession => pc' = None
  BY DEF StopSession
<1>2. UNCHANGED mediaVars => pc' = pc
  BY DEF mediaVars
<1>3. Fail \/ Disconnect => pc' = None
  BY <1>1 DEF Fail, Disconnect
<1>4. ASSUME NEW channel, Follow(channel) PROVE pc' \in {pc, None}
  BY <1>2, <1>3, <1>4 DEF Follow, OnSignalingFailed
<1>5. CASE Media
  BY <1>2, <1>3, <1>5 DEF Media, GumGranted, GumRaceLost, LateGum, OfferCreated,
     LocalDescriptionSet, OfferRejected
<1>6. CASE Ice
  BY <1>2, <1>3, <1>6 DEF Ice, IceCandidate, IceCollectionEnds, IceCompleted
<1>7. CASE SocketEvents \/ SignalingTimeout \/ InviteRefused
  BY <1>4, <1>7 DEF SocketEvents, SocketOpens, SocketGoes, SignalingTimeout, InviteRefused
<1>8. CASE \/ InviteAnswered \/ InviteAnsweredUnusably \/ InviteAnsweredWithoutSdp
           \/ ServerHangsUp \/ ByeAnswered
  BY <1>2, <1>3, <1>8 DEF InviteAnswered, InviteAnsweredUnusably,
     InviteAnsweredWithoutSdp, ServerHangsUp, ByeAnswered
<1>9. CASE Answer \/ Hangup
  BY <1>1, <1>2, <1>3, <1>9 DEF Answer, RemoteDescriptionSet, RemoteDescriptionRejected,
     Hangup, HangupInSetup, HangupTalking
<1>. QED  BY <1>5, <1>6, <1>7, <1>8, <1>9 DEF Progress, Server

LEMMA FactoryInit ==
  ASSUME CallInit
  PROVE  FactoryInv
<1>1. pc \notin Pcs
  BY PcsAssumption DEF CallInit, Init
<1>. QED
  BY <1>1, MaxPcsAssumption
     DEF CallInit, Factory!Init, FactoryInv, Factory!TypeOK, Factory!NoPc

LEMMA FactoryTypes ==
  ASSUME supported' \in BOOLEAN, inFlight' \in BOOLEAN, requested' \in BOOLEAN,
         timerKnown' \in BOOLEAN, closed' \in BOOLEAN, timers' \in Nat,
         idlePc' \in Factory!FactoryPcs \union {Factory!NoPc},
         pcs' \in [Factory!FactoryPcs -> {"none", "idle", "handed", "closed"}]
  PROVE  Factory!TypeOK'
  BY Zenon DEF Factory!TypeOK, Factory!FactoryPcs, Factory!NoPc

\* get() hands out what nobody else holds.
LEMMA GetStep ==
  ASSUME FactoryInv, NEW p \in Pcs, Factory!Get(p), pc' \in {pc, p, None}
  PROVE  FactoryInv'
<1>1. /\ Factory!TypeOK /\ p \in Factory!FactoryPcs /\ None \notin Pcs
      /\ timers = IF timerKnown THEN 1 ELSE 0
      /\ requested => inFlight /\ ~timerKnown /\ idlePc = Factory!NoPc
  BY CallAssumption, PcsAssumption DEF FactoryInv
<1>2. /\ pcs' = [pcs EXCEPT ![p] = "handed"] /\ idlePc' = Factory!NoPc
      /\ timerKnown' = FALSE
      /\ timers' = IF timerKnown THEN timers - 1 ELSE timers
      /\ inFlight' = (inFlight \/ supported)
      /\ requested' = (requested \/ (supported /\ ~inFlight))
      /\ UNCHANGED <<supported, closed>>
  BY DEF Factory!Get, Factory!ClearTimer, Factory!RequestPeerConnection
<1>3. timers' = 0
  BY <1>1, <1>2
<1>4. pcs' \in [Factory!FactoryPcs -> {"none", "idle", "handed", "closed"}]
  BY <1>1, <1>2 DEF Factory!TypeOK
<1>5. inFlight' \in BOOLEAN /\ requested' \in BOOLEAN /\ (requested' => inFlight')
  BY <1>1, <1>2 DEF Factory!TypeOK
<1>6. Factory!TypeOK'
  <2>1. supported' \in BOOLEAN /\ closed' \in BOOLEAN /\ timerKnown' \in BOOLEAN
    BY <1>1, <1>2 DEF Factory!TypeOK
  <2>2. timers' \in Nat /\ idlePc' \in Factory!FactoryPcs \union {Factory!NoPc}
    BY <1>2, <1>3
  <2>. QED  BY <1>4, <1>5, <2>1, <2>2, FactoryTypes, Zenon
<1>7. pc' \in Pcs => pcs'[pc'] = "handed"
  BY <1>1, <1>2, CallAssumption DEF FactoryInv, Factory!TypeOK
<1>. QED  BY <1>2, <1>3, <1>5, <1>6, <1>7 DEF FactoryInv

\* What the factory does on its own leaves what it handed out alone.
LEMMA BackgroundStep ==
  ASSUME FactoryInv, Factory!Background, pc' = pc
  PROVE  FactoryInv'
<1>1. /\ Factory!TypeOK /\ Pcs = Factory!FactoryPcs
      /\ timers = IF timerKnown THEN 1 ELSE 0
      /\ requested => inFlight /\ ~timerKnown /\ idlePc = Factory!NoPc
      /\ idlePc # Factory!NoPc => timerKnown /\ pcs[idlePc] = "idle"
      /\ pc \in Pcs => pcs[pc] = "handed"
  BY CallAssumption DEF FactoryInv
<1>. USE DEF Factory!TypeOK
<1>2. CASE Factory!AccessGranted
  <2>1. CASE closed
    BY <1>1, <1>2, <2>1 DEF Factory!AccessGranted, FactoryInv
  <2>2. CASE ~closed
    <3>1. PICK p \in Factory!FactoryPcs :
            /\ Factory!IsNew(p) /\ idlePc' = p /\ pcs' = [pcs EXCEPT ![p] = "idle"]
            /\ inFlight' = FALSE /\ timerKnown' = TRUE /\ timers' = timers + 1
      BY <1>2, <2>2 DEF Factory!AccessGranted
    <3>2. requested /\ requested' = FALSE /\ UNCHANGED <<supported, closed>>
      BY <1>2 DEF Factory!AccessGranted
    <3>3. timers' = 1
      BY <1>1, <3>1, <3>2
    <3>4. pcs[p] = "none"
      BY <3>1 DEF Factory!IsNew
    <3>5. pcs' \in [Factory!FactoryPcs -> {"none", "idle", "handed", "closed"}]
      BY <1>1, <3>1
    <3>6. Factory!TypeOK'
      <4>1. supported' \in BOOLEAN /\ closed' \in BOOLEAN /\ timerKnown' \in BOOLEAN
        BY <1>1, <3>1, <3>2
      <4>2. inFlight' \in BOOLEAN /\ requested' \in BOOLEAN
        BY <3>1, <3>2
      <4>3. timers' \in Nat /\ idlePc' \in Factory!FactoryPcs \union {Factory!NoPc}
        BY <3>1, <3>3
      <4>. QED  BY <3>5, <4>1, <4>2, <4>3, FactoryTypes, Zenon
    <3>7. pcs'[idlePc'] = "idle" /\ (pc' \in Pcs => pcs'[pc'] = "handed")
      BY <1>1, <3>1, <3>4
    <3>. QED  BY <3>1, <3>2, <3>3, <3>6, <3>7 DEF FactoryInv
  <2>. QED  BY <2>1, <2>2
<1>3. CASE Factory!AccessDenied
  BY <1>1, <1>3 DEF Factory!AccessDenied, FactoryInv
<1>. DEFINE rest == [p \in Factory!FactoryPcs |-> IF p = idlePc THEN "closed" ELSE pcs[p]]
<1>4. /\ rest \in [Factory!FactoryPcs -> {"none", "idle", "handed", "closed"}]
      /\ pc \in Pcs => rest[pc] = "handed"
  BY <1>1 DEF Factory!NoPc, Factory!FactoryPcs
<1>. HIDE DEF rest
<1>5. CASE Factory!Refresh
  <2>1. /\ timers > 0 /\ timers' = timers - 1 /\ timerKnown' = FALSE /\ pcs' = rest
        /\ idlePc' = Factory!NoPc /\ UNCHANGED <<supported, closed>>
    BY <1>5 DEF Factory!Refresh, Factory!CloseIdle, rest
  <2>2. timers' = 0 /\ ~requested
    BY <1>1, <2>1
  <2>3. /\ inFlight' \in BOOLEAN /\ requested' \in BOOLEAN
        /\ requested' => inFlight'
    BY <1>1, <1>5, <2>2 DEF Factory!Refresh, Factory!RequestPeerConnection
  <2>4. Factory!TypeOK'
    <3>1. supported' \in BOOLEAN /\ closed' \in BOOLEAN /\ timerKnown' \in BOOLEAN
      BY <1>1, <2>1
    <3>2. timers' \in Nat /\ idlePc' \in Factory!FactoryPcs \union {Factory!NoPc}
      BY <2>1, <2>2
    <3>3. pcs' \in [Factory!FactoryPcs -> {"none", "idle", "handed", "closed"}]
      BY <1>4, <2>1
    <3>. QED  BY <2>3, <3>1, <3>2, <3>3, FactoryTypes, Zenon
  <2>. QED  BY <1>1, <1>4, <2>1, <2>2, <2>3, <2>4 DEF FactoryInv, Factory!NoPc
<1>6. CASE Factory!IdleConnectionDropped
  <2>1. /\ pcs' = rest /\ idlePc' = Factory!NoPc
        /\ UNCHANGED <<supported, inFlight, requested, timerKnown, timers, closed>>
    BY <1>6 DEF Factory!IdleConnectionDropped, Factory!CloseIdle, rest
  <2>. QED  BY <1>1, <1>4, <2>1 DEF FactoryInv
<1>7. CASE Factory!Close
  <2>1. /\ closed' = TRUE /\ timerKnown' = FALSE /\ pcs' = rest /\ idlePc' = Factory!NoPc
        /\ timers' = IF timerKnown THEN timers - 1 ELSE timers
        /\ UNCHANGED <<supported, inFlight, requested>>
    BY <1>7 DEF Factory!Close, Factory!ClearTimer, Factory!CloseIdle, rest
  <2>2. timers' = 0
    BY <1>1, <2>1
  <2>3. Factory!TypeOK'
    <3>1. supported' \in BOOLEAN /\ closed' \in BOOLEAN /\ timerKnown' \in BOOLEAN
      BY <1>1, <2>1
    <3>2. inFlight' \in BOOLEAN /\ requested' \in BOOLEAN
      BY <1>1, <2>1
    <3>3. timers' \in Nat /\ idlePc' \in Factory!FactoryPcs \union {Factory!NoPc}
      BY <2>1, <2>2
    <3>4. pcs' \in [Factory!FactoryPcs -> {"none", "idle", "handed", "closed"}]
      BY <1>4, <2>1
    <3>. QED  BY <3>1, <3>2, <3>3, <3>4, FactoryTypes, Zenon
  <2>. QED  BY <1>1, <1>4, <2>1, <2>2, <2>3 DEF FactoryInv, Factory!NoPc
<1>. QED  BY <1>2, <1>3, <1>5, <1>6, <1>7 DEF Factory!Background

\* The session goes on, or nothing does: the factory stands still.
LEMMA FactoryRests ==
  ASSUME FactoryInv, UNCHANGED factoryVars, pc' \in {pc, None, Own}
  PROVE  FactoryInv'
<1>1. pc' \in Pcs => pc' = pc
  BY PcsAssumption
<1>. QED  BY <1>1 DEF FactoryInv, factoryVars, Factory!TypeOK

LEMMA CallStep ==
  ASSUME CallInv, FactoryInv, [CallNext]_callVars
  PROVE  CallInv' /\ FactoryInv'
<1>1. CASE ConnectCall
  <2>1. ASSUME NEW p \in Pcs, Factory!Get(p), Connect(p) PROVE CallInv' /\ FactoryInv'
    <3>1. pc' = p
      BY <2>1, PcsAssumption DEF Connect
    <3>. QED  BY <2>1, <3>1, ConnectStep, GetStep
  <2>2. CASE Connect(None) /\ UNCHANGED factoryVars
    <3>1. pc' = Own
      BY <2>2 DEF Connect
    <3>. QED  BY <2>2, <3>1, ConnectStep, FactoryRests
  <2>. QED  BY <1>1, <2>1, <2>2 DEF ConnectCall
<1>2. CASE Progress /\ UNCHANGED factoryVars
  BY <1>2, ProgressStep, PcStep, FactoryRests
<1>3. CASE OtherCall
  <2>1. pc' = pc /\ UNCHANGED rtcVars
    BY <1>3 DEF OtherCall, rtcVars, mediaVars
  <2>2. FactoryInv'
    BY <1>3, <2>1, GetStep DEF OtherCall
  <2>. QED  BY <2>1, <2>2, StutterStep
<1>4. CASE Factory!Background /\ UNCHANGED rtcVars
  <2>1. pc' = pc
    BY <1>4 DEF rtcVars, mediaVars
  <2>. QED  BY <1>4, <2>1, BackgroundStep, StutterStep
<1>5. CASE UNCHANGED callVars
  <2>1. UNCHANGED rtcVars /\ UNCHANGED factoryVars /\ pc' = pc
    BY <1>5 DEF callVars, rtcVars, mediaVars
  <2>. QED  BY <2>1, StutterStep, FactoryRests
<1>. QED  BY <1>1, <1>2, <1>3, <1>4, <1>5 DEF CallNext

-----------------------------------------------------------------------------
(* The order of the callbacks.                                             *)

\* What a step tells the application: nothing, without leaving its phase or
\* because the answer had no sdp, or one of three turns.
Turn ==
  \/ told' = told /\ state' = state /\ sdpless' = sdpless
  \/ /\ told' = told /\ sdpless' = sdpless
     /\ state \in SetupStates \ {"InviteAnswer"} /\ state' \in SetupStates
  \/ /\ told' = told /\ state = "InviteAnswer" /\ state' = "Accept"
     /\ ~sdpless /\ sdpless' = sdpless
  \/ told' = told /\ state' = state /\ sdpless'
  \/ state \in SetupStates /\ Fail
  \/ state = "Talking" /\ Disconnect
  \/ /\ state = "Accept" /\ state' = "Talking"
     /\ told' = Append(told, "connected")

LEMMA FollowTurn ==
  ASSUME NEW channel, Follow(channel), UNCHANGED serverVars
  PROVE  Turn
  BY DEF Follow, CheckAndTransit, OnSignalingFailed, Turn, SetupStates

LEMMA ProgressTurn ==
  ASSUME StepInv, Progress
  PROVE  Turn
<1>1. CASE Media
  BY <1>1 DEF Media, GumGranted, GumRaceLost, LateGum, OfferCreated,
     LocalDescriptionSet, OfferRejected, reportVars, Turn, SetupStates
<1>2. CASE Ice
  BY <1>2 DEF Ice, IceCandidate, IceCollectionEnds, IceCompleted, CheckAndTransit,
     Turn, SetupStates
<1>3. CASE SocketEvents \/ SignalingTimeout \/ InviteRefused
  BY <1>3, FollowTurn
     DEF SocketEvents, SocketOpens, SocketGoes, SignalingTimeout, InviteRefused
<1>4. CASE InviteAnswered \/ InviteAnsweredUnusably
  BY <1>4 DEF InviteAnswered, InviteAnsweredUnusably, reportVars, Turn, SetupStates,
     StepInv
<1>5. CASE ServerHangsUp \/ ByeAnswered
  BY <1>5 DEF ServerHangsUp, ByeAnswered, reportVars, Turn
<1>6. CASE Answer
  BY <1>6 DEF Answer, RemoteDescriptionSet, RemoteDescriptionRejected, Turn, SetupStates
<1>7. CASE Hangup
  BY <1>7 DEF Hangup, HangupInSetup, HangupTalking, Turn
<1>8. CASE InviteAnsweredWithoutSdp
  BY <1>8 DEF InviteAnsweredWithoutSdp, sessionVars, reportVars, Turn
<1>. QED  BY <1>1, <1>2, <1>3, <1>4, <1>5, <1>6, <1>7, <1>8 DEF Progress, Server

LEMMA TurnStep ==
  ASSUME TypeOK, StepInv, Turn
  PROVE  [Lifecycle!Next]_<<Phase, told>>
<1>1. CASE told' = told /\ state' = state /\ sdpless' = sdpless
  BY <1>1 DEF Phase, Forsaken
<1>2. CASE /\ told' = told /\ sdpless' = sdpless
           /\ state \in SetupStates \ {"InviteAnswer"} /\ state' \in SetupStates
  <2>1. ~sdpless
    BY <1>2 DEF StepInv, SetupStates, EndStates
  <2>2. Phase = "setup" /\ Phase' = "setup"
    BY <1>2, <2>1 DEF Phase, Forsaken, SetupStates
  <2>. QED  BY <1>2, <2>2
<1>3. CASE /\ told' = told /\ state = "InviteAnswer" /\ state' = "Accept"
           /\ ~sdpless /\ sdpless' = sdpless
  BY <1>3 DEF Phase, Forsaken, SetupStates
<1>4. CASE told' = told /\ state' = state /\ sdpless'
  <2>1. CASE state = "InviteAnswer"
    BY <1>4, <2>1 DEF Phase, Forsaken, SetupStates, Lifecycle!Next, Lifecycle!Forsake
  <2>2. CASE state # "InviteAnswer"
    BY <1>4, <2>2 DEF Phase, Forsaken
  <2>. QED  BY <2>1, <2>2
<1>5. CASE state \in SetupStates /\ Fail
  <2>1. /\ Phase \in {"setup", "forsaken"} /\ Phase' = "ended"
        /\ told' = told \o <<"failed", "destroyed">>
    BY <1>5 DEF Fail, Phase, Forsaken, SetupStates
  <2>2. Lifecycle!Completion = <<>>
    BY <2>1 DEF Lifecycle!Completion
  <2>3. told \o <<>> = told
    BY DEF TypeOK
  <2>4. told' = told \o Lifecycle!Completion \o <<"failed", "destroyed">>
    BY <2>1, <2>2, <2>3, Zenon
  <2>. QED  BY <2>1, <2>4 DEF Lifecycle!Next, Lifecycle!End
<1>6. CASE state = "Talking" /\ Disconnect
  BY <1>6 DEF Disconnect, Phase, Forsaken, SetupStates, Lifecycle!Next, Lifecycle!End
<1>7. CASE /\ state = "Accept" /\ state' = "Talking"
           /\ told' = Append(told, "connected")
  BY <1>7 DEF Phase, Forsaken, SetupStates, Lifecycle!Next, Lifecycle!Establish
<1>. QED  BY <1>1, <1>2, <1>3, <1>4, <1>5, <1>6, <1>7 DEF Turn

LEMMA LifecycleStep ==
  ASSUME CallInv, [CallNext]_callVars
  PROVE  [Lifecycle!Next]_<<Phase, told>>
<1>1. TypeOK /\ StepInv
  BY DEF CallInv
<1>2. CASE Progress
  BY <1>1, <1>2, ProgressTurn, TurnStep
<1>3. ASSUME NEW p, Connect(p) PROVE [Lifecycle!Next]_<<Phase, told>>
  <2>1. /\ Phase = "idle" /\ Phase' = "setup" /\ told' = told
    BY <1>3 DEF Connect, reportVars, Phase, Forsaken, SetupStates
  <2>2. told' = told \o Lifecycle!Completion
    BY <1>1, <2>1 DEF TypeOK, Lifecycle!Completion
  <2>. QED  BY <2>1, <2>2 DEF Lifecycle!Next, Lifecycle!Start
<1>4. CASE UNCHANGED rtcVars
  BY <1>4 DEF rtcVars, sessionVars, reportVars, Phase, Forsaken
<1>. QED  BY <1>2, <1>3, <1>4 DEF CallNext, ConnectCall, OtherCall, callVars

-----------------------------------------------------------------------------
(* The theorems.                                                           *)

\* The session, its channel, its sockets and the factory are in step, whatever
\* the order of the events of user, browser, sockets and server.
THEOREM CallInvariant == CallSpec => [](CallInv /\ FactoryInv)
<1>1. CallInit => CallInv /\ FactoryInv
  BY InitInv, FactoryInit DEF CallInit
<1>2. (CallInv /\ FactoryInv) /\ [CallNext]_callVars => (CallInv /\ FactoryInv)'
  BY CallStep
<1>. QED  BY <1>1, <1>2, PTL DEF CallSpec

\* Types of the call and of its factory (constructors of rtc_session.js,
\* signaling.js and rtc_peer_connection_factory.js).
THEOREM CallTypeCorrect == CallSpec => []CallTypeOK
<1>1. CallInv /\ FactoryInv => CallTypeOK
  BY DEF CallInv, FactoryInv, CallTypeOK
<1>. QED  BY <1>1, CallInvariant, PTL

\* The channel signals what the session is at, however many sockets it loses;
\* after an answer without an sdp it talks to a session that waits for one
\* (rtc_session.js lines 219-310, signaling.js lines 131-148 and 851-917).
THEOREM SignalingFollows == CallSpec => []SignalingFollowsSession
<1>1. CallInv => SignalingFollowsSession
  BY DEF CallInv, StepInv, SignalingFollowsSession, BeforeSignaling, SetupStates
<1>. QED  BY <1>1, CallInvariant, PTL

\* A conversation that ended was taken leave of, unless its channel had lost a
\* socket (rtc_session.js line 572, signaling.js lines 568-576 and 701-711).
THEOREM DisconnectedGoodbye == CallSpec => []DisconnectedSaidGoodbye
<1>1. CallInv => DisconnectedSaidGoodbye
  BY DEF CallInv, GoodbyeInv
<1>. QED  BY <1>1, CallInvariant, PTL

\* The end of a session releases its connection and the microphone it was
\* granted in time, and no stream of the user (rtc_session.js lines 1336-1358).
THEOREM EndedReleases == CallSpec => []EndedReleasesMedia
<1>1. CallInv => EndedReleasesMedia
  BY DEF CallInv, MediaInv, EndedReleasesMedia
<1>. QED  BY <1>1, CallInvariant, PTL

\* What the factory hands out stays the session's; what it keeps is open and
\* timed (rtc_peer_connection_factory.js lines 65-103 and 123-150).
THEOREM CallKeeps == CallSpec => []CallKeepsItsConnection
<1>1. CallInv /\ FactoryInv => CallKeepsItsConnection
  <2>. SUFFICES ASSUME FactoryInv PROVE CallKeepsItsConnection
    OBVIOUS
  <2>1. None = Factory!NoPc /\ None \notin Pcs
    BY CallAssumption, PcsAssumption
  <2>2. idlePc # None => pcs[idlePc] = "idle" /\ timerKnown /\ timers = 1
    BY <2>1 DEF FactoryInv
  <2>3. pc \in Pcs => pcs[pc] = "handed" /\ idlePc # pc
    BY <2>1, <2>2 DEF FactoryInv
  <2>. QED  BY <2>2, <2>3 DEF CallKeepsItsConnection
<1>. QED  BY <1>1, CallInvariant, PTL

\* The callbacks of a call come in the order SessionLifecycle allows
\* (rtc_session.js lines 506-518, 663-700 and 717-726).
THEOREM CallbacksInOrder == CallSpec => LifecycleOrder
<1>1. CallInit => Lifecycle!Init
  BY DEF CallInit, Init, Lifecycle!Init, Phase, SetupStates
<1>2. (CallInv /\ FactoryInv) /\ [CallNext]_callVars => [Lifecycle!Next]_<<Phase, told>>
  BY LifecycleStep
<1>. QED  BY <1>1, <1>2, CallInvariant, PTL DEF CallSpec, LifecycleOrder
=============================================================================
