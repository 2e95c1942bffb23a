-------------------------- MODULE RtcSignalingProofs --------------------------
(***************************************************************************)
(* What the handlers of a V1 signaling channel make of it, for every       *)
(* number of sockets.                                                      *)
(***************************************************************************)
EXTENDS RtcSignaling, TLAPS

-----------------------------------------------------------------------------
(* The invariant of the channel.                                           *)

\* Sockets are created in order, a connection attempt each.
Wires(s) ==
  /\ s \in Channel
  /\ \A w \in Sockets : w > s.wss => s.sock[w] = "none"
  /\ s.retries < CONNECT_MAX_RETRIES
  /\ s.state = "none" => s.wss = 0 /\ s.retries = 0
  /\ s.state # "none" => s.wss > 0
  /\ s.state \in {"PendingConnect", "PendingInvite", "PendingAnswer"} =>
       s.wss = s.retries + 1
  /\ s.state = "PendingReconnect" => s.wss > 1 /\ ~s.virtual

\* A channel that never replaced its socket speaks on one that is open.
FirstIsOpen(s) ==
  s.state \in {"PendingInvite", "Talking"} /\ s.wss = 1 => s.sock[1] = "open"

-----------------------------------------------------------------------------
(* Sockets.                                                                *)

LEMMA ChannelFields ==
  ASSUME NEW s \in Channel
  PROVE  /\ s.state \in SignalingStates
         /\ s.retries \in 0..CONNECT_MAX_RETRIES
         /\ s.virtual \in BOOLEAN
         /\ s.wss \in 0..MaxSockets
         /\ s.sock \in [Sockets -> SocketStates]
         /\ s.sent \in SUBSET RpcMessages
  BY DEF Channel

LEMMA ChannelUpdates ==
  ASSUME NEW s \in Channel
  PROVE  /\ \A x \in SignalingStates :
              /\ [s EXCEPT !.state = x] \in Channel
              /\ [s EXCEPT !.state = x].state = x
              /\ [s EXCEPT !.state = x].retries = s.retries
              /\ [s EXCEPT !.state = x].virtual = s.virtual
              /\ [s EXCEPT !.state = x].wss = s.wss
              /\ [s EXCEPT !.state = x].sock = s.sock
              /\ [s EXCEPT !.state = x].sent = s.sent
  BY DEF Channel

\* A new socket is the newest.
LEMMA NewSocketFields ==
  ASSUME NEW s \in Channel, s.wss < MaxSockets
  PROVE  /\ NewSocket(s) \in Channel
         /\ NewSocket(s).wss = s.wss + 1
         /\ NewSocket(s).sock = [s.sock EXCEPT ![s.wss + 1] = "connecting"]
         /\ NewSocket(s).state = s.state
         /\ NewSocket(s).retries = s.retries
         /\ NewSocket(s).virtual = s.virtual
         /\ NewSocket(s).sent = s.sent
<1>1. s.wss + 1 \in Sockets /\ s.wss + 1 \in 0..MaxSockets
  BY SocketsAssumption, ChannelFields DEF Sockets
<1>2. [s.sock EXCEPT ![s.wss + 1] = "connecting"] \in [Sockets -> SocketStates]
  BY <1>1, ChannelFields DEF SocketStates
<1>. QED  BY <1>1, <1>2 DEF NewSocket, Channel

LEMMA EnterFinalFields ==
  ASSUME NEW s \in Channel, NEW final \in Final
  PROVE  /\ EnterFinal(s, final) \in Channel
         /\ EnterFinal(s, final).state = final
         /\ EnterFinal(s, final).wss = s.wss
         /\ EnterFinal(s, final).sock = [s.sock EXCEPT ![s.wss] = "closed"]
         /\ EnterFinal(s, final).retries = s.retries
         /\ EnterFinal(s, final).virtual = s.virtual
         /\ EnterFinal(s, final).sent = s.sent
<1>1. [s.sock EXCEPT ![s.wss] = "closed"] \in [Sockets -> SocketStates]
  BY ChannelFields DEF SocketStates
<1>. QED  BY <1>1 DEF EnterFinal, Channel, Final, SignalingStates

\* Entering a final state keeps sockets in order, and nothing more is said.
LEMMA EnterFinalWires ==
  ASSUME NEW s, Wires(s), s.state # "none", NEW final \in Final
  PROVE  /\ Wires(EnterFinal(s, final)) /\ FirstIsOpen(EnterFinal(s, final))
         /\ EnterFinal(s, final).state = final
         /\ EnterFinal(s, final).wss = s.wss
         /\ EnterFinal(s, final).virtual = s.virtual
         /\ EnterFinal(s, final).sent = s.sent
<1>. DEFINE r == EnterFinal(s, final)
<1>1. /\ s \in Channel /\ r \in Channel
      /\ r.state = final /\ r.wss = s.wss /\ r.retries = s.retries /\ r.virtual = s.virtual
      /\ r.sent = s.sent
      /\ r.sock = [s.sock EXCEPT ![s.wss] = "closed"]
  BY EnterFinalFields DEF Wires
<1>. HIDE DEF r
<1>2. ASSUME NEW w \in Sockets, w > r.wss PROVE r.sock[w] = "none"
  BY <1>1, <1>2, ChannelFields DEF Wires
<1>3. Wires(r) /\ FirstIsOpen(r)
  BY <1>1, <1>2 DEF Wires, FirstIsOpen, Final
<1>. QED  BY <1>1, <1>3 DEF r

-----------------------------------------------------------------------------
(* The loss of a socket.                                                   *)

\* Where channelDown may leave a channel: with a new connection under way, or
\* further from talking.
DownFrom(a) ==
  CASE a = "PendingConnect"     -> {"PendingConnect", "Failed"}
    [] a = "PendingInvite"      -> {"Failed"}
    [] a = "Talking"            -> {"PendingReconnect", "Failed"}
    [] a = "PendingReconnect"   -> {"Failed"}
    [] a = "PendingLocalHangup" -> {"Disconnected"}
    [] OTHER                    -> {a}

LEMMA ChannelDownStep ==
  ASSUME NEW s, Wires(s), ~s.virtual, s.state = "Talking" => s.wss < MaxSockets,
         NEW inTime \in BOOLEAN
  PROVE  /\ Wires(ChannelDown(s, inTime)) /\ FirstIsOpen(ChannelDown(s, inTime))
         /\ ChannelDown(s, inTime).state \in DownFrom(s.state)
         /\ ChannelDown(s, inTime).state # "Talking"
         /\ ChannelDown(s, inTime).sent = s.sent
         /\ ~ChannelDown(s, inTime).virtual
         /\ ChannelDown(s, inTime).wss >= s.wss
<1>. DEFINE r == ChannelDown(s, inTime)
<1>0. s \in Channel /\ s.wss \in Nat /\ s.retries \in Nat
  BY ChannelFields DEF Wires
<1>1. CASE /\ s.state = "PendingConnect" /\ inTime
           /\ s.retries + 1 < CONNECT_MAX_RETRIES
  <2>. DEFINE n == NewSocket(s)
  <2>1. s.wss = s.retries + 1 /\ s.wss < MaxSockets
    BY <1>0, <1>1, SocketsAssumption DEF Wires, CONNECT_MAX_RETRIES
  <2>2. /\ n \in Channel /\ n.wss = s.wss + 1 /\ n.state = s.state
        /\ n.retries = s.retries /\ n.virtual = s.virtual /\ n.sent = s.sent
        /\ n.sock = [s.sock EXCEPT ![s.wss + 1] = "connecting"]
    BY <1>0, <2>1, NewSocketFields
  <2>. HIDE DEF n
  <2>3. r = [n EXCEPT !.retries = s.retries + 1]
    BY <1>1, <2>2 DEF ChannelDown, n
  <2>. HIDE DEF r
  <2>4. /\ r \in Channel /\ r.wss = s.wss + 1 /\ r.state = s.state /\ r.sock = n.sock
        /\ r.retries = s.retries + 1 /\ r.virtual = s.virtual /\ r.sent = s.sent
    BY <1>0, <1>1, <2>2, <2>3 DEF Channel, CONNECT_MAX_RETRIES
  <2>5. ASSUME NEW w \in Sockets, w > r.wss PROVE r.sock[w] = "none"
    BY <1>0, <2>2, <2>4, <2>5, ChannelFields DEF Wires, Sockets
  <2>6. Wires(r)
    BY <1>0, <1>1, <2>1, <2>4, <2>5 DEF Wires
  <2>7. FirstIsOpen(r) /\ r.state \in DownFrom(s.state) /\ r.wss >= s.wss
    BY <1>0, <1>1, <2>4 DEF DownFrom, FirstIsOpen
  <2>. QED  BY <1>1, <2>4, <2>6, <2>7 DEF r
<1>2. CASE /\ s.state \in {"PendingConnect", "PendingInvite", "PendingReconnect"}
           /\ ~ (/\ s.state = "PendingConnect" /\ inTime
                 /\ s.retries + 1 < CONNECT_MAX_RETRIES)
  <2>1. r = EnterFinal(s, "Failed")
    BY <1>2 DEF ChannelDown
  <2>2. Wires(r) /\ FirstIsOpen(r)
    BY <1>2, <2>1, EnterFinalWires DEF Final
  <2>3. r.state = "Failed" /\ r.wss = s.wss /\ r.virtual = s.virtual /\ r.sent = s.sent
    BY <1>0, <2>1, EnterFinalFields DEF Final
  <2>. HIDE DEF r
  <2>. QED  BY <1>0, <1>2, <2>2, <2>3 DEF DownFrom, r
<1>3. CASE s.state = "Talking"
  <2>. DEFINE n == NewSocket(s)
  <2>2. /\ n \in Channel /\ n.wss = s.wss + 1 /\ n.state = s.state
        /\ n.retries = s.retries /\ n.virtual = s.virtual /\ n.sent = s.sent
        /\ n.sock = [s.sock EXCEPT ![s.wss + 1] = "connecting"]
    BY <1>0, <1>3, NewSocketFields
  <2>. HIDE DEF n
  <2>3. r = [n EXCEPT !.state = "PendingReconnect"]
    BY <1>3 DEF ChannelDown, n
  <2>. HIDE DEF r
  <2>4. /\ r \in Channel /\ r.wss = s.wss + 1 /\ r.state = "PendingReconnect"
        /\ r.sock = n.sock /\ r.retries = s.retries /\ r.virtual = s.virtual
        /\ r.sent = s.sent
    BY <2>2, <2>3 DEF Channel, SignalingStates
  <2>5. ASSUME NEW w \in Sockets, w > r.wss PROVE r.sock[w] = "none"
    BY <1>0, <2>2, <2>4, <2>5, ChannelFields DEF Wires, Sockets
  <2>6. Wires(r)
    BY <1>0, <1>3, <2>4, <2>5 DEF Wires
  <2>. QED  BY <1>0, <1>3, <2>4, <2>6 DEF DownFrom, FirstIsOpen, r
<1>4. CASE s.state = "PendingLocalHangup"
  <2>1. r = EnterFinal(s, "Disconnected")
    BY <1>4 DEF ChannelDown
  <2>2. Wires(r) /\ FirstIsOpen(r)
    BY <1>4, <2>1, EnterFinalWires DEF Final
  <2>3. /\ r.state = "Disconnected" /\ r.wss = s.wss /\ r.virtual = s.virtual
        /\ r.sent = s.sent
    BY <1>0, <2>1, EnterFinalFields DEF Final
  <2>. HIDE DEF r
  <2>. QED  BY <1>0, <1>4, <2>2, <2>3 DEF DownFrom, r
<1>5. CASE s.state \notin {"PendingConnect", "PendingInvite", "PendingReconnect",
                           "Talking", "PendingLocalHangup"}
  <2>1. r = s
    BY <1>5 DEF ChannelDown
  <2>. HIDE DEF r
  <2>. QED  BY <1>0, <1>5, <2>1 DEF DownFrom, FirstIsOpen, r
<1>. QED  BY <1>1, <1>2, <1>3, <1>4, <1>5

\* Closing a socket keeps the order.
LEMMA CloseSocketWires ==
  ASSUME NEW s, Wires(s), NEW w \in Sockets, w <= s.wss,
         NEW x \in {"open", "closed"}
  PROVE  /\ Wires([s EXCEPT !.sock[w] = x])
         /\ [s EXCEPT !.sock[w] = x].state = s.state
         /\ [s EXCEPT !.sock[w] = x].wss = s.wss
         /\ [s EXCEPT !.sock[w] = x].retries = s.retries
         /\ [s EXCEPT !.sock[w] = x].virtual = s.virtual
         /\ [s EXCEPT !.sock[w] = x].sent = s.sent
         /\ [s EXCEPT !.sock[w] = x].sock = [s.sock EXCEPT ![w] = x]
<1>. DEFINE r == [s EXCEPT !.sock[w] = x]
<1>1. [s.sock EXCEPT ![w] = x] \in [Sockets -> SocketStates]
  BY ChannelFields DEF Wires, SocketStates
<1>2. /\ r \in Channel /\ r.state = s.state /\ r.wss = s.wss /\ r.retries = s.retries
      /\ r.virtual = s.virtual /\ r.sent = s.sent /\ r.sock = [s.sock EXCEPT ![w] = x]
  BY <1>1 DEF Wires, Channel
<1>. HIDE DEF r
<1>3. ASSUME NEW v \in Sockets, v > r.wss PROVE r.sock[v] = "none"
  BY <1>2, <1>3, ChannelFields DEF Wires, Sockets
<1>4. Wires(r)
  BY <1>2, <1>3 DEF Wires
<1>. QED  BY <1>2, <1>4 DEF r

LEMMA SocketGoneStep ==
  ASSUME NEW s, Wires(s), ~s.virtual, s.state = "Talking" => s.wss < MaxSockets,
         NEW w \in Sockets, w <= s.wss,
         NEW abnormal \in BOOLEAN, NEW inTime \in BOOLEAN
  PROVE  /\ Wires(SocketGone(s, w, abnormal, inTime))
         /\ FirstIsOpen(SocketGone(s, w, abnormal, inTime))
         /\ SocketGone(s, w, abnormal, inTime).state \in DownFrom(s.state)
         /\ SocketGone(s, w, abnormal, inTime).sent = s.sent
         /\ ~SocketGone(s, w, abnormal, inTime).virtual
         /\ SocketGone(s, w, abnormal, inTime).wss >= s.wss
<1>. DEFINE gone == [s EXCEPT !.sock[w] = "closed"]
            once == ChannelDown(gone, inTime)
            twice == ChannelDown(once, inTime)
<1>1. /\ Wires(gone) /\ gone.state = s.state /\ gone.wss = s.wss
      /\ gone.virtual = s.virtual /\ gone.sent = s.sent
  BY CloseSocketWires
<1>. HIDE DEF gone
<1>2. /\ Wires(once) /\ FirstIsOpen(once) /\ once.state \in DownFrom(s.state)
      /\ once.state # "Talking" /\ once.sent = s.sent /\ ~once.virtual
      /\ once.wss >= s.wss
  BY <1>1, ChannelDownStep
<1>. HIDE DEF once
<1>3. /\ Wires(twice) /\ FirstIsOpen(twice) /\ twice.state \in DownFrom(once.state)
      /\ twice.sent = s.sent /\ ~twice.virtual /\ twice.wss >= once.wss
  BY <1>2, ChannelDownStep
<1>. HIDE DEF twice
<1>4. twice.state \in DownFrom(s.state) /\ twice.wss >= s.wss
  <2>1. once.wss \in Nat /\ twice.wss \in Nat /\ s.wss \in Nat
    BY <1>2, <1>3, ChannelFields DEF Wires
  <2>. QED  BY <2>1, <1>2, <1>3 DEF DownFrom
<1>5. SocketGone(s, w, abnormal, inTime) = IF abnormal THEN twice ELSE once
  BY DEF SocketGone, gone, once, twice
<1>. QED  BY <1>2, <1>3, <1>4, <1>5

-----------------------------------------------------------------------------
(* The other handlers.                                                     *)

LEMMA ConnectChannelStep ==
  ASSUME NEW s, Wires(s), s.state = "none"
  PROVE  /\ Wires(ConnectChannel(s)) /\ FirstIsOpen(ConnectChannel(s))
         /\ ConnectChannel(s).state = "PendingConnect"
         /\ ConnectChannel(s).sent = s.sent
<1>. DEFINE n == NewSocket(s)
            r == ConnectChannel(s)
<1>1. s \in Channel /\ s.wss = 0 /\ s.retries = 0 /\ s.wss < MaxSockets
  BY SocketsAssumption DEF Wires
<1>2. /\ n \in Channel /\ n.wss = 1 /\ n.retries = 0 /\ n.virtual = s.virtual
      /\ n.sent = s.sent /\ n.sock = [s.sock EXCEPT ![1] = "connecting"]
  BY <1>1, NewSocketFields
<1>. HIDE DEF n
<1>3. r = [n EXCEPT !.state = "PendingConnect"]
  BY DEF ConnectChannel, n
<1>. HIDE DEF r
<1>4. /\ r \in Channel /\ r.state = "PendingConnect" /\ r.wss = 1 /\ r.retries = 0
      /\ r.virtual = s.virtual /\ r.sent = s.sent /\ r.sock = n.sock
  BY <1>2, <1>3 DEF Channel, SignalingStates
<1>5. ASSUME NEW w \in Sockets, w > r.wss PROVE r.sock[w] = "none"
  BY <1>1, <1>2, <1>4, <1>5, ChannelFields DEF Wires, Sockets
<1>6. Wires(r) /\ FirstIsOpen(r)
  BY <1>4, <1>5 DEF Wires, FirstIsOpen, CONNECT_MAX_RETRIES
<1>. QED  BY <1>4, <1>6 DEF r

\* A channel that only changes its state.
LEMMA MoveStep ==
  ASSUME NEW s, Wires(s), s.state # "none", NEW x \in SignalingStates \ {"none"},
         x \in {"PendingConnect", "PendingInvite", "PendingAnswer"} =>
           s.wss = s.retries + 1,
         x = "PendingReconnect" => s.wss > 1 /\ ~s.virtual
  PROVE  /\ Wires([s EXCEPT !.state = x])
         /\ [s EXCEPT !.state = x].state = x
         /\ [s EXCEPT !.state = x].retries = s.retries
         /\ [s EXCEPT !.state = x].virtual = s.virtual
         /\ [s EXCEPT !.state = x].wss = s.wss
         /\ [s EXCEPT !.state = x].sock = s.sock
         /\ [s EXCEPT !.state = x].sent = s.sent
<1>. DEFINE r == [s EXCEPT !.state = x]
<1>1. /\ r \in Channel /\ r.state = x /\ r.retries = s.retries /\ r.virtual = s.virtual
      /\ r.wss = s.wss /\ r.sock = s.sock /\ r.sent = s.sent
  BY ChannelUpdates DEF Wires
<1>. HIDE DEF r
<1>2. Wires(r)
  BY <1>1 DEF Wires
<1>. QED  BY <1>1, <1>2 DEF r

\* A message: taken by an open socket, by the application's manager, or lost.
LEMMA SendStep ==
  ASSUME NEW s, Wires(s), NEW m \in RpcMessages
  PROVE  /\ Wires(Send(s, m))
         /\ Send(s, m).state = s.state
         /\ Send(s, m).retries = s.retries
         /\ Send(s, m).virtual = s.virtual
         /\ Send(s, m).wss = s.wss
         /\ Send(s, m).sock = s.sock
         /\ Send(s, m).sent = IF s.virtual \/ s.sock[s.wss] = "open"
                                THEN s.sent \union {m} ELSE s.sent
<1>. DEFINE r == Send(s, m)
<1>1. /\ r \in Channel /\ r.state = s.state /\ r.retries = s.retries
      /\ r.virtual = s.virtual /\ r.wss = s.wss /\ r.sock = s.sock
      /\ r.sent = IF s.virtual \/ s.sock[s.wss] = "open"
                    THEN s.sent \union {m} ELSE s.sent
  BY DEF Send, Channel, Wires
<1>. HIDE DEF r
<1>2. Wires(r)
  BY <1>1 DEF Wires
<1>. QED  BY <1>1, <1>2 DEF r

\* Where open may leave a channel.
OpenFrom(a) ==
  CASE a = "PendingConnect"   -> "PendingInvite"
    [] a = "PendingReconnect" -> "Talking"
    [] OTHER                  -> a

LEMMA OnOpenStep ==
  ASSUME NEW s, Wires(s), FirstIsOpen(s), s.state # "none", NEW w \in Sockets,
         s.sock[w] = "connecting"
  PROVE  LET r == OnOpen([s EXCEPT !.sock[w] = "open"]) IN
         /\ Wires(r) /\ FirstIsOpen(r)
         /\ r.state = OpenFrom(s.state)
         /\ r.sent = s.sent /\ r.virtual = s.virtual /\ r.wss = s.wss
         /\ r.retries = s.retries
<1>. DEFINE o == [s EXCEPT !.sock[w] = "open"]
            r == OnOpen(o)
<1>1. w <= s.wss /\ w \in Nat /\ s.wss \in Nat
  BY ChannelFields DEF Wires, Sockets
<1>2. /\ Wires(o) /\ o.state = s.state /\ o.wss = s.wss /\ o.retries = s.retries
      /\ o.virtual = s.virtual /\ o.sent = s.sent /\ o.sock = [s.sock EXCEPT ![w] = "open"]
  BY <1>1, CloseSocketWires
<1>. HIDE DEF o
<1>3. r = [o EXCEPT !.state = OpenFrom(s.state)]
  BY <1>2 DEF OnOpen, OpenFrom
<1>4. OpenFrom(s.state) \in SignalingStates \ {"none"}
  BY ChannelFields DEF OpenFrom, Wires, SignalingStates
<1>5. /\ OpenFrom(s.state) \in {"PendingConnect", "PendingInvite", "PendingAnswer"} =>
           s.wss = s.retries + 1
      /\ OpenFrom(s.state) = "PendingReconnect" => s.wss > 1 /\ ~s.virtual
  BY DEF OpenFrom, Wires
<1>. HIDE DEF r
<1>6. /\ Wires(r) /\ r.state = OpenFrom(s.state) /\ r.sent = s.sent
      /\ r.virtual = s.virtual /\ r.wss = s.wss /\ r.retries = s.retries
      /\ r.sock = [s.sock EXCEPT ![w] = "open"]
  BY <1>2, <1>3, <1>4, <1>5, MoveStep
<1>7. FirstIsOpen(r)
  <2>. SUFFICES ASSUME r.state \in {"PendingInvite", "Talking"}, s.wss = 1
                PROVE  r.sock[1] = "open"
    BY <1>6 DEF FirstIsOpen
  <2>1. CASE s.state \in {"PendingInvite", "Talking"}
    BY <1>1, <1>6, <2>1, ChannelFields DEF FirstIsOpen, Wires
  <2>2. CASE s.state = "PendingConnect"
    <3>1. w = 1
      BY <1>1 DEF Sockets
    <3>2. s.sock \in [Sockets -> SocketStates]
      BY ChannelFields DEF Wires
    <3>. QED  BY <1>6, <3>1, <3>2
  <2>3. CASE s.state = "PendingReconnect"
    BY <2>3 DEF Wires
  <2>. QED  BY <1>6, <2>1, <2>2, <2>3 DEF OpenFrom
<1>. QED  BY <1>6, <1>7 DEF r, o

LEMMA InviteChannelStep ==
  ASSUME NEW s, Wires(s), FirstIsOpen(s)
  PROVE  LET r == InviteChannel(s) IN
         /\ Wires(r) /\ FirstIsOpen(r)
         /\ s.state = "PendingInvite" => r.state \in {"PendingInvite", "PendingAnswer"}
         /\ s.state = "PendingInvite" /\ r.state = "PendingInvite" =>
              r.retries > 0 /\ ~r.virtual
         /\ s.state # "PendingInvite" => r = s
<1>1. CASE s.state = "PendingInvite" /\ CanSend(s)
  <2>. DEFINE m == Send(s, "invite")
              r == InviteChannel(s)
  <2>1. Wires(m) /\ m.state = s.state /\ m.wss = s.wss /\ m.retries = s.retries
    BY SendStep DEF RpcMessages
  <2>. HIDE DEF m
  <2>2. r = [m EXCEPT !.state = "PendingAnswer"]
    BY <1>1 DEF InviteChannel, m
  <2>. HIDE DEF r
  <2>3. m.wss = m.retries + 1
    BY <1>1, <2>1 DEF Wires
  <2>4. Wires(r) /\ r.state = "PendingAnswer"
    BY <1>1, <2>1, <2>2, <2>3, MoveStep DEF SignalingStates
  <2>. QED  BY <1>1, <2>4 DEF FirstIsOpen, r
<1>2. CASE s.state = "PendingInvite" /\ ~CanSend(s)
  <2>1. ~s.virtual /\ s.sock[s.wss] = "connecting" /\ s.wss = s.retries + 1
    BY <1>2 DEF CanSend, Wires
  <2>2. s.wss # 1
    BY <1>2, <2>1 DEF FirstIsOpen
  <2>3. s.retries > 0
    BY <2>1, <2>2, ChannelFields DEF Wires
  <2>. QED  BY <1>2, <2>1, <2>3 DEF InviteChannel
<1>3. CASE s.state # "PendingInvite"
  BY <1>3 DEF InviteChannel
<1>. QED  BY <1>1, <1>2, <1>3

LEMMA AcceptChannelStep ==
  ASSUME NEW s, Wires(s), s.state = "PendingAnswer", s.sock[s.wss] = "open"
  PROVE  LET r == AcceptChannel(s) IN
         /\ Wires(r) /\ FirstIsOpen(r) /\ r.state = "Talking"
         /\ r.sent = s.sent \union {"accept"} /\ r.wss = s.wss /\ r.virtual = s.virtual
<1>. DEFINE m == Send(s, "accept")
            r == AcceptChannel(s)
<1>1. /\ Wires(m) /\ m.state = s.state /\ m.wss = s.wss /\ m.retries = s.retries
      /\ m.sock = s.sock /\ m.sent = s.sent \union {"accept"} /\ m.virtual = s.virtual
  BY SendStep DEF RpcMessages
<1>. HIDE DEF m
<1>2. r = [m EXCEPT !.state = "Talking"]
  BY DEF AcceptChannel, m
<1>. HIDE DEF r
<1>3. /\ Wires(r) /\ r.state = "Talking" /\ r.sent = m.sent /\ r.wss = s.wss
      /\ r.sock = s.sock /\ r.virtual = s.virtual
  BY <1>1, <1>2, MoveStep DEF SignalingStates
<1>4. FirstIsOpen(r)
  BY <1>3 DEF FirstIsOpen
<1>. QED  BY <1>1, <1>3, <1>4 DEF r

LEMMA RemoteByeStep ==
  ASSUME NEW s, Wires(s), FirstIsOpen(s)
  PROVE  LET r == RemoteBye(s) IN
         /\ Wires(r) /\ FirstIsOpen(r)
         /\ s.state = "Talking" => r.state = "PendingLocalHangup"
         /\ s.state = "PendingRemoteHangup" => r.state = "Disconnected"
         /\ s.state \notin {"Talking", "PendingRemoteHangup"} => r = s
         /\ r.sent = s.sent /\ r.wss = s.wss /\ r.virtual = s.virtual
<1>. DEFINE r == RemoteBye(s)
<1>1. CASE s.state = "Talking"
  <2>1. r = [s EXCEPT !.state = "PendingLocalHangup"]
    BY <1>1 DEF RemoteBye
  <2>. HIDE DEF r
  <2>2. /\ Wires(r) /\ r.state = "PendingLocalHangup" /\ r.sent = s.sent /\ r.wss = s.wss
        /\ r.virtual = s.virtual
    BY <1>1, <2>1, MoveStep DEF SignalingStates
  <2>. QED  BY <1>1, <2>2 DEF FirstIsOpen, r
<1>2. CASE s.state = "PendingRemoteHangup"
  <2>1. r = EnterFinal(s, "Disconnected")
    BY <1>2 DEF RemoteBye
  <2>. QED  BY <1>2, <2>1, EnterFinalWires DEF Final
<1>3. CASE s.state \notin {"Talking", "PendingRemoteHangup"}
  BY <1>3 DEF RemoteBye
<1>. QED  BY <1>1, <1>2, <1>3

\* A hang-up is said, on a socket that may have been lost.
LEMMA HangupChannelStep ==
  ASSUME NEW s, Wires(s), FirstIsOpen(s), ~HangupThrows(s)
  PROVE  LET r == HangupChannel(s) IN
         /\ Wires(r) /\ FirstIsOpen(r)
         /\ s.state = "Talking" => r.state = "PendingRemoteHangup"
         /\ s.state = "Talking" => "bye" \in r.sent \/ (r.wss > 1 /\ ~r.virtual)
         /\ s.state = "PendingLocalHangup" => r.state = "Disconnected"
         /\ s.state \notin {"Talking", "PendingLocalHangup"} => r = s
         /\ s.sent \subseteq r.sent /\ r.wss = s.wss /\ r.virtual = s.virtual
<1>. DEFINE r == HangupChannel(s)
<1>1. CASE s.state = "Talking"
  <2>. DEFINE m == Send(s, "bye")
  <2>1. /\ Wires(m) /\ m.state = s.state /\ m.wss = s.wss /\ m.virtual = s.virtual
        /\ m.sent = IF s.virtual \/ s.sock[s.wss] = "open"
                      THEN s.sent \union {"bye"} ELSE s.sent
    BY SendStep DEF RpcMessages
  <2>. HIDE DEF m
  <2>2. r = [m EXCEPT !.state = "PendingRemoteHangup"]
    BY <1>1 DEF HangupChannel, m
  <2>. HIDE DEF r
  <2>3. /\ Wires(r) /\ r.state = "PendingRemoteHangup" /\ r.sent = m.sent
        /\ r.wss = s.wss /\ r.virtual = s.virtual
    BY <1>1, <2>1, <2>2, MoveStep DEF SignalingStates
  <2>4. s.wss # 1 => s.wss > 1
    BY <1>1, ChannelFields DEF Wires
  <2>5. "bye" \in r.sent \/ (r.wss > 1 /\ ~r.virtual)
    BY <1>1, <2>1, <2>3, <2>4 DEF FirstIsOpen
  <2>. QED  BY <1>1, <2>1, <2>3, <2>5 DEF FirstIsOpen, r
<1>2. CASE s.state = "PendingLocalHangup"
  <2>. DEFINE m == Send(s, "byeResult")
  <2>1. /\ Wires(m) /\ m.state = s.state /\ m.wss = s.wss /\ m.virtual = s.virtual
        /\ s.sent \subseteq m.sent
    BY SendStep DEF RpcMessages
  <2>. HIDE DEF m
  <2>2. r = EnterFinal(m, "Disconnected")
    BY <1>2 DEF HangupChannel, m
  <2>. HIDE DEF r
  <2>3. /\ Wires(r) /\ FirstIsOpen(r) /\ r.state = "Disconnected" /\ r.sent = m.sent
        /\ r.wss = s.wss /\ r.virtual = s.virtual
    BY <1>2, <2>1, <2>2, EnterFinalWires DEF Final
  <2>. QED  BY <1>2, <2>1, <2>3 DEF r
<1>3. CASE s.state \notin {"Talking", "PendingLocalHangup"}
  BY <1>3 DEF HangupChannel
<1>. QED  BY <1>1, <1>2, <1>3
=============================================================================
