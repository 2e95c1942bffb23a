----------------------------- MODULE RtcSignaling -----------------------------
(***************************************************************************)
(* The V1 signaling channel (src/src/signaling.js) of a session without a  *)
(* connection manager, and the websockets it opens.  The channel is a      *)
(* record; every handler of its states is an operator from the record      *)
(* before to the record after, because the session runs it in the middle   *)
(* of its own handlers.                                                    *)
(*                                                                         *)
(* A channel keeps every socket it ever created: _connect and _reconnect   *)
(* replace _wss, but the handlers of the older sockets stay attached and   *)
(* call the current state (lines 856-884, 915-917).                        *)
(***************************************************************************)
EXTENDS Naturals

CONSTANT
  MaxSockets           \* bound on the websockets one channel creates

\* connect() alone may create as many as CONNECT_MAX_RETRIES.
ASSUME SocketsAssumption == MaxSockets \in Nat /\ MaxSockets >= 3

CONNECT_MAX_RETRIES == 3

Sockets == 1..MaxSockets

\* PendingAccept is left within the handler that enters it; "none" is a channel
\* that has not been created.
SignalingStates ==
  {"none", "PendingConnect", "PendingInvite", "PendingAnswer", "Talking",
   "PendingReconnect", "PendingRemoteHangup", "PendingLocalHangup",
   "Disconnected", "Failed"}

SocketStates == {"none", "connecting", "open", "closed"}
RpcMessages  == {"invite", "accept", "bye", "byeResult"}

Channel ==
  [state   : SignalingStates,
   retries : 0..CONNECT_MAX_RETRIES,
   virtual : BOOLEAN,                  \* over the application's websocket manager
   wss     : 0..MaxSockets,            \* _wss: the newest socket
   sock    : [Sockets -> SocketStates],
   sent    : SUBSET RpcMessages]       \* messages an open socket took

NoChannel(isVirtual) ==
  [state |-> "none", retries |-> 0, virtual |-> isVirtual, wss |-> 0,
   sock |-> [w \in Sockets |-> "none"], sent |-> {}]

Final == {"Disconnected", "Failed"}

-----------------------------------------------------------------------------
(* Sockets.                                                                *)

\* _connectWebSocket: a new socket becomes _wss.
NewSocket(s) ==
  [s EXCEPT !.wss = s.wss + 1, !.sock[s.wss + 1] = "connecting"]

\* WebSocket.send throws while the socket is connecting; the virtual one
\* hands every message to the application's manager.
CanSend(s) == s.virtual \/ s.sock[s.wss] # "connecting"

\* Sending on a socket that has closed loses the message in silence.
Send(s, m) ==
  [s EXCEPT !.sent = IF s.virtual \/ s.sock[s.wss] = "open"
                       THEN @ \union {m} ELSE @]

\* onEnter of DisconnectedState and, without a manager, of FailedState: _wss is
\* closed, and only _wss.
EnterFinal(s, final) == [s EXCEPT !.state = final, !.sock[s.wss] = "closed"]

-----------------------------------------------------------------------------
(* The handlers of the states.                                             *)

\* connect()
ConnectChannel(s) == [NewSocket(s) EXCEPT !.state = "PendingConnect"]

\* onOpen.  Every state but these two throws UnsupportedOperation.
OnOpen(s) ==
  [s EXCEPT !.state = CASE @ = "PendingConnect"   -> "PendingInvite"
                        [] @ = "PendingReconnect" -> "Talking"
                        [] OTHER                  -> @]

\* channelDown, which onError and onClose of any socket call.  inTime: the
\* connect timeout, measured from the first attempt, has not passed.
\* PendingAnswer and PendingRemoteHangup throw, the final states do nothing.
ChannelDown(s, inTime) ==
  LET again == s.state = "PendingConnect" /\ inTime
                 /\ s.retries + 1 < CONNECT_MAX_RETRIES IN
  CASE again -> [NewSocket(s) EXCEPT !.retries = @ + 1]
    [] s.state \in {"PendingConnect", "PendingInvite", "PendingReconnect"} /\ ~again ->
         EnterFinal(s, "Failed")
    [] s.state = "Talking" -> [NewSocket(s) EXCEPT !.state = "PendingReconnect"]
    [] s.state = "PendingLocalHangup" -> EnterFinal(s, "Disconnected")
    [] OTHER -> s

\* A socket that fails fires error and close in one task, each of which calls
\* channelDown; one that is closed in order fires close alone.
SocketGone(s, w, abnormal, inTime) ==
  LET gone == [s EXCEPT !.sock[w] = "closed"] IN
  IF abnormal THEN ChannelDown(ChannelDown(gone, inTime), inTime)
              ELSE ChannelDown(gone, inTime)

\* The states that set a timer and fail when it expires.
TimedStates ==
  {"PendingConnect", "PendingAnswer", "PendingReconnect", "PendingRemoteHangup"}

\* PendingInviteState.invite: nothing changes when send throws.
InviteChannel(s) ==
  IF s.state = "PendingInvite" /\ CanSend(s)
    THEN [Send(s, "invite") EXCEPT !.state = "PendingAnswer"] ELSE s

\* PendingAnswerState.onRpcMsg with a result, after the session was told:
\* PendingAcceptState sends ACCEPT and gives way to TalkingState.
AcceptChannel(s) == [Send(s, "accept") EXCEPT !.state = "Talking"]

\* onRpcMsg with the server's BYE; PendingAnswerState ignores it.
RemoteBye(s) ==
  CASE s.state = "Talking"             -> [s EXCEPT !.state = "PendingLocalHangup"]
    [] s.state = "PendingRemoteHangup" -> EnterFinal(s, "Disconnected")
    [] OTHER                           -> s

\* hangup() throws: send on a connecting socket, or FailedState.bye, which
\* reads _pcm without a manager.
HangupThrows(s) ==
  \/ s.state = "Failed"
  \/ s.state \in {"Talking", "PendingLocalHangup"} /\ ~CanSend(s)

\* Mutant: the BYE is not sent.
HangupChannel_Silent(s) ==
  CASE s.state = "Talking" -> [s EXCEPT !.state = "PendingRemoteHangup"]
    [] s.state = "PendingLocalHangup" ->
         EnterFinal(Send(s, "byeResult"), "Disconnected")
    [] OTHER -> s

\* hangup() of a channel that was accepted; the states not named do nothing.
HangupChannel(s) ==
  CASE s.state = "Talking" ->
         [Send(s, "bye") EXCEPT !.state = "PendingRemoteHangup"]
    [] s.state = "PendingLocalHangup" ->
         EnterFinal(Send(s, "byeResult"), "Disconnected")
    [] OTHER -> s
=============================================================================
