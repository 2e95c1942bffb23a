# A verification project for connect-rtc-js

`connect-rtc-js` runs in an agent's browser and carries the voice legs of Amazon
Connect calls. It opens a WebRTC peer connection to a media server, negotiates it
over a websocket, and keeps the connection (and a spare one) between calls. All of
its code is asynchronous JavaScript on one thread: what interleaves are promise
continuations, timers, websocket messages, browser events and calls of the
application. This directory holds TLA+ models of its state machines, the TLC runs
that check them on small instances, and TLAPS proofs of their safety for every
instance.

Two generations of the stack live side by side. V1 (`rtc_session.js`,
`signaling.js`, `rtc_peer_connection_manager.js`) has one session per call. V2
(`rtc_peer_connection_manager_v2.ts`, `call_session.js`,
`shared_media_session.js`, `shared_media_signaling.js`) shares one media session
between calls. V2 is the current path; both are modelled.

`src/release/` holds two bundles of 23,500 lines each that the build makes of
`src/src/`. They are the same code once more, with its dependencies; the models refer
to `src/src/` only.

## 1. Inventory

| Part (under `src/src/`) | State it keeps | Operations | What is hard |
|---|---|---|---|
| Shared media session, `shared_media_session.js` | one state object of eight kinds, `_pc`, `_localStream`, `_isUserProvidedStream`, candidates, `_signalingChannel` | `connect`, `hangup`, the media stream setters, ICE restart, microphone control, pause/resume | each state starts a promise that may settle after the state was left or after a second `connect()` |
| Shared media signaling, `shared_media_signaling.js` | one state of nine kinds per channel, a timer per waiting state | `connect`, `invite`, `accept`, `hangup`, `inviteForIceRestart` | several channels share one websocket and one listener; timers outlive their channel's turn |
| Peer connection manager V2, `rtc_peer_connection_manager_v2.ts` | `_callSessions`, `_sharedMediaSession`, `_inactivityTimer`, `_peerConnectionId`, settings, `_closed` | `createSession`, `connect`, `hangup`, `destroy`, `close`, toggle, FAC update, page-load setup, microphone | methods await twice and more while calls, timers, `PC_BYE` and settings change what they rely on |
| Call session, `call_session.js` | one state of five kinds | `connect`, `hangup`, callbacks of the media session | a call may be hung up in any state of the media session |
| Standby connection, `standby_peer_connection_manager.ts` | `_standbyPc`, `_pendingRequest`, a timer id, an interval id | request, refresh, offline check, consume, close | creation is asynchronous, and ids of running timers are overwritten |
| ICE restart, `shared_media_session_talking_substates.js` | substate of Talking, a timer id in two of them, a retry count | restart, collect, invite, retry, accept, give up | `setSubState` has no guard, restarts overlap, timers lose their ids, every INVITE opens another channel |
| Signaling channel manager, `signaling_channel_manager.js` | listener table, one websocket | `registerListener`, `send`, dispatch | `send` swallows errors; every message goes to the last listener |
| Credential resolver, `credential_resolver.ts` | the URL the API last answered with, whether the one-time fetch was tried | `getIceCredentialsForCall`, the standby connection's fetch | a one-second race in whose middle other requests ask and answer; what one answer says decides for the next caller |
| V1 session and signaling, `rtc_session.js`, `signaling.js` | a state object each, `_pc`, `_localStream`, `_wss`, retries, timers | `connect`, `hangup`, websocket events, RPC messages | a failed socket fires two events, replaced sockets keep their handlers, and a handler that throws leaves half of the work done |
| V1 manager, `rtc_peer_connection_manager.js` | `_rtcSession`, `_pc`, `_idlePc`, `_signalingChannel`, `_rtcSessionConnectPromise`, `_contactToken`, timers, two mode flags | `createSession`, `connect`, `hangup`, `destroy`, toggle, `close`, requests of connections | manager, sessions and channels null each other's fields; sessions without a call are set up ahead of time while calls arrive |
| V1 factory, `rtc_peer_connection_factory.js` | `_idlePc`, its refresh timer, a request in flight, `_closed` | `get`, `close`, refresh, server messages, offline check | a connection handed out must escape timer, messages and close |
| VDI strategies, `strategies/` | vendor SDK handles | create peer connection, `getUserMedia`, set remote description | mostly delegation |
| Reports, statistics, helpers | measured values | recording, string processing | no control depends on them |

How they interact. The application calls the manager. The manager creates a call
session per call and at most one shared media session; it takes a peer connection
from the standby manager or a new one and hands it to `session.connect(pc)`. The
media session asks the strategy for media and descriptions (promises), opens a
signaling channel, and calls the manager back (`onSessionConnected`,
`onSessionFailed`, ...); the manager then tells the call sessions. The signaling
channel manager delivers each websocket message to the channel listening last. The
session and its channel call each other synchronously, the manager and the session
as well; everything else is a task of the event loop.

What makes each part correct:

- *session*: setup ends; callbacks come in order and once per attempt; nothing late
  revives an ended session; the channel is where the session believes it is; the
  server is told when a conversation ends; peer connection and streams are released;
- *manager*: no live session but the one it holds; a kept call has a session and an
  outcome; an idle connection is timed; the microphone of an idle connection is off;
- *standby*: the spare connection is refreshed; one that was handed out is left alone;
- *ICE restart*: bounded INVITEs, one outcome per restart, and always back to where the
  next loss of the connection is noticed;
- *microphone*: the track that mute acts on is the one transmitted, and it is open exactly
  when the agent wants it to be;
- *credentials*: servers of another region are noticed as soon as the own region is known,
  and nobody with usable servers waits for the API;
- *V1 session*: the channel is where the session believes it is whatever its sockets do,
  callbacks come in V2's order, the end releases what the session holds;
- *V1 manager*: a conversation can be hung up, runs over the connection it was negotiated
  for, and a call that waits for another session waits for something to come;
- *V1 factory*: every connection has one holder.

Every place where this code is exposed to such a fault is listed with its line under
`hazards` in `PROJECT.json`.

## 2. Modules

| Module | Models | Runs |
|---|---|---|
| `SessionLifecycle` | abstract: the order of callbacks a media session promises | as a property of `session_one`, `session_two`, `rtc_call` |
| `SharedMediaSession` | V2 media session and all its signaling channels | `session_*` |
| `PeerConnectionManagerV2` | manager and its call sessions, over the abstract media session | `manager_*` |
| `StandbyPeerConnectionManager` | the standby connection, with the manager as environment | `ice_access` |
| `CredentialResolver` | where a call's ICE servers come from | `ice_access` |
| `IceAccess` | composes the two: standby connection and calls share the resolver | `ice_access` |
| `IceRestart` | the substates of a talking session and the channels they open | `ice_restart` |
| `LocalAudio` | the microphone of a connected session, across its awaits | `local_audio` |
| `RtcSignaling` | V1 channel and its websockets, as operators on a record | `rtc_*` |
| `RtcSession` | V1 session without a manager, over `RtcSignaling` | `rtc_*` |
| `RtcPeerConnectionFactory` | V1 factory | `rtc_call` |
| `RtcCall` | composes session and factory into a V1 call | `rtc_call` |
| `RtcPeerConnectionManager` | V1 manager with its sessions and channels | `v1_manager*` |
| `SharedMediaSessionProofs`, `PeerConnectionManagerV2Proofs`, `IceAccessProofs`, `IceRestartProofs`, `LocalAudioProofs`, `RtcSignalingProofs`, `RtcCallProofs`, `RtcPeerConnectionManagerProofs` | theorems and lemmas about the module of that name, `IceAccessProofs` also about `StandbyPeerConnectionManager` | |

The parameters are plain constants with values in the `.cfg` files, so the modules
are checked directly and need no MC module. Definitions with a suffix and the comment
"Mutant" are not part of a specification: each is a plausible bug in one handler, kept
beside it to show that the property named in `PROJECT.json` would notice.

### SharedMediaSession

One action is one task of the event loop: a timer, a promise continuation, a websocket
message or an API call, with everything session *and* channel do before control returns.
`state` and `attempt` together are the code's state object, whose identity `transit()`
compares; `jobs` are the promises in flight, each tagged with the attempt that started it,
so that a promise may settle at any later time. `chan` holds a state for each channel ever
created, since a timer of an old channel still runs; `channel` is both `_signalingChannel`
and the one listener of the websocket. `sent`, `replied` and `byed` are what crossed the
wire: a message may arrive at any time after it was caused, or never, which also stands
for a `send()` that failed, and messages overtake each other. `sdpless` are the channels
whose answer had no sdp: `getRedactedSdp` throws where the answer is logged, before the
session hears of it, the promise around it swallows that, and the channel accepts
(`NotifyAnswered`). The session is then `Forsaken`: it waits for an answer its channel has
had. `told` and `hungUp` are history: callbacks made, and who ended the attempt.

Abstractions. `pc` and streams are named by the attempt that brought them. Contents of
descriptions and candidates are reduced to three kinds of answer (usable, unusable for its
empty sdp or missing candidates, without an sdp) and "sufficient candidate".
The flags for signaling-connected and handshaked are set within the handlers that
rely on them. `replaceStreamCallback` is taken as absent, as it is in V2. Callbacks of
the application are assumed not to throw. `channelDown()` is left out: only `onclose`
would call it and the shared channel has none. A second `connect()` on a session is
real: `createSession(c2)` and `connect(c2)` during the setup for `c1` do it, and so do
two awaits of the manager that overlap. Without the contents of descriptions, the late
`createOffer` that overwrites `_localSessionDescription` changes nothing here; it is
listed as a hazard.

### SessionLifecycle

Five phases and the callbacks: an attempt has one outcome, a conversation is completed
before it is replaced or destroyed, "destroyed" is last. An attempt the server accepts in
an answer the session never gets is "forsaken": it can end or be replaced, but need not.
`SharedMediaSession` maps its states to the phases and implements it. `LifecycleOrder` is
its safety part, `ImplementsLifecycle` all of it, the liveness "a setup that started is
not left hanging unless it is forsaken" included. The manager's module sees its media
sessions through the same phases; a forsaken one is to it one whose setup does not end.
`RtcSession` maps its states to them too: V1 keeps the order V2 promises.

### PeerConnectionManagerV2

`calls` is `_callSessions`, `sess` is `_sharedMediaSession`; `phase` and `sessPc`
are state of each media session ever created. A session is named after the call or page-load
setup that creates it, and so is a peer connection. Every `await` in `connect` and
`_setupPageLoadPersistentConnection` ends an action; `connecting` and `pageLoad` remember
which await each invocation is at. What a session reports comes at any time
`SessionLifecycle` allows.

Abstractions. `connect()` is called once per call. The allowlisting of a connection and
its inactivity duration arrive together; the duration is taken as positive exactly when
the connection is allowlisted. `ok` in `createSession` and `hangup` is the ICE and
signaling half of `isSharedMediaSessionHealthy`, which the browser decides. A null
connection from `_getIdleOrCreatePeerConnection` makes the session create its own and is
one case with a given one (where it comes from is `IceAccess`). The creation may reject,
since it ends in the strategy (`PcRejected`, `PageLoadPcRejected`), and it may never
answer. What is done to the microphone is in `LocalAudio`. `beforeunload` is `Destroy`.
Left out: the login popup, the Firefox check, statistics and reports. The application does
not start anything new on a closed manager; pending awaits still end. `MaxOrphans` bounds
how often a running inactivity timer is overwritten: the step that would exceed it is
disabled.

### StandbyPeerConnectionManager

Peer connections are numbered as they are created; `given` are those handed to calls and
`openPcs` those not closed. `orphans` are timers whose id has been overwritten: when one
fires it resets the id of the timer that is running, so that this one becomes the next
orphan. `.then` and `.finally` of a creation are one step, since nothing can come in
between that they look at. `Supported` is `isStandbyConnectionSupported`. Of the
manager's methods only what they do to the standby is there.

### IceRestart

The session starts in Talking. Restarts are numbered as they begin; `sub` and `restart`
are the substate object, `promise[r]` is what restart `r` waits for, and because
`setSubState` has no guard it moves the session whatever substate there is. `timers` are
the running timers the current substate has the id of, so that leaving it clears them;
`lossOrphans` and `retryOrphans` are those whose id was overwritten, which nothing clears.
`listener` is the state of `_signalingChannel`; of the channels before it only the timers
of those still waiting for an answer can do anything, and `waiting` counts them. When
the session ends with an INVITE unanswered, the channel's failure passes through the
substate first (`LastFailure`): a retry is counted and its timer cleared at once, but not
the timer whose id it overwrote. `reports`, `invites` and `goodbye` are history.

Abstractions. The session has a `peerConnectionToken`; without one none of this happens.
Contents of descriptions and candidates are abstracted as in `SharedMediaSession`.
Promises of a closed peer connection do not settle (WebRTC), the one of
`requestIceAccess`, which is the application's, may, and need not. An answer without an sdp
is accepted by the channel and not told to the substate, as in `SharedMediaSession`
(`sdpless`, `Forsaken`). The errors are "stale" (400 with "Stale Peer Connection"),
"giveUp" (Busy and Call not found), "denied" and the rest. `MaxRestarts` and `MaxOrphans`
bound the restarts and the ICE timers without id: the step that would exceed them is
disabled.

### CredentialResolver and IceAccess

A request is in one of four stages: not made, "probing" (it is the one that fetches the
API's URL, raced with a second), "fetching" (its servers come from the API) or done, with
the servers it got. `cached` and `tried` are the code's fields; `told` and `probe` are
history: the answers the API gave to anybody, recorded with a request when it is decided,
and what became of the request's own fetch of the URL. URLs are "home" (the agent's),
"foreign", or none; a contact brings one of them or no servers. Between `tried` and the
answer nobody else waits: the second caller compares with nothing and keeps the contact's
servers, and a call whose own fetch was refused or too late does so whatever others have
learnt meanwhile. That is what `ForeignIsCaught` says and allows for; a call whose fetch
was answered is held to it like any other. In `IceAccess` an answer to the standby
connection is learnt as well; a call asks only while there is no standby connection. An
API that answers with an empty list makes the resolver forget its URL. Filling the report
(`recordCredentialSource`) is left out. `StandbyPeerConnectionManager` is used by EXTENDS,
so its properties are checked, and proved, in the composition.

### LocalAudio

The session was connected with track 1; operation *i*, a device switch or a refresh,
acquires track *i* + 1 in two awaits, `getUserMedia` ("gum") and `replaceTrack`
("replace"), each of which may fail. `stream` is the list of tracks of `_localStream`,
whose first one `pauseLocalAudio` and `resumeLocalAudio` act on; `sender` is the track
the far end hears. The switch remembers the old track before its awaits, the refresh
looks for it afterwards: where the two overlap the one takes a track out that is no
longer there. `raced` and `overlapped` are history: the agent's wish changed after
an operation had read the state it carries over, and two operations were under way at
once. The properties are promised where neither happened; a hazard's note says what
happens otherwise. A `_pc` without an audio sender and streams of the application that
bring no track are left out.

### RtcSignaling and RtcSession

A V1 session calls its channel in the middle of its own handlers and is called back in
the channel's, so the channel is a record and each of its handlers an operator on it,
and one action of `RtcSession` is one event with everything both machines do. What
throws stops its handler there: `HangupThrows` leaves the session in Talking,
`CanSend` leaves the channel in PendingInvite, and an answer without an sdp reaches the
channel alone (`InviteAnsweredWithoutSdp`). A channel keeps all sockets it created,
in order: the handlers of the ones it replaced call the state it is in now. A socket
that fails fires `error` and `close`, each of which starts a connection. `sent` are
the messages an open socket took. `virtual` is a channel over the application's websocket
manager, whose socket is never lost. `jobs` are promises, as in `SharedMediaSession`,
without attempts because such a session is connected once. `hungUp`, `told` and `byed`
are history or the server's. With a manager the session behaves differently and is in
`RtcPeerConnectionManager`; ICE restart needs a manager too.

Abstractions. Contents are reduced as in V2. `MaxSockets` bounds sockets: three is what
`connect()` may create on its own, each further one is a reconnection; a talking session
on the last one does not lose it. Invitations are not retried (`INVITE_MAX_RETRIES` is
0). Callbacks of the application do not throw.

### RtcPeerConnectionFactory and RtcCall

The factory's fields, and for each connection what became of it. `timers` counts the refresh
timers that run and `timerKnown` says that the factory has the id of one: that they agree is
what the proof shows. In `RtcCall` the session gets its connection from `get()` or creates
its own, other sessions may call `get()` at any time, and timer, server messages, offline
check and `close()` go on during the call.

### RtcPeerConnectionManager

The whole of manager, sessions and channels is one record `m` and a handler is an operator
on it, because they null each other's fields in the middle of a handler. `ses` and `chan`
are sessions and channels by number, a channel having the number of the session that
created it; 0 is null. `pending` and `waiting` are `_rtcSessionConnectPromise` and the
promise a `connect()` awaits, `suspended` is the session whose `connect()` awaits the
agent's data, and `Resume` is the continuation that runs when a promise has settled. What
ends in an exception the code does not catch ends the handler there: an activation whose
`createSession` has just torn everything down and finds no ICE servers
(`ActivatedInVain`), a rejected wait that has no session to tell or no reason to tell it,
which leaves the session as it was created (`GiveUp`; the channel rejects with nothing, so
only what `connect()` itself threw is told), a contact that meets a channel which is not
idle (`ConnectContact`).

A session whose answer had no sdp is in a state of its own, "forsaken", which only the end
of the session or its channel's fate leaves.

`raced` is history: it names four overlaps after which the code is known not to keep
`TalksOnNegotiated`. A standby connection arrives in the persistent mode; an activation is
answered when a connection or a session is there already; a session is created while
another one has not ended; a channel the manager has let go of changes the mode. TLC finds
a violation for each of them; the last needs four sessions. `CallIsHeld` is broken by each
of the first three on its own and excepts only those: a change of mode does not break it,
with two sessions or (tried beside the runs) with three.

Abstractions. The setup of a session appears by the points at which it touches the
manager: candidates and signaling coming up are one step (`SignalingUp`), local media and
offer another. The channel runs over the virtual socket. Of the standby connection only
its timer and its request are there: `GetPc` takes a new number in either case. Whether
a virtual desktop has to be cleaned up is chosen at `createSession`. The application has
one call at a time, and closes the manager only without a call; the agent's data
arrives before signaling starts, and before a call that awaits it ends. Of two
`connect()` that wait for a promise only the first is looked at: no session is created
while one waits (`Free`). `Init` is a manager just constructed, or one between
two calls that is not persistent. Early media is supported and the browser not Firefox.
`beforeunload`, which destroys the connection of a page that goes away, is left out.
Connections nobody refers to, and sessions and channels that can do nothing more, are
forgotten (`Tidy`), which merges states that differ in nothing else. A new connection
takes a number nobody refers to (`NewPc`): sessions, channels and the manager refer to
2 `MaxSessions` + 1 connections at most, and an action creates two at most, so that
`MaxPcs` is no bound on the behaviour.

## 3. Runs

All bounds are in the `.cfg` files. Eight runs pass; the largest take two to three minutes.

| Run | Bounds, states | Shows |
|---|---|---|
| `session_one` | one `connect()`, `FairSpec`; 350 | `SetupTerminates`, and the full refinement of `SessionLifecycle` |
| `session_two` | two `connect()`; 36,000 | types, `SignalingFollowsSession`, `DisconnectedSaidGoodbye`, `EndedReleasesPeerConnection`, `EndedIsFinal`, `LifecycleOrder` |
| `manager_two` | two calls, a page-load setup, one orphaned timer, `FairSpec`; 430,000 | types, `LiveSessionIsCurrent`, `CallsHaveSession`, `SkippedContactIsInvited`, `IdleConnectionIsTimed`, `NoCallForgotten`, and `CallSettles`: every `connect()` has an outcome, unless its connection is never created or its session's setup never ends |
| `ice_access` | two calls, two standby connections; 990,000 | types, `StandbyIsTimed`, `HandedOutStaysOpen`, `StandbyIsRefreshed`, `ForeignIsCaught`, `OwnServersNeverWait` |
| `ice_restart` | two restarts, two retries, one orphaned ICE timer, `FairSpec`; 11,000 | types, `InviteIsDriven`, `OneOutcome`, `InvitesBounded`, `RestartEnds` |
| `local_audio` | three operations, two devices; 98,000 | `StreamIsTransmitted`, `WishIsTransmitted`, `DeviceIsCurrent` |
| `rtc_call` | four sockets, two connections, fair; 135,000 | types, `SignalingFollowsSession`, `DisconnectedSaidGoodbye`, `EndedReleasesMedia`, `CallKeepsItsConnection`, `LifecycleOrder`, `SetupEnds` |
| `v1_manager` | two sessions, seven connections; 1,130,000 | types, `CallIsHeld`, `TalksOnNegotiated`, `WaiterIsAwaited` |

Two attempts are enough for the session to have one that is late and one that is
current, and a third adds another late one of the same kind; two calls are one to leave and one
to stay, with a page-load setup as a third creator of sessions; two standby connections are
one in use or overwritten and one current, two calls one that fetches the URL and one
that comes meanwhile; two restarts are one that overtakes and one overtaken, and two
retries are the fewest with which a retry timer can be overwritten. Three operations on
the microphone are two that overlap and one after them, with its device equal to the
first one's or not. Four sockets are the three attempts of `connect()` and a
reconnection after all of them. Two V1 sessions are one set up ahead of time and the call that
meets it, or two calls after each other; seven connections are the five that two
sessions, their channels and the manager may refer to, and two new ones. Safety at
larger bounds is what the proofs are for.

`CHECK_DEADLOCK FALSE` is set where the system may stop: a session that ended with no
`connect()` left, a manager all of whose calls came and went, microphone operations used
up. `ice_access` and the standby connection in it need no such setting.

Four further runs, expected to find a violation, each check one sentence the
repository says of itself and TLC refutes (`findings` in `PROJECT.json` quotes it):

- `session_late_mic`: a microphone granted after the session ended stays open;
- `manager_completed`: `handleSharedMediaSessionCompleted` is never called, because the
  session looks for a callback of another name;
- `rtc_session_hangup`: a V1 conversation whose channel failed cannot be hung up, because
  the channel reads the call id of a manager that is not there;
- `v1_manager_retry`: a V1 call that waited for a session set up ahead of time is not told
  when that setup is rejected, because the failure nulled the session it would be told of.

Met while modelling and not run as a check, most of them in a hazard's note.

Both generations: an answer whose result has no sdp throws where it is logged
(`shared_media_signaling.js:289`, `signaling.js:257`, `utils.js:259`) inside a promise that
swallows it. The channel sends ACCEPT and talks, the session (or the substate of an ICE
restart) keeps waiting for the answer, and no timer is left to end that. Every property
about setup ending, or about channel and session in step, names this case (`Forsaken`,
`sdpless`) as its exception; nothing in the repository says what should come of it.

V2: a stream the application provided is stopped with the session (against
`shared_media_session.js:712`); a client hangup between ACCEPT and Talking, or while the
INVITE of an ICE restart is unanswered, sends no BYE (against
`rtc_peer_connection_manager_v2.ts:583`); a restart sends up to four INVITEs (against
"three invite attempts", `shared_media_session_talking_substates.js:314`); a restart whose
substate an older restart's failed promise replaces never reports; a rejected
`setRemoteDescription` enters the failure state of V1 (no setup metrics, against
`shared_media_session.js:653`); a page-load setup whose session cannot create its own
connection leaves that session with the manager, never set up; `connect()` may find no
session after its await (against the precondition at
`rtc_peer_connection_manager_v2.ts:471`); mute and unmute during `replaceTrack` are lost,
and a refresh that ends after the hangup leaves an idle connection unmuted (against lines
867 and 953 there); deactivation requests a standby connection although there is one
(against line 817); `close()` closes the session *or* the standby connection, never both
(against line 835); the inactivity timer is overwritten while it runs; a failed standby
creation is not retried; the connectivity checker does not come back after a toggle.

V1: a socket that fails abnormally starts two connections, and the INVITE may then be
stuck on the newer one (`Stranded`); a hangup while the channel reconnects is not told to
the server; without a manager `InviteAnswerState` ignores a hangup
(`rtc_session.js:361`); a setup that fails before signaling leaves the promise of
`connect()` pending, and a call that waits for it waits for ever; requests for a
persistent and a standby connection that overlap overwrite `_pc`; the BYE of a
channel that has been replaced hangs up the current call, the answer of one changes the
mode (`signaling.js:266`) and an error reply to one destroys the current connection (line
499); a session set up ahead of time that is accepted nulls the manager's session although
that is a call's by now (`rtc_session.js:413`), which then talks and cannot be hung up;
an awaited promise clears a newer one that took its place
(`rtc_peer_connection_manager.js:486`); an activation after the disconnection of a
virtual desktop closes the connection it has just requested and throws (line 392).

## 4. Fairness

- Session: the strategy is connected or rejects (`whenConnected()`, immediate for the
  standard strategy), the browser settles `getUserMedia` (or the timeout around it, ten
  seconds by default, expires), `createOffer`, `setLocalDescription` and
  `setRemoteDescription`; the ICE collection timer and the channels' timers fire.
  Nothing is assumed of the server, the application or the agent: no answer, no
  candidate and no hangup ever need come, and an answer may be of any kind.
  `SetupTerminates` therefore excepts the answer without an sdp, and nothing else. With two
  attempts setup may hang for another reason: the rejected `setRemoteDescription` of the
  first attempt stops the session under the second, whose next step throws on a null `_pc`.
  That is why `ImplementsLifecycle` is checked for one attempt and `LifecycleOrder` for two.
- Manager: the browser's data about the user agent arrives, which is all `FairSpec` says.
  Neither the creation of a peer connection nor the setup of a session is assumed to end;
  `CallSettles` says what follows: the call has its outcome, or one of these two, its own,
  goes on for ever.
- ICE restart: the promises of an open connection settle, the timers of collection, retry
  and channels fire. No answer and no candidate need ever come, and `requestIceAccess`,
  which the application provides, need not settle: `RestartEnds` excepts that and the
  answer without an sdp.
- ICE servers: the refresh timer and the resolver's second fire. The API owes no answer,
  to the standby connection or to a call.
- V1 call: the browser's promises settle, the `getUserMedia` timeout included, and the
  timers of candidate collection and of the channel's states fire. Nothing is asked of
  sockets, server or user. `SetupEnds` excepts the stranded INVITE and the answer without an
  sdp, for which no timer runs.

All of it is weak fairness; no property needs more. `v1_manager` and `local_audio` state
safety only and assume none.

## 5. Proofs

`tlapm` checks every proof; no step is taken on trust. The assumptions are those on
the constants only: `MaxConnects` is a positive natural; calls, page-load setups and
`None` are distinct and `MaxOrphans` is a natural; `MaxPcs`, `MaxOps` and the bounds of
`IceRestart` are naturals; the V1 manager has at least one session and at least
2 `MaxSessions` + 3 connections; there are at least three sockets; the session's connections
are the factory's, and its own is none of them. `Calls`, `PageLoads` and `Devices`
may be any sets, infinite ones included.

*Session* (`SharedMediaSessionProofs`). `SessionInv` is the type invariant,
`SignalingFollowsSession` and two parts it needs: `AttemptsStarted`, that an attempt has
no channel before it creates one, and `ChannelHistory`, that a channel still negotiating
has taken no answer and has not sent ACCEPT. Without them a timer or reply of an old
channel could be imagined to move the new one. From `SessionInv` follow `TypeCorrect`,
`ChannelInStep` and `EndsAreFinal`; `GoodbyeSaid` and `PeerConnectionReleased` are
inductive on top of it, the latter with `PcInv`, which relates the attempt, its peer
connection and the open ones. `CallbacksInOrder` proves the safety half of the refinement:
initial states map to initial states and every step to a step of `SessionLifecycle` or a
stutter.

*Manager* (`PeerConnectionManagerV2Proofs`). `ManagerInv` is the conjunction of the six
checked invariants, which support each other (a kept call has a session, so an idle
session may go; the one live session is the current one, so a failure concerns the
calls that wait), and `FreshNames`: a call or setup that has not created its session has
none, and the session held exists. One lemma per action, one step per conjunct.

*Standby* (the first part of `IceAccessProofs`). `StandbyIsOwn` adds that the standby is
open and not given away, and that numbers of open connections have been used: without
it, closing the standby could close a connection in use.

*ICE restart* (`IceRestartProofs`). `RestartInv` says that a restart is at one place at a
time, a promise or a substate that no promise drives (`OnePlace`); that until it leaves
that place it has not reported (`OpenIsUnreported`), and until its first INVITE it has
neither invited nor retried (`FreshIsUnused`); and that INVITEs sent and timers that will
send one stay within one plus the retries counted (`InviteBudget`). `OneOutcome` and
`InvitesBounded` are not inductive without them: a promise of an overtaken restart could
report again, and an orphaned timer invite once too often. The proof has one lemma for
each kind of progress a restart makes, which the lemmas of the actions cite.

*ICE servers* (`IceAccessProofs`). Types and the two standby properties carry over from
`StandbyIsOwn`, since the resolver leaves the standby variables alone. `ForeignCaught`
needs `UrlIsRemembered`, that an API which has told "home" and nothing else is one whose
URL is remembered, and `ProbeIsCounted`, that a request which probes is the one that
set `tried` and has no servers yet; without the latter a second request could probe where
the first had already given up.

*Microphone* (`LocalAudioProofs`). `Undisturbed` says, of a session in which no two
operations overlapped: the stream is the one transmitted track, a pending operation is alone
and its track is new to everybody, a switch under way remembers the transmitted track, a
refresh only runs while no device was chosen, and the remembered device is that of the
switch that brought the track. An operation carries over the agent's wish as it was read
(`WishIsCarried`), unless that changed meanwhile. `TypeCorrect` needs a lemma about the
community module's `RemoveFirst`, whose CHOOSE of a least index is justified by
well-foundedness of the naturals.

*V1 call* (`RtcSignalingProofs`, `RtcCallProofs`). First the channel on its own, one lemma
per handler: `Wires` (sockets are created in order, as many as the state and the retries
say) and `FirstIsOpen` (a channel that never replaced a socket speaks on an open one)
survive each, and where it may end up is bounded (`DownFrom`, `OpenFrom`). Then the session:
`MediaInv` (whose microphone is open, and that a late one belongs to a session that never
signaled), `StepInv` (session and channel in step) and `GoodbyeInv` (who knows of the end;
without it a BYE could reach a channel whose session is still talking to nobody).
`FollowStep` treats all events of sockets and timers at once. `FactoryInv` says that the one
timer is the known one and that a request is only out while nothing is kept, from which
`CallKeeps` follows. `CallbacksInOrder` sorts the steps into five kinds (`Turn`) and maps
each to a step of `SessionLifecycle` or a stutter.

*V1 manager* (`RtcPeerConnectionManagerProofs`). A handler is a composition of operators
on the record of the system, so the invariants are operators on such a record too, each
operator of the module has lemmas that say what it keeps, and the lemma of an action puts
those of its operators together. What is carried along comes in three groups.

- `Good(w, F)`: the record has its type, a channel that is there has a session, and the
  numbers of `F` are new to everybody. `NewPc` takes one of them, and `RoomForTwo` finds
  two at the start of every action by counting: sessions, channels and manager refer to
  2 `MaxSessions` + 1 connections, and `closed` holds none but those.
- `Sound`, in any case: the manager's session has not ended (`Held`), a session without a
  local description is known to no channel (`Fresh`), a channel calls the session that
  refers to it (`Mutual`), one that waits on a channel of its own waits for one that
  answers (`Reports`), a session past the handshake has settled its promise (`Settled`),
  nothing moves before the agent's data is known (`Asleep`), and who waits for whom
  (`Waits`).
- `Orderly`, as long as nothing has overlapped: only the manager's session is at work
  (`Only`), on the manager's connection and channel unless that connection was closed
  behind its back (`OnTheManagers`), with its INVITE about that connection
  (`Negotiated`); a channel the manager keeps idle or unanswered is about the connection
  the manager has (`IdleIsKept`, `PendingIsHeld`, `Together`); tokens, standby renewals and
  waits follow from it (`Tokens`, `NoRenewal`, `InVain`), and nobody closes the connection
  of a conversation (`TalksOpen`).

`CallIsHeld` and `TalksOnNegotiated` say something of sessions that talk only, and would
be broken by the next handshake if a session before it could be on another
connection than the manager: that is why `Orderly` speaks of every session from
`connect()` on. `IInv` was checked by TLC with two sessions in full and with three
sessions without overlaps before it was proved. `ConversationIsHeld`,
`ConversationOnNegotiated` and `WaitIsAwaited` follow from it at once. `ConversationIsHeld`
is weaker than `CallIsHeld`: it speaks of runs in which nothing has overlapped, a change of
mode included, after which `Orderly` says nothing; that a change of mode alone does no harm
is only model-checked.

TLC and the provers read the same definitions. `tlapm` 1.4.5 encodes a `CASE` with several
arms in a way that may identify two different ones, so every proof was also checked with
each `CASE` term written as nested `IF`s, with the same result.

Only model-checked: everything about fairness (`SetupTerminates`, `ImplementsLifecycle`,
`CallSettles`, `StandbyIsRefreshed`, `OwnServersNeverWait`, `RestartEnds`, `SetupEnds`),
since neither liveness nor ENABLED is within reach of the provers used, and `CallIsHeld`
after a change of mode. Every other safety property of a passing run is proved as it is
checked.

## 6. Not modelled, and what could follow

Partly modelled components, in the order in which more of them would be worth it:

1. Composition: the V2 manager over `SharedMediaSession` itself instead of its phases,
   with one call; and `SharedMediaSession` with `IceRestart` in its Talking state.
2. V1: ICE restart (`rtc_session_talking_substates.js`, an older form of V2's) and the
   manager's `setMicrophoneDevice` (the algorithm of `LocalAudio`).
3. `SignalingChannelManager`: routing by connection id and listeners that replace each
   other; today messages are delivered to the last listener, as the code does.
4. `whenConnected()` of the DCV and Azure strategies, if worth it; `SharedMediaSession`
   and `LocalAudio` treat it as part of acquiring the microphone.

Left out for good: reports and statistics (records of values no control depends on),
SDP transformation and candidate parsing (string processing, outside what TLC checks
well), the vendor SDKs behind the VDI strategies, exports and constants, and the built
bundles in `src/release/`.
