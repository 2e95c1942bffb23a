------------------------------ MODULE LocalAudio ------------------------------
(***************************************************************************)
(* The microphone of a connected V2 session                                *)
(* (src/src/shared_media_session.js): the track its sender transmits, the  *)
(* tracks of _localStream on which mute acts, and the two operations that  *)
(* replace them across awaits, setMicrophoneDevice and                     *)
(* refreshMediaStreamBetweenCalls, while calls begin, end, mute and unmute *)
(* (src/src/rtc_peer_connection_manager_v2.ts).                            *)
(*                                                                         *)
(* Operation i acquires track i + 1; track 1 is the one the session was    *)
(* connected with.                                                         *)
(***************************************************************************)
EXTENDS Naturals, Sequences, SequencesExt

CONSTANTS
  MaxOps,              \* bound on the operations that replace the track
  Devices,             \* device ids an application asks for
  None

ASSUME OpsAssumption == MaxOps \in Nat \ {0}
ASSUME NoneAssumption == None \notin Devices

VARIABLES
  up,                  \* _pc and _localStream are there
  stream,              \* the audio tracks of _localStream, in order
  sender,              \* the track of the audio sender, or 0
  enabled,             \* tracks that are enabled
  live,                \* tracks that are not stopped
  userProvided,        \* _isUserProvidedStream
  mic,                 \* _currentMicDeviceId
  ops,                 \* the operations
  inCall,              \* there are call sessions
  muted,               \* the agent muted the current call
  raced,               \* the agent's wish changed when an operation had read it
  overlapped           \* two operations were under way at once

audioVars == <<stream, sender, enabled, live>>
callVars  == <<inCall, muted>>
vars == <<up, audioVars, userProvided, mic, ops, callVars, raced, overlapped>>

-----------------------------------------------------------------------------
Ops     == 1..MaxOps
Tracks  == 1..(MaxOps + 1)
NoTrack == 0
TrackOf(i) == i + 1

\* "gum": whenConnected and getUserMedia are awaited; "replace": replaceTrack is.
Op == [kind   : {"none", "switch", "refresh"},
       stage  : {"new", "gum", "replace", "done"},
       device : Devices \union {None},
       old    : Tracks \union {NoTrack}]

NoOp == [kind |-> "none", stage |-> "new", device |-> None, old |-> NoTrack]

\* Types; mute always finds a track in a local stream that is there.
TypeOK ==
  /\ up \in BOOLEAN
  /\ stream \in Seq(Tracks)
  /\ up <=> stream # <<>>
  /\ sender \in Tracks \union {NoTrack}
  /\ enabled \subseteq Tracks
  /\ live \subseteq Tracks
  /\ userProvided \in BOOLEAN
  /\ mic \in Devices \union {None}
  /\ ops \in [Ops -> Op]
  /\ inCall \in BOOLEAN
  /\ muted \in BOOLEAN
  /\ raced \in BOOLEAN
  /\ overlapped \in BOOLEAN

\* The session was connected for a call, or at page load, which pauses it
\* (onSharedMediaSessionConnected of the manager).
Init ==
  /\ up = TRUE
  /\ stream = <<1>>
  /\ sender = 1
  /\ live = {1}
  /\ userProvided = FALSE
  /\ mic = None
  /\ ops = [i \in Ops |-> NoOp]
  /\ inCall \in BOOLEAN
  /\ enabled = IF inCall THEN {1} ELSE {}
  /\ muted = FALSE
  /\ raced = FALSE
  /\ overlapped = FALSE

-----------------------------------------------------------------------------
(* What the operations are made of.                                        *)

Pending == {i \in Ops : ops[i].stage \in {"gum", "replace"}}

\* getAudioTracks()[0] of the local stream.
First == IF stream = <<>> THEN NoTrack ELSE Head(stream)

\* pauseLocalAudio, resumeLocalAudio: the first track, whatever is transmitted.
Pause  == enabled' = enabled \ {First}
Resume == enabled' = enabled \union ({First} \ {NoTrack})

\* Operations start in the order of their numbers.
NextOp(i) == ops[i].stage = "new" /\ \A j \in 1..(i - 1) : ops[j].stage # "new"

Start(i, kind, device, old) ==
  /\ NextOp(i)
  /\ ops' = [ops EXCEPT ![i] = [kind |-> kind, stage |-> "gum",
                                device |-> device, old |-> old]]
  /\ overlapped' = (overlapped \/ Pending # {})

Advance(i, stage) == ops' = [ops EXCEPT ![i].stage = stage]

\* A change of the wish is missed by a refresh, which never asks for it, and by
\* a switch that has read it.
Missed ==
  raced' = (raced \/ \E i \in Pending :
                       ops[i].kind = "refresh" \/ ops[i].stage = "replace")

-----------------------------------------------------------------------------
(* Calls.                                                                  *)

\* createSession on an idle session: the track is resumed and, unless the user
\* chose a device, refreshed in the background.
CallStarts ==
  /\ up /\ ~inCall
  /\ inCall' = TRUE
  /\ muted' = FALSE
  /\ Resume
  /\ Missed
  /\ IF userProvided
       THEN UNCHANGED <<ops, overlapped>>
       ELSE \E i \in Ops : Start(i, "refresh", None, NoTrack)
  /\ UNCHANGED <<up, stream, sender, live, userProvided, mic>>

\* The last call of a persistent connection ends.
CallEnds ==
  /\ up /\ inCall
  /\ inCall' = FALSE
  /\ muted' = FALSE
  /\ Pause
  /\ Missed
  /\ UNCHANGED <<up, stream, sender, live, userProvided, mic, ops, overlapped>>

Mute ==
  /\ up /\ inCall /\ ~muted
  /\ muted' = TRUE
  /\ Pause
  /\ Missed
  /\ UNCHANGED <<up, stream, sender, live, userProvided, mic, ops, inCall, overlapped>>

Unmute ==
  /\ up /\ inCall /\ muted
  /\ muted' = FALSE
  /\ Resume
  /\ Missed
  /\ UNCHANGED <<up, stream, sender, live, userProvided, mic, ops, inCall, overlapped>>

\* _stopSession: the tracks of the stream are stopped, whoever provided it.
SessionEnds ==
  /\ up
  /\ up' = FALSE
  /\ live' = live \ ToSet(stream)
  /\ stream' = <<>>
  /\ sender' = NoTrack
  /\ userProvided' = FALSE
  /\ inCall' = FALSE
  /\ UNCHANGED <<enabled, mic, ops, muted, raced, overlapped>>

-----------------------------------------------------------------------------
(* setMicrophoneDevice.                                                    *)

\* Mutant: the stream is marked as the user's only when the track is replaced.
SwitchStarts_NotMarked(i, device) ==
  /\ up
  /\ mic # device
  /\ Start(i, "switch", device, First)
  /\ UNCHANGED <<up, audioVars, userProvided, mic, callVars, raced>>

\* The old track is remembered before anything is awaited.
SwitchStarts(i, device) ==
  /\ up
  /\ mic # device
  /\ Start(i, "switch", device, First)
  /\ userProvided' = TRUE
  /\ UNCHANGED <<up, audioVars, mic, callVars, raced>>

\* Mutant: the new track starts enabled.
SwitchGranted_Enabled(i) ==
  /\ ops[i].kind = "switch" /\ ops[i].stage = "gum"
  /\ live' = live \union {TrackOf(i)}
  /\ enabled' = enabled \union {TrackOf(i)}
  /\ Advance(i, IF up THEN "replace" ELSE "done")
  /\ UNCHANGED <<up, stream, sender, userProvided, mic, callVars, raced, overlapped>>

\* getUserMedia delivers: the new track takes over the old one's enabled state.
\* Without _pc the code throws, and the new track stays live.
SwitchGranted(i) ==
  /\ ops[i].kind = "switch" /\ ops[i].stage = "gum"
  /\ live' = live \union {TrackOf(i)}
  /\ enabled' = IF ops[i].old \in enabled \union {NoTrack}
                  THEN enabled \union {TrackOf(i)} ELSE enabled
  /\ Advance(i, IF up THEN "replace" ELSE "done")
  /\ UNCHANGED <<up, stream, sender, userProvided, mic, callVars, raced, overlapped>>

\* Mutant: the old track stays in the stream.
SwitchReplaced_KeepsOld(i) ==
  /\ up /\ ops[i].kind = "switch" /\ ops[i].stage = "replace"
  /\ sender' = TrackOf(i)
  /\ enabled' = enabled \ {ops[i].old}
  /\ live' = live \ {ops[i].old}
  /\ stream' = Append(stream, TrackOf(i))
  /\ mic' = ops[i].device
  /\ Advance(i, "done")
  /\ UNCHANGED <<up, userProvided, callVars, raced, overlapped>>

\* replaceTrack is done: the remembered track leaves the stream and is stopped,
\* the new one joins it.
SwitchReplaced(i) ==
  /\ up /\ ops[i].kind = "switch" /\ ops[i].stage = "replace"
  /\ sender' = TrackOf(i)
  /\ enabled' = enabled \ {ops[i].old}
  /\ live' = live \ {ops[i].old}
  /\ stream' = Append(RemoveFirst(stream, ops[i].old), TrackOf(i))
  /\ mic' = ops[i].device
  /\ Advance(i, "done")
  /\ UNCHANGED <<up, userProvided, callVars, raced, overlapped>>

\* whenConnected, getUserMedia or replaceTrack fails, or getUserMedia takes too
\* long and delivers to nobody: userProvided stays set.
SwitchFails(i) ==
  /\ ops[i].kind = "switch" /\ i \in Pending
  /\ live' \in {live, live \union {TrackOf(i)}}
  /\ Advance(i, "done")
  /\ UNCHANGED <<up, stream, sender, enabled, userProvided, mic, callVars, raced,
                 overlapped>>

-----------------------------------------------------------------------------
(* refreshMediaStreamBetweenCalls.                                         *)

\* getUserMedia delivers a new track, enabled; it is dropped without being
\* stopped when the user has chosen a device meanwhile.
RefreshGranted(i) ==
  /\ ops[i].kind = "refresh" /\ ops[i].stage = "gum"
  /\ live' = live \union {TrackOf(i)}
  /\ enabled' = enabled \union {TrackOf(i)}
  /\ Advance(i, IF up /\ ~userProvided THEN "replace" ELSE "done")
  /\ UNCHANGED <<up, stream, sender, userProvided, mic, callVars, raced, overlapped>>

\* replaceTrack is done: the first track leaves the stream, still live.
RefreshReplaced(i) ==
  /\ up /\ ops[i].kind = "refresh" /\ ops[i].stage = "replace"
  /\ sender' = TrackOf(i)
  /\ stream' = Append(RemoveFirst(stream, First), TrackOf(i))
  /\ Advance(i, "done")
  /\ UNCHANGED <<up, enabled, live, userProvided, mic, callVars, raced, overlapped>>

\* getUserMedia or replaceTrack is rejected.
RefreshFails(i) ==
  /\ ops[i].kind = "refresh" /\ i \in Pending
  /\ Advance(i, "done")
  /\ UNCHANGED <<up, audioVars, userProvided, mic, callVars, raced, overlapped>>

-----------------------------------------------------------------------------
Calls == CallStarts \/ CallEnds \/ Mute \/ Unmute \/ SessionEnds
Switching(i) == SwitchGranted(i) \/ SwitchReplaced(i) \/ SwitchFails(i)
                  \/ \E d \in Devices : SwitchStarts(i, d)
Refreshing(i) == RefreshGranted(i) \/ RefreshReplaced(i) \/ RefreshFails(i)

Next == Calls \/ \E i \in Ops : Switching(i) \/ Refreshing(i)

Spec == Init /\ [][Next]_vars

-----------------------------------------------------------------------------
(* Properties.                                                             *)

\* As long as operations do not overlap, the local stream holds one track and
\* it is the one transmitted, so that mute, which acts on the first track of
\* the stream, acts on what is heard (shared_media_session.js lines 816-840,
\* 854-879 and 1615-1630).  Two operations that overlap can leave two tracks.
StreamIsTransmitted ==
  up /\ ~overlapped => stream = <<sender>> /\ sender \in live

\* What is transmitted follows the agent's last wish: open in a call that is
\* not muted, closed when muted and between calls.  Two things excepted: the
\* wish changed after an operation had read the state it carries over, and
\* operations overlapped (lines 809-812 and 1601-1622,
\* rtc_peer_connection_manager_v2.ts lines 354-356, 566 and 957).
WishIsTransmitted ==
  up /\ ~raced /\ ~overlapped => (sender \in enabled <=> inCall /\ ~muted)

\* The device that a repeated request is compared with is the one transmitted,
\* so that skipping the request is right: a refresh never replaces the track of
\* a device the user chose (lines 776-785, 790 and 1592-1612).
DeviceIsCurrent ==
  up /\ ~overlapped /\ mic # None =>
    sender > 1 /\ ops[sender - 1].kind = "switch" /\ ops[sender - 1].device = mic
=============================================================================
