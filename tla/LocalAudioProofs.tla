--------------------------- MODULE LocalAudioProofs ---------------------------
(***************************************************************************)
(* Safety of the microphone of a V2 session, for every number of           *)
(* operations and every set of devices.                                    *)
(***************************************************************************)
EXTENDS LocalAudio, WellFoundedInduction, TLAPS

\* The track of an operation that is not over is not the one transmitted, and
\* not enabled before it is granted.
TracksAreNew ==
  \A i \in Ops :
    /\ ops[i].stage # "done" => TrackOf(i) # sender
    /\ ops[i].stage \in {"new", "gum"} => TrackOf(i) \notin enabled

\* A switch replaces what is transmitted, with a track that is live.
SwitchReplacesSender ==
  \A i \in Pending :
    /\ ops[i].kind \in {"switch", "refresh"}
    /\ ops[i].kind = "switch" => ops[i].old = sender
    /\ ops[i].stage = "replace" => TrackOf(i) \in live

\* A refresh is under way only while the user has chosen no device.
RefreshIsDefault ==
  /\ mic # None => userProvided
  /\ \A i \in Pending : ops[i].kind = "switch" <=> userProvided

\* What an operation carries over is still the agent's wish.
WishIsCarried ==
  \A i \in Pending :
    /\ ops[i].kind = "refresh" =>
         inCall /\ ~muted /\ (ops[i].stage = "replace" => TrackOf(i) \in enabled)
    /\ ops[i].kind = "switch" /\ ops[i].stage = "replace" =>
         (TrackOf(i) \in enabled <=> inCall /\ ~muted)

\* One operation at a time.
OneAtATime == \A i, j \in Pending : i = j

\* The device of the user is the one of the switch that brought the track.
DeviceIsSwitched ==
  mic # None =>
    /\ sender > 1
    /\ ops[sender - 1].kind = "switch"
    /\ ops[sender - 1].device = mic
    /\ ops[sender - 1].stage = "done"

\* What holds of a session whose operations never overlapped.
Undisturbed ==
  /\ stream = <<sender>> /\ sender \in live
  /\ OneAtATime
  /\ TracksAreNew
  /\ SwitchReplacesSender
  /\ RefreshIsDefault
  /\ DeviceIsSwitched
  /\ ~raced => WishIsCarried /\ (sender \in enabled <=> inCall /\ ~muted)

AudioInv == TypeOK /\ (up /\ ~overlapped => Undisturbed)

-----------------------------------------------------------------------------
(* Sequences.                                                              *)

\* Removing the only element leaves nothing.
LEMMA RemoveOnly ==
  ASSUME NEW a
  PROVE  RemoveFirst(<<a>>, a) = <<>>
<1>. DEFINE s == <<a>>
            I == {i \in 1..Len(s) : s[i] = a}
<1>1. Len(s) = 1 /\ s[1] = a
  OBVIOUS
<1>2. I = {1}
  BY <1>1
<1>3. Min(I) = 1
  <2>1. \E x \in I : \A y \in I : x =< y
    BY <1>2
  <2>. QED  BY <1>2, <2>1 DEF Min
<1>4. SelectInSeq(s, LAMBDA v : v = a) = 1
  BY <1>2, <1>3 DEF SelectInSeq
<1>5. RemoveFirst(s, a) = RemoveAt(s, 1)
  BY <1>1, <1>4 DEF RemoveFirst
<1>6. RemoveAt(s, 1) = <<>>
  BY <1>1 DEF RemoveAt
<1>. QED  BY <1>5, <1>6

\* A set of numbers that is not empty has a least element.
LEMMA LeastExists ==
  ASSUME NEW I, I \subseteq Nat, I # {}
  PROVE  Min(I) \in I
<1>1. \E x \in I : \A y \in I : ~ (<<y, x>> \in OpToRel(<, Nat))
  BY NatLessThanWellFounded, WFMin
<1>2. PICK x \in I : \A y \in I : ~ (<<y, x>> \in OpToRel(<, Nat))
  BY <1>1
<1>3. \A m, n \in Nat : m < n => <<m, n>> \in OpToRel(<, Nat)
  BY Zenon DEF OpToRel
<1>4. \A y \in I : ~ (y < x)
  BY <1>2, <1>3, Zenon
<1>5. \A y \in I : x =< y
  BY <1>4
<1>. QED  BY <1>5 DEF Min

\* Removing an element leaves a sequence over the same set.
LEMMA RemoveFirstType ==
  ASSUME NEW S, NEW s \in Seq(S), NEW e
  PROVE  RemoveFirst(s, e) \in Seq(S)
<1>. DEFINE I == {i \in 1..Len(s) : s[i] = e}
<1>1. CASE \E i \in 1..Len(s) : s[i] = e
  <2>1. I \subseteq Nat /\ I # {}
    BY <1>1
  <2>2. Min(I) \in I
    <3>. HIDE DEF I
    <3>. QED  BY <2>1, LeastExists
  <2>3. SelectInSeq(s, LAMBDA v : v = e) = Min(I)
    BY <1>1 DEF SelectInSeq
  <2>4. \A i \in 1..Len(s) : RemoveAt(s, i) \in Seq(S)
    BY DEF RemoveAt
  <2>. QED  BY <1>1, <2>2, <2>3, <2>4 DEF RemoveFirst
<1>2. CASE ~ \E i \in 1..Len(s) : s[i] = e
  BY <1>2 DEF RemoveFirst
<1>. QED  BY <1>1, <1>2

-----------------------------------------------------------------------------
(* Types.                                                                  *)

\* What pausing and resuming makes of the enabled tracks.
LEMMA FirstIsTrack ==
  ASSUME TypeOK
  PROVE  /\ First \in Tracks \union {NoTrack}
         /\ enabled \ {First} \subseteq Tracks
         /\ enabled \union ({First} \ {NoTrack}) \subseteq Tracks
<1>1. stream # <<>> => Head(stream) \in Tracks
  BY DEF TypeOK
<1>. QED  BY <1>1 DEF TypeOK, First

LEMMA AdvanceType ==
  ASSUME TypeOK, NEW i \in Ops, NEW stage \in {"gum", "replace", "done"},
         Advance(i, stage)
  PROVE  /\ ops' \in [Ops -> Op]
         /\ TrackOf(i) \in Tracks
         /\ ops[i].device \in Devices \union {None}
<1>1. ops \in [Ops -> Op] /\ ops[i] \in Op
  BY DEF TypeOK
<1>2. [ops[i] EXCEPT !.stage = stage] \in Op
  BY <1>1 DEF Op
<1>3. ops' = [ops EXCEPT ![i] = [ops[i] EXCEPT !.stage = stage]]
  BY <1>1 DEF Advance
<1>4. ops' \in [Ops -> Op]
  BY <1>1, <1>2, <1>3
<1>5. ops[i].device \in Devices \union {None}
  BY <1>1 DEF Op
<1>6. TrackOf(i) \in Tracks
  BY OpsAssumption DEF TrackOf, Tracks, Ops
<1>. QED  BY <1>4, <1>5, <1>6

LEMMA StartType ==
  ASSUME TypeOK, NEW i \in Ops, NEW kind \in {"switch", "refresh"},
         NEW device \in Devices \union {None}, NEW old \in Tracks \union {NoTrack},
         Start(i, kind, device, old)
  PROVE  ops' \in [Ops -> Op] /\ overlapped' \in BOOLEAN
<1>1. [kind |-> kind, stage |-> "gum", device |-> device, old |-> old] \in Op
  BY DEF Op
<1>. QED  BY <1>1 DEF Start, TypeOK

LEMMA CallsType ==
  ASSUME TypeOK, Calls
  PROVE  TypeOK'
<1>. USE FirstIsTrack
<1>1. CASE CallStarts
  <2>1. ops' \in [Ops -> Op] /\ overlapped' \in BOOLEAN
    <3>1. CASE userProvided
      BY <1>1, <3>1 DEF CallStarts, TypeOK
    <3>2. ASSUME NEW i \in Ops, Start(i, "refresh", None, NoTrack)
          PROVE  ops' \in [Ops -> Op] /\ overlapped' \in BOOLEAN
      BY <3>2, StartType
    <3>. QED  BY <1>1, <3>1, <3>2 DEF CallStarts
  <2>2. raced' \in BOOLEAN
    BY <1>1 DEF CallStarts, Missed, TypeOK
  <2>. QED  BY <1>1, <2>1, <2>2 DEF CallStarts, Resume, TypeOK
<1>2. CASE CallEnds
  BY <1>2 DEF CallEnds, Pause, Missed, TypeOK
<1>3. CASE Mute
  BY <1>3 DEF Mute, Pause, Missed, TypeOK
<1>4. CASE Unmute
  BY <1>4 DEF Unmute, Resume, Missed, TypeOK
<1>5. CASE SessionEnds
  <2>1. stream' \in Seq(Tracks) /\ (up' <=> stream' # <<>>)
    BY <1>5 DEF SessionEnds
  <2>2. live' \subseteq Tracks
    BY <1>5 DEF SessionEnds, TypeOK
  <2>. QED  BY <1>5, <2>1, <2>2 DEF SessionEnds, TypeOK
<1>. QED  BY <1>1, <1>2, <1>3, <1>4, <1>5 DEF Calls

\* A stream that lost a track and got another.
LEMMA ReplacedStream ==
  ASSUME TypeOK, NEW t \in Tracks, NEW old
  PROVE  /\ Append(RemoveFirst(stream, old), t) \in Seq(Tracks)
         /\ Append(RemoveFirst(stream, old), t) # <<>>
<1>1. RemoveFirst(stream, old) \in Seq(Tracks)
  BY RemoveFirstType DEF TypeOK
<1>2. ASSUME NEW s \in Seq(Tracks)
      PROVE  Append(s, t) \in Seq(Tracks) /\ Len(Append(s, t)) = Len(s) + 1
                /\ Len(s) \in Nat
  OBVIOUS
<1>3. Len(<<>>) = 0
  OBVIOUS
<1>. QED  BY <1>1, <1>2, <1>3

LEMMA SwitchingType ==
  ASSUME TypeOK, NEW i \in Ops, Switching(i)
  PROVE  TypeOK'
<1>1. CASE SwitchGranted(i)
  <2>1. ops' \in [Ops -> Op] /\ TrackOf(i) \in Tracks
    BY <1>1, AdvanceType DEF SwitchGranted
  <2>. QED  BY <1>1, <2>1 DEF SwitchGranted, callVars, TypeOK
<1>2. CASE SwitchReplaced(i)
  <2>1. /\ ops' \in [Ops -> Op]
        /\ TrackOf(i) \in Tracks
        /\ ops[i].device \in Devices \union {None}
    BY <1>2, AdvanceType DEF SwitchReplaced
  <2>2. stream' \in Seq(Tracks) /\ stream' # <<>>
    BY <1>2, <2>1, ReplacedStream DEF SwitchReplaced
  <2>. QED  BY <1>2, <2>1, <2>2 DEF SwitchReplaced, callVars, TypeOK
<1>3. CASE SwitchFails(i)
  <2>1. ops' \in [Ops -> Op] /\ TrackOf(i) \in Tracks
    BY <1>3, AdvanceType DEF SwitchFails
  <2>. QED  BY <1>3, <2>1 DEF SwitchFails, callVars, TypeOK
<1>4. ASSUME NEW d \in Devices, SwitchStarts(i, d) PROVE TypeOK'
  <2>1. ops' \in [Ops -> Op] /\ overlapped' \in BOOLEAN
    BY <1>4, StartType, FirstIsTrack DEF SwitchStarts
  <2>. QED  BY <1>4, <2>1 DEF SwitchStarts, audioVars, callVars, TypeOK
<1>. QED  BY <1>1, <1>2, <1>3, <1>4 DEF Switching

LEMMA RefreshingType ==
  ASSUME TypeOK, NEW i \in Ops, Refreshing(i)
  PROVE  TypeOK'
<1>1. CASE RefreshGranted(i)
  <2>1. ops' \in [Ops -> Op] /\ TrackOf(i) \in Tracks
    BY <1>1, AdvanceType DEF RefreshGranted
  <2>. QED  BY <1>1, <2>1 DEF RefreshGranted, callVars, TypeOK
<1>2. CASE RefreshReplaced(i)
  <2>1. ops' \in [Ops -> Op] /\ TrackOf(i) \in Tracks
    BY <1>2, AdvanceType DEF RefreshReplaced
  <2>2. stream' \in Seq(Tracks) /\ stream' # <<>>
    BY <1>2, <2>1, ReplacedStream DEF RefreshReplaced
  <2>. QED  BY <1>2, <2>1, <2>2 DEF RefreshReplaced, callVars, TypeOK
<1>3. CASE RefreshFails(i)
  BY <1>3, AdvanceType DEF RefreshFails, audioVars, callVars, TypeOK
<1>. QED  BY <1>1, <1>2, <1>3 DEF Refreshing

LEMMA InitType == Init => TypeOK
<1>. SUFFICES ASSUME Init PROVE TypeOK
  OBVIOUS
<1>1. 1 \in Tracks
  BY OpsAssumption DEF Tracks
<1>2. NoOp \in Op
  BY DEF NoOp, Op
<1>3. stream \in Seq(Tracks) /\ stream # <<>>
  BY <1>1 DEF Init
<1>. QED  BY <1>1, <1>2, <1>3 DEF Init, TypeOK

LEMMA StepType == TypeOK /\ [Next]_vars => TypeOK'
<1>. SUFFICES ASSUME TypeOK, [Next]_vars PROVE TypeOK'
  OBVIOUS
<1>1. CASE UNCHANGED vars
  BY <1>1 DEF vars, audioVars, callVars, TypeOK
<1>2. CASE Next
  BY <1>2, CallsType, SwitchingType, RefreshingType DEF Next
<1>. QED  BY <1>1, <1>2

\* Types, and a session that is connected has a track for mute to act on
\* (shared_media_session.js lines 769-879, 1441-1460 and 1590-1644).
THEOREM TypeCorrect == Spec => []TypeOK
  BY InitType, StepType, PTL DEF Spec

-----------------------------------------------------------------------------
(* The invariant.                                                          *)

\* Mute acts on what is transmitted.
LEMMA FirstIsSender ==
  ASSUME stream = <<sender>>
  PROVE  First = sender
  BY DEF First

\* What the stages of an operation are, before and after a step.
LEMMA StagesTyped ==
  ASSUME TypeOK
  PROVE  /\ ops \in [Ops -> Op]
         /\ Pending \subseteq Ops
         /\ \A i \in Ops : /\ ops[i].stage \in {"new", "gum", "replace", "done"}
                           /\ TrackOf(i) \in Nat /\ TrackOf(i) # NoTrack
  BY OpsAssumption DEF TypeOK, Op, Pending, Ops, TrackOf, NoTrack

\* The agent's wish changes and no operation starts: those that had read the
\* wish, or never ask, make it a race.
LEMMA WishStep ==
  ASSUME TypeOK, Undisturbed, Missed,
         enabled' = enabled \ {sender} \/ enabled' = enabled \union {sender},
         sender \in enabled' <=> inCall' /\ ~muted',
         UNCHANGED <<stream, sender, live, userProvided, mic, ops>>
  PROVE  Undisturbed'
<1>1. Pending' = Pending
  BY DEF Pending
<1>2. ~raced' =>
        ~raced /\ \A i \in Pending : ops[i].kind = "switch" /\ ops[i].stage = "gum"
  BY DEF Missed, Undisturbed, SwitchReplacesSender, Pending
<1>3. ~raced' => WishIsCarried'
  BY <1>1, <1>2 DEF WishIsCarried
<1>4. TracksAreNew'
  BY DEF Undisturbed, TracksAreNew
<1>5. OneAtATime' /\ SwitchReplacesSender' /\ RefreshIsDefault' /\ DeviceIsSwitched'
  BY <1>1 DEF Undisturbed, OneAtATime, SwitchReplacesSender, RefreshIsDefault,
              DeviceIsSwitched
<1>. QED  BY <1>3, <1>4, <1>5 DEF Undisturbed

\* An operation starts and none is under way.
LEMMA StartStep ==
  ASSUME TypeOK, Undisturbed, NEW i \in Ops, NEW kind \in {"switch", "refresh"},
         NEW device, NEW old,
         Start(i, kind, device, old), ~overlapped', TypeOK'
  PROVE  /\ Pending = {} /\ Pending' = {i}
         /\ ops'[i].kind = kind /\ ops'[i].stage = "gum" /\ ops'[i].old = old
         /\ ops[i].stage = "new"
         /\ \A j \in Ops : j # i => ops'[j] = ops[j]
         /\ OneAtATime'
         /\ mic' = mic /\ sender' = sender => DeviceIsSwitched'
         /\ sender' = sender /\ enabled' \subseteq enabled \union {sender} => TracksAreNew'
<1>1. /\ Pending = {}
      /\ ops'[i] = [kind |-> kind, stage |-> "gum", device |-> device, old |-> old]
      /\ ops[i].stage = "new"
      /\ \A j \in Ops : j # i => ops'[j] = ops[j]
  BY StagesTyped DEF Start, NextOp
<1>2. Pending' = {i}
  BY <1>1 DEF Pending
<1>3. OneAtATime'
  BY <1>2 DEF OneAtATime
<1>4. ASSUME mic' = mic, sender' = sender PROVE DeviceIsSwitched'
  <2>1. SUFFICES ASSUME mic # None
                 PROVE  /\ sender > 1
                        /\ ops'[sender - 1] = ops[sender - 1]
    BY <1>4 DEF Undisturbed, DeviceIsSwitched
  <2>2. /\ sender > 1 /\ ops[sender - 1].stage = "done"
        /\ sender - 1 \in Ops
    BY <2>1, OpsAssumption DEF Undisturbed, DeviceIsSwitched, TypeOK, Tracks, Ops, NoTrack
  <2>. QED  BY <1>1, <2>2
<1>5. ASSUME sender' = sender, enabled' \subseteq enabled \union {sender}
      PROVE  TracksAreNew'
  <2>1. ASSUME NEW j \in Ops, ops'[j].stage # "done" PROVE ops[j].stage # "done"
    BY <1>1, <2>1
  <2>2. ASSUME NEW j \in Ops, ops'[j].stage \in {"new", "gum"}
        PROVE  ops[j].stage \in {"new", "gum"}
    BY <1>1, <2>2
  <2>. QED  BY <1>5, <2>1, <2>2 DEF Undisturbed, TracksAreNew
<1>. QED  BY <1>1, <1>2, <1>3, <1>4, <1>5

LEMMA CallsStep ==
  ASSUME TypeOK, TypeOK', Undisturbed, Calls, up', ~overlapped'
  PROVE  Undisturbed'
<1>. First = sender /\ stream = <<sender>>
  BY FirstIsSender DEF Undisturbed
<1>a. sender # NoTrack
  BY DEF TypeOK, Undisturbed, Tracks, NoTrack
<1>1. CASE CallStarts /\ userProvided
  <2>1. Missed /\ enabled' = enabled \union {sender} /\ inCall' /\ ~muted'
    BY <1>1, <1>a DEF CallStarts, Resume
  <2>. QED  BY <1>1, <2>1, WishStep DEF CallStarts
<1>2. CASE CallStarts /\ ~userProvided
  <2>1. PICK i \in Ops : Start(i, "refresh", None, NoTrack)
    BY <1>2 DEF CallStarts
  <2>2. enabled' = enabled \union {sender} /\ inCall' /\ ~muted'
    BY <1>2, <1>a DEF CallStarts, Resume
  <2>3. /\ Pending = {} /\ Pending' = {i} /\ TracksAreNew' /\ OneAtATime' /\ DeviceIsSwitched'
        /\ ops'[i].kind = "refresh" /\ ops'[i].stage = "gum"
    BY <1>2, <2>1, <2>2, StartStep DEF CallStarts
  <2>4. SwitchReplacesSender' /\ RefreshIsDefault'
    BY <1>2, <2>3 DEF CallStarts, SwitchReplacesSender, RefreshIsDefault, Undisturbed
  <2>5. WishIsCarried'
    BY <2>2, <2>3 DEF WishIsCarried
  <2>. QED  BY <1>2, <2>2, <2>3, <2>4, <2>5 DEF CallStarts, Undisturbed
<1>3. CASE CallEnds
  <2>1. Missed /\ enabled' = enabled \ {sender} /\ ~inCall'
    BY <1>3 DEF CallEnds, Pause
  <2>. QED  BY <1>3, <2>1, WishStep DEF CallEnds
<1>4. CASE Mute
  <2>1. Missed /\ enabled' = enabled \ {sender} /\ muted'
    BY <1>4 DEF Mute, Pause
  <2>. QED  BY <1>4, <2>1, WishStep DEF Mute
<1>5. CASE Unmute
  <2>1. Missed /\ enabled' = enabled \union {sender} /\ inCall' /\ ~muted'
    BY <1>5, <1>a DEF Unmute, Resume
  <2>. QED  BY <1>5, <2>1, WishStep DEF Unmute
<1>6. CASE SessionEnds
  BY <1>6 DEF SessionEnds
<1>. QED  BY <1>1, <1>2, <1>3, <1>4, <1>5, <1>6 DEF Calls

\* The operation that is under way moves on.
LEMMA AdvanceStep ==
  ASSUME TypeOK, Undisturbed, NEW i \in Pending, NEW stage \in {"replace", "done"},
         Advance(i, stage)
  PROVE  /\ Pending = {i}
         /\ ops'[i].stage = stage
         /\ ops'[i].kind = ops[i].kind
         /\ ops'[i].old = ops[i].old
         /\ ops'[i].device = ops[i].device
         /\ \A j \in Ops : j # i => ops'[j] = ops[j]
         /\ Pending' = IF stage = "done" THEN {} ELSE {i}
         /\ OneAtATime'
         /\ mic' = mic /\ sender' = sender => DeviceIsSwitched'
<1>1. i \in Ops /\ Pending = {i}
  BY StagesTyped DEF Undisturbed, OneAtATime
<1>2. /\ ops'[i].stage = stage
      /\ ops'[i].kind = ops[i].kind
      /\ ops'[i].old = ops[i].old
      /\ ops'[i].device = ops[i].device
      /\ \A j \in Ops : j # i => ops'[j] = ops[j]
  BY <1>1 DEF Advance, TypeOK, Op
<1>3. Pending' = IF stage = "done" THEN {} ELSE {i}
  BY <1>1, <1>2 DEF Pending
<1>4. OneAtATime'
  BY <1>3 DEF OneAtATime
<1>5. ASSUME mic' = mic, sender' = sender PROVE DeviceIsSwitched'
  <2>1. SUFFICES ASSUME mic # None
                 PROVE  /\ sender > 1
                        /\ ops'[sender - 1] = ops[sender - 1]
    BY <1>5 DEF Undisturbed, DeviceIsSwitched
  <2>2. /\ sender > 1 /\ ops[sender - 1].stage = "done"
        /\ sender - 1 \in Ops
    BY <2>1, OpsAssumption DEF Undisturbed, DeviceIsSwitched, TypeOK, Tracks, Ops, NoTrack
  <2>3. ops[i].stage # "done"
    BY DEF Pending
  <2>. QED  BY <1>2, <2>2, <2>3
<1>. QED  BY <1>1, <1>2, <1>3, <1>4, <1>5

\* Its track is the only one that may become enabled or transmitted.
LEMMA AdvanceTracks ==
  ASSUME TypeOK, Undisturbed, NEW i \in Pending, NEW stage \in {"replace", "done"},
         Advance(i, stage),
         \A t \in enabled' : t \in enabled \/ t = TrackOf(i),
         sender' = sender \/ (stage = "done" /\ sender' = TrackOf(i))
  PROVE  TracksAreNew'
<1>1. \A j \in Ops : j # i => TrackOf(j) # TrackOf(i)
  BY StagesTyped DEF TrackOf, Ops
<1>2. i \in Ops
  BY StagesTyped
<1>. QED  BY <1>1, <1>2, AdvanceStep DEF Undisturbed, TracksAreNew, Pending

LEMMA SwitchGrantedStep ==
  ASSUME TypeOK, Undisturbed, up, NEW i \in Ops, SwitchGranted(i)
  PROVE  Undisturbed'
<1>1. /\ i \in Pending /\ Advance(i, "replace")
      /\ ops[i].kind = "switch" /\ ops[i].stage = "gum"
  BY DEF SwitchGranted, Pending
<1>2. /\ ops'[i].stage = "replace" /\ ops'[i].kind = "switch" /\ ops'[i].old = ops[i].old
      /\ Pending' = {i} /\ OneAtATime' /\ DeviceIsSwitched'
  BY <1>1, AdvanceStep DEF SwitchGranted
<1>3. /\ ops[i].old = sender /\ sender # NoTrack
      /\ TrackOf(i) # sender /\ TrackOf(i) \notin enabled
  BY <1>1 DEF Undisturbed, SwitchReplacesSender, TracksAreNew, TypeOK, Tracks, NoTrack
<1>4. /\ \A t \in enabled' : t \in enabled \/ t = TrackOf(i)
      /\ TrackOf(i) \in enabled' <=> sender \in enabled
      /\ sender \in enabled' <=> sender \in enabled
  BY <1>3 DEF SwitchGranted
<1>5. TracksAreNew'
  <2>1. sender' = sender
    BY DEF SwitchGranted
  <2>. QED  BY <1>1, <1>4, <2>1, AdvanceTracks
<1>6. SwitchReplacesSender' /\ RefreshIsDefault'
  BY <1>1, <1>2, <1>3 DEF SwitchGranted, SwitchReplacesSender, RefreshIsDefault, Undisturbed
<1>7. ~raced' => WishIsCarried' /\ (sender' \in enabled' <=> inCall' /\ ~muted')
  BY <1>2, <1>4 DEF SwitchGranted, callVars, Undisturbed, WishIsCarried
<1>. QED  BY <1>2, <1>5, <1>6, <1>7 DEF SwitchGranted, Undisturbed

LEMMA SwitchReplacedStep ==
  ASSUME TypeOK, Undisturbed, NEW i \in Ops, SwitchReplaced(i)
  PROVE  Undisturbed'
<1>1. /\ i \in Pending /\ Advance(i, "done")
      /\ ops[i].kind = "switch" /\ ops[i].stage = "replace"
  BY DEF SwitchReplaced, Pending
<1>2. /\ ops'[i].stage = "done" /\ ops'[i].kind = "switch"
      /\ ops'[i].device = ops[i].device
      /\ Pending' = {} /\ OneAtATime'
  BY <1>1, AdvanceStep
<1>3. /\ ops[i].old = sender /\ TrackOf(i) # sender /\ TrackOf(i) \in live
  BY <1>1 DEF Undisturbed, SwitchReplacesSender, TracksAreNew
<1>4. stream' = <<TrackOf(i)>>
  <2>1. stream' = Append(<<>>, TrackOf(i))
    BY <1>3, RemoveOnly DEF SwitchReplaced, Undisturbed
  <2>. QED  BY <2>1
<1>5. sender' = TrackOf(i) /\ sender' \in live'
  BY <1>3 DEF SwitchReplaced
<1>6. TracksAreNew'
  BY <1>1, AdvanceTracks DEF SwitchReplaced
<1>7. SwitchReplacesSender'
  BY <1>2 DEF SwitchReplacesSender
<1>8. RefreshIsDefault'
  <2>1. userProvided
    BY <1>1 DEF Undisturbed, RefreshIsDefault
  <2>. QED  BY <1>2, <2>1 DEF SwitchReplaced, RefreshIsDefault
<1>9. DeviceIsSwitched'
  <2>1. sender' > 1 /\ sender' - 1 = i
    BY <1>5 DEF TrackOf, Ops
  <2>2. mic' = ops[i].device
    BY DEF SwitchReplaced
  <2>. QED  BY <1>2, <2>1, <2>2 DEF DeviceIsSwitched
<1>10. ~raced' => WishIsCarried' /\ (sender' \in enabled' <=> inCall' /\ ~muted')
  BY <1>1, <1>2, <1>3, <1>5 DEF SwitchReplaced, callVars, Undisturbed, WishIsCarried
<1>. QED  BY <1>2, <1>4, <1>5, <1>6, <1>7, <1>8, <1>9, <1>10 DEF Undisturbed

LEMMA SwitchingStep ==
  ASSUME TypeOK, TypeOK', Undisturbed, up, NEW i \in Ops, Switching(i), ~overlapped'
  PROVE  Undisturbed'
<1>1. CASE SwitchGranted(i)
  BY <1>1, SwitchGrantedStep
<1>2. CASE SwitchReplaced(i)
  BY <1>2, SwitchReplacedStep
<1>3. CASE SwitchFails(i)
  <2>1. i \in Pending /\ Advance(i, "done")
    BY <1>3 DEF SwitchFails
  <2>2. sender' = sender /\ enabled' = enabled /\ mic' = mic
    BY <1>3 DEF SwitchFails
  <2>3. /\ Pending' = {} /\ OneAtATime' /\ DeviceIsSwitched' /\ TracksAreNew'
    BY <2>1, <2>2, AdvanceStep, AdvanceTracks
  <2>4. SwitchReplacesSender' /\ RefreshIsDefault' /\ WishIsCarried'
    BY <1>3, <2>3 DEF SwitchFails, SwitchReplacesSender, RefreshIsDefault, WishIsCarried,
                      Undisturbed
  <2>. QED  BY <1>3, <2>3, <2>4 DEF SwitchFails, callVars, Undisturbed
<1>4. ASSUME NEW d \in Devices, SwitchStarts(i, d) PROVE Undisturbed'
  <2>1. Start(i, "switch", d, sender)
    BY <1>4, FirstIsSender DEF SwitchStarts, Undisturbed
  <2>2. sender' = sender /\ enabled' = enabled /\ mic' = mic
    BY <1>4 DEF SwitchStarts, audioVars
  <2>3. /\ Pending' = {i} /\ OneAtATime' /\ DeviceIsSwitched' /\ TracksAreNew'
        /\ ops'[i].kind = "switch" /\ ops'[i].stage = "gum" /\ ops'[i].old = sender
    BY <2>1, <2>2, StartStep
  <2>4. SwitchReplacesSender' /\ RefreshIsDefault' /\ WishIsCarried'
    BY <1>4, <2>2, <2>3 DEF SwitchStarts, SwitchReplacesSender, RefreshIsDefault, WishIsCarried
  <2>. QED  BY <1>4, <2>3, <2>4 DEF SwitchStarts, audioVars, callVars, Undisturbed
<1>. QED  BY <1>1, <1>2, <1>3, <1>4 DEF Switching

LEMMA RefreshingStep ==
  ASSUME TypeOK, Undisturbed, up, NEW i \in Ops, Refreshing(i)
  PROVE  Undisturbed'
<1>0. i \in Pending /\ ops[i].kind = "refresh"
  BY DEF Refreshing, RefreshGranted, RefreshReplaced, RefreshFails, Pending
<1>a. ~userProvided /\ mic = None
  BY <1>0 DEF Undisturbed, RefreshIsDefault
<1>1. CASE RefreshGranted(i)
  <2>1. Advance(i, "replace") /\ sender' = sender /\ mic' = mic
        /\ enabled' = enabled \union {TrackOf(i)} /\ TrackOf(i) # sender
    BY <1>0, <1>1, <1>a DEF RefreshGranted, Undisturbed, TracksAreNew
  <2>2. /\ ops'[i].stage = "replace" /\ ops'[i].kind = "refresh"
        /\ Pending' = {i} /\ OneAtATime' /\ DeviceIsSwitched' /\ TracksAreNew'
    BY <1>0, <2>1, AdvanceStep, AdvanceTracks
  <2>3. SwitchReplacesSender' /\ RefreshIsDefault'
    BY <1>1, <1>a, <2>2 DEF RefreshGranted, SwitchReplacesSender, RefreshIsDefault
  <2>4. ~raced' => WishIsCarried' /\ (sender' \in enabled' <=> inCall' /\ ~muted')
    BY <1>0, <1>1, <2>1, <2>2 DEF RefreshGranted, callVars, Undisturbed, WishIsCarried
  <2>. QED  BY <1>1, <2>2, <2>3, <2>4 DEF RefreshGranted, Undisturbed
<1>2. CASE RefreshReplaced(i)
  <2>1. Advance(i, "done") /\ sender' = TrackOf(i) /\ mic' = None
        /\ enabled' = enabled /\ live' = live
    BY <1>2, <1>a DEF RefreshReplaced
  <2>2. Pending' = {} /\ OneAtATime' /\ TracksAreNew'
    BY <1>0, <2>1, AdvanceStep, AdvanceTracks
  <2>3. stream' = <<TrackOf(i)>>
    <3>1. stream' = Append(<<>>, TrackOf(i))
      BY <1>2, RemoveOnly, FirstIsSender DEF RefreshReplaced, Undisturbed
    <3>. QED  BY <3>1
  <2>4. sender' \in live'
    BY <1>0, <1>2, <2>1 DEF RefreshReplaced, Undisturbed, SwitchReplacesSender
  <2>5. SwitchReplacesSender' /\ RefreshIsDefault' /\ DeviceIsSwitched' /\ WishIsCarried'
    BY <2>1, <2>2 DEF SwitchReplacesSender, RefreshIsDefault, DeviceIsSwitched, WishIsCarried
  <2>6. ~raced' => (sender' \in enabled' <=> inCall' /\ ~muted')
    BY <1>0, <1>2, <2>1 DEF RefreshReplaced, callVars, Undisturbed, WishIsCarried
  <2>. QED  BY <2>1, <2>2, <2>3, <2>4, <2>5, <2>6 DEF Undisturbed
<1>3. CASE RefreshFails(i)
  <2>1. Advance(i, "done") /\ sender' = sender /\ mic' = mic /\ enabled' = enabled
    BY <1>3 DEF RefreshFails, audioVars
  <2>2. Pending' = {} /\ OneAtATime' /\ DeviceIsSwitched' /\ TracksAreNew'
    BY <1>0, <2>1, AdvanceStep, AdvanceTracks
  <2>3. SwitchReplacesSender' /\ RefreshIsDefault' /\ WishIsCarried'
    BY <1>a, <2>1, <2>2 DEF SwitchReplacesSender, RefreshIsDefault, WishIsCarried
  <2>. QED  BY <1>3, <2>2, <2>3 DEF RefreshFails, audioVars, callVars, Undisturbed
<1>. QED  BY <1>1, <1>2, <1>3 DEF Refreshing

LEMMA InitInv == Init => AudioInv
<1>. SUFFICES ASSUME Init PROVE TypeOK /\ Undisturbed
  BY DEF AudioInv
<1>1. Pending = {} /\ (\A i \in Ops : ops[i].stage = "new")
  BY DEF Init, NoOp, Pending
<1>2. \A i \in Ops : TrackOf(i) # 1
  BY DEF TrackOf, Ops
<1>3. TracksAreNew
  BY <1>1, <1>2 DEF Init, TracksAreNew
<1>4. /\ OneAtATime /\ SwitchReplacesSender /\ RefreshIsDefault /\ DeviceIsSwitched
      /\ WishIsCarried
  BY <1>1 DEF Init, OneAtATime, SwitchReplacesSender, RefreshIsDefault, DeviceIsSwitched,
              WishIsCarried
<1>. QED  BY <1>3, <1>4, InitType DEF Init, Undisturbed

\* A session that has ended stays ended, and operations that overlapped have.
LEMMA NeverBack ==
  ASSUME TypeOK, TypeOK', Next
  PROVE  (up' => up) /\ (overlapped => overlapped')
<1>1. CASE Calls
  BY <1>1 DEF Calls, CallStarts, CallEnds, Mute, Unmute, SessionEnds, Start, TypeOK
<1>2. ASSUME NEW i \in Ops, Switching(i) PROVE (up' => up) /\ (overlapped => overlapped')
  BY <1>2 DEF Switching, SwitchGranted, SwitchReplaced, SwitchFails, SwitchStarts, Start,
              TypeOK
<1>3. ASSUME NEW i \in Ops, Refreshing(i) PROVE (up' => up) /\ (overlapped => overlapped')
  BY <1>3 DEF Refreshing, RefreshGranted, RefreshReplaced, RefreshFails
<1>. QED  BY <1>1, <1>2, <1>3 DEF Next

LEMMA StepInv == AudioInv /\ [Next]_vars => AudioInv'
<1>. SUFFICES ASSUME AudioInv, [Next]_vars PROVE AudioInv'
  OBVIOUS
<1>1. TypeOK /\ TypeOK'
  BY StepType DEF AudioInv
<1>2. CASE UNCHANGED vars
  BY <1>1, <1>2 DEF vars, audioVars, callVars, AudioInv, Undisturbed, OneAtATime,
     TracksAreNew, SwitchReplacesSender, RefreshIsDefault, DeviceIsSwitched,
     WishIsCarried, Pending
<1>3. CASE Next
  <2>. SUFFICES ASSUME up', ~overlapped' PROVE Undisturbed'
    BY <1>1 DEF AudioInv
  <2>1. up /\ ~overlapped /\ Undisturbed
    BY <1>1, <1>3, NeverBack DEF AudioInv
  <2>. QED  BY <1>1, <1>3, <2>1, CallsStep, SwitchingStep, RefreshingStep DEF Next
<1>. QED  BY <1>2, <1>3

\* While operations do not overlap, the tracks, the wishes and the device that
\* the operations read and write stay consistent at every await (lines 769-845
\* and 1590-1644).
THEOREM AudioInvariant == Spec => []AudioInv
  BY InitInv, StepInv, PTL DEF Spec

-----------------------------------------------------------------------------
(* Theorems.                                                               *)

\* As long as operations do not overlap, the one track of the local stream, on
\* which mute acts, is the one transmitted (lines 816-840 and 1615-1630).
THEOREM StreamTransmitted == Spec => []StreamIsTransmitted
<1>1. AudioInv => StreamIsTransmitted
  BY DEF AudioInv, Undisturbed, StreamIsTransmitted
<1>. QED  BY <1>1, AudioInvariant, PTL

\* Without a race and without overlap the microphone is open in an unmuted call
\* and closed otherwise, however often device and track are replaced (lines
\* 809-812 and 1601-1622, rtc_peer_connection_manager_v2.ts lines 354-356, 566
\* and 957).
THEOREM WishTransmitted == Spec => []WishIsTransmitted
<1>1. AudioInv => WishIsTransmitted
  BY DEF AudioInv, Undisturbed, WishIsTransmitted
<1>. QED  BY <1>1, AudioInvariant, PTL

\* A request for the current device may be skipped (lines 776-785): the device
\* remembered is the one of the track transmitted.
THEOREM DeviceCurrent == Spec => []DeviceIsCurrent
<1>1. AudioInv => DeviceIsCurrent
  BY DEF AudioInv, Undisturbed, DeviceIsSwitched, DeviceIsCurrent
<1>. QED  BY <1>1, AudioInvariant, PTL
=============================================================================
