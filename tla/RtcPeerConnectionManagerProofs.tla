-------------------- MODULE RtcPeerConnectionManagerProofs --------------------
(***************************************************************************)
(* The safety of the V1 connection manager for any number of sessions.     *)
(*                                                                         *)
(* A handler is a composition of operators on the record of the system, so *)
(* the invariants are operators on such a record too, and each operator of *)
(* the module has a lemma that says what it keeps.  Three groups of        *)
(* invariants are carried along: types and names (Good), what always holds *)
(* (Sound), and what holds as long as nothing has overlapped (Orderly).    *)
(***************************************************************************)
EXTENDS RtcPeerConnectionManager, FiniteSetTheorems, TLAPS

-----------------------------------------------------------------------------
(* Types and names.                                                        *)

\* A channel that is there calls the handlers of a session.
Bound(w) == \A c \in Sessions : w.chan[c].state # "none" => w.chan[c].bound # 0

\* The numbers of F are new to everybody.
Spare(w, F) ==
  /\ F \subseteq Pcs
  /\ w.pc \notin F
  /\ w.closed \intersect F = {}
  /\ \A s \in Sessions : w.ses[s].pc \notin F /\ w.chan[s].pc \notin F

Good(w, F) == w \in Manager /\ Bound(w) /\ Spare(w, F)

-----------------------------------------------------------------------------
(* What always holds.                                                      *)

\* The manager's session has not ended.
Held(w) ==
  w.current # 0 => w.ses[w.current].state \in Active \union {"created"}

\* A session that has no local description yet is known to no channel.
Fresh(w) ==
  \A s \in Sessions : w.ses[s].state \in {"none", "created", "setup"} =>
    /\ w.chan[s].state = "none"
    /\ w.channel # s
    /\ \A c \in Sessions : w.chan[c].bound # s

\* A channel calls the session that refers to it.
Mutual(w) ==
  \A c, s \in Sessions : w.chan[c].bound = s /\ ~Over(w, s) => w.ses[s].sig = c

\* A session that waits on a channel of its own waits for one that answers.
Reports(w) ==
  \A s \in Sessions : w.ses[s].sig = s /\ w.chan[s].bound = s =>
    /\ w.ses[s].state = "signaling" => w.chan[s].state = "PendingConnect"
    /\ w.ses[s].state = "invited" => w.chan[s].state = "PendingAnswer"

\* The promise of a session that got beyond its answer has settled.
Settled(w) ==
  \A s \in Sessions :
    w.ses[s].state \in {"accepted", "contact"} => w.ses[s].promise # "pending"

\* Until the agent's data is known no session gets anywhere.
Asleep(w) ==
  ~w.agent =>
    /\ ~w.allowed /\ w.requests = {} /\ w.channel = 0
    /\ w.pending = 0 /\ w.waiting = 0
    /\ \A s \in Sessions : w.ses[s].state \notin Active /\ w.chan[s].state = "none"

\* Who waits, and for whom.
Waits(w) ==
  /\ w.suspended # 0 => ~w.agent
  /\ w.waiting # 0 /\ w.current # 0 => w.ses[w.current].state = "created"
  /\ w.waiting # 0 => w.ses[w.waiting].state \notin {"none", "created"}
  /\ w.pending # 0 => \/ w.ses[w.pending].state \notin {"none", "created"}
                      \/ w.waiting # 0

Sound(w) ==
  /\ Held(w)
  /\ Fresh(w)
  /\ Mutual(w)
  /\ Reports(w)
  /\ Settled(w)
  /\ Asleep(w)
  /\ Waits(w)

-----------------------------------------------------------------------------
(* What holds as long as nothing has overlapped.                           *)

\* Only the manager's session is at work.
Only(w) == \A s \in Sessions : w.ses[s].state \in Active => w.current = s

\* The manager's contact is that of its session.
Tokens(w) ==
  IF w.current = 0 THEN w.token = 0
  ELSE w.token = w.ses[w.current].token
       /\ w.token = IF w.ses[w.current].ahead THEN 0 ELSE w.current

\* In the persistent mode no standby connection is renewed.
NoRenewal(w) ==
  (Persistent(w) => ~w.standby) /\ "refresh" \notin w.requests

\* The session at work is on the manager's connection and channel, unless its
\* connection has been closed behind its back.
OnTheManagers(w) ==
  \A s \in Sessions : w.ses[s].state \in Active \ {"contact"} =>
    /\ w.ses[s].pc # 0
    /\ w.ses[s].pc \notin w.closed =>
         /\ w.ses[s].pc = w.pc
         /\ w.ses[s].state # "setup" =>
              /\ w.channel # 0 /\ w.ses[s].sig = w.channel
              /\ w.chan[w.channel].bound = s

\* Its INVITE was about the connection it is on.
Negotiated(w) ==
  \A s \in Sessions : w.ses[s].state \in {"invited", "accepted", "talking"} =>
    /\ w.ses[s].sig # 0
    /\ w.chan[w.ses[s].sig].bound = s
    /\ w.chan[w.ses[s].sig].pc = w.ses[s].pc

\* Nobody closes the connection of a conversation.
TalksOpen(w) ==
  \A s \in Sessions : w.ses[s].state = "talking" => w.ses[s].pc \notin w.closed

\* The manager's idle channel is that of its persistent connection.
IdleIsKept(w) ==
  w.channel # 0 /\ w.chan[w.channel].state = "Idle" =>
    Persistent(w) /\ w.chan[w.channel].pc = w.pc /\ w.pc \notin w.closed

\* The manager's unanswered channel belongs to its session and is, or is going
\* to be, about its connection.
PendingIsHeld(w) ==
  w.channel # 0 /\ w.chan[w.channel].state \in {"PendingConnect", "PendingInvite",
                                               "PendingAnswer"} =>
    /\ w.current # 0 /\ w.chan[w.channel].bound = w.current
    /\ w.pc \notin w.closed
    /\ \/ /\ w.chan[w.channel].state = "PendingConnect"
          /\ w.ses[w.current].state = "signaling" /\ w.ses[w.current].pc = w.pc
       \/ /\ w.chan[w.channel].state = "PendingAnswer"
          /\ w.ses[w.current].state = "invited" /\ w.chan[w.channel].pc = w.pc

\* A channel has a connection, and a connection that was closed and is still
\* the manager's has a channel.
Together(w) ==
  (w.channel # 0 => w.pc # 0) /\ (w.pc \in w.closed => w.channel # 0)

\* Whoever waits for a promise waits in vain.
InVain(w) ==
  w.waiting # 0 => Over(w, w.waiting) /\ w.ses[w.waiting].promise = "pending"

Orderly(w) ==
  /\ Only(w)
  /\ Tokens(w)
  /\ NoRenewal(w)
  /\ OnTheManagers(w)
  /\ Negotiated(w)
  /\ TalksOpen(w)
  /\ IdleIsKept(w)
  /\ PendingIsHeld(w)
  /\ Together(w)
  /\ InVain(w)

Sane(w) == Sound(w) /\ (w.raced = {} => Orderly(w))

\* The inductive invariant.
IInv ==
  /\ TypeOK
  /\ Bound(m)
  /\ m.closed \subseteq Referenced(m)
  /\ Sane(m)
  /\ m.waiting # 0 => m.ses[m.waiting].promise = "pending"

-----------------------------------------------------------------------------
(* Types and names, operator by operator.                                  *)

\* 0 is no session and no connection.
LEMMA Numbers ==
  /\ 0 \in 0..MaxSessions /\ 0 \in 0..MaxPcs /\ 0 \notin Sessions /\ 0 \notin Pcs
  /\ \A s : s \in 0..MaxSessions <=> s = 0 \/ s \in Sessions
  /\ \A p : p \in 0..MaxPcs <=> p = 0 \/ p \in Pcs
BY BoundsAssumption DEF Sessions, Pcs

\* The new records.
LEMMA NewRecords ==
  /\ NoSession \in SessionRecord /\ NoSession.pc = 0
  /\ NoChannel \in ChannelRecord /\ NoChannel.pc = 0 /\ NoChannel.state = "none"
  /\ NoSession.state = "none" /\ NoSession.promise = "pending" /\ NoSession.sig = 0
  /\ NoChannel.bound = 0
BY Numbers DEF NoSession, NoChannel, SessionRecord, ChannelRecord, SessionStates, ChannelStates,
    Promises

\* One session is replaced.
LEMMA GoodSession ==
  ASSUME NEW F, NEW w, Good(w, F), NEW s \in Sessions, NEW r \in SessionRecord,
         r.pc \notin F
  PROVE  Good([w EXCEPT !.ses[s] = r], F)
<1> DEFINE v == [w EXCEPT !.ses[s] = r]
<1>1. v \in Manager
  BY DEF Good, Manager
<1>2. Bound(v) /\ Spare(v, F)
  BY DEF Good, Manager, Bound, Spare
<1> QED
  BY <1>1, <1>2 DEF Good

\* One channel is replaced.
LEMMA GoodChannel ==
  ASSUME NEW F, NEW w, Good(w, F), NEW c \in Sessions, NEW r \in ChannelRecord,
         r.pc \notin F, r.state # "none" => r.bound # 0
  PROVE  Good([w EXCEPT !.chan[c] = r], F)
<1> DEFINE v == [w EXCEPT !.chan[c] = r]
<1>1. v \in Manager
  BY DEF Good, Manager
<1>2. Bound(v) /\ Spare(v, F)
  BY DEF Good, Manager, Bound, Spare
<1> QED
  BY <1>1, <1>2 DEF Good

\* Nothing but the fields without a connection in them changes.
LEMMA GoodRest ==
  ASSUME NEW F, NEW w, Good(w, F), NEW v \in Manager,
         v.pc \in {0, w.pc}, v.closed = w.closed, v.ses = w.ses, v.chan = w.chan
  PROVE  Good(v, F)
BY Numbers DEF Good, Bound, Spare

\* What a good record is made of.
LEMMA GoodParts ==
  ASSUME NEW F, NEW w, Good(w, F)
  PROVE  /\ w \in Manager /\ w.pc \in 0..MaxPcs /\ w.pc \notin F
         /\ w.closed \subseteq Pcs
         /\ w.current \in 0..MaxSessions /\ w.channel \in 0..MaxSessions
         /\ w.token \in 0..MaxSessions /\ w.pending \in 0..MaxSessions
         /\ w.waiting \in 0..MaxSessions
         /\ \A s \in Sessions : /\ w.ses[s] \in SessionRecord
                                /\ w.ses[s].state \in SessionStates
                                /\ w.ses[s].pc \in 0..MaxPcs /\ w.ses[s].pc \notin F
                                /\ w.ses[s].sig \in 0..MaxSessions
                                /\ w.ses[s].token \in 0..MaxSessions
         /\ \A c \in Sessions : /\ w.chan[c] \in ChannelRecord
                                /\ w.chan[c].pc \in 0..MaxPcs /\ w.chan[c].pc \notin F
                                /\ w.chan[c].state \in ChannelStates
                                /\ w.chan[c].bound \in 0..MaxSessions
                                /\ w.chan[c].state # "none" => w.chan[c].bound \in Sessions
<1>1. w \in Manager
  BY DEF Good
<1>2. \A s \in Sessions : w.ses[s] \in SessionRecord /\ w.chan[s] \in ChannelRecord
  BY <1>1 DEF Manager
<1>3. \A s \in Sessions : /\ w.ses[s].pc \in 0..MaxPcs /\ w.ses[s].state \in SessionStates
                          /\ w.ses[s].sig \in 0..MaxSessions
                          /\ w.ses[s].token \in 0..MaxSessions
  BY <1>2 DEF SessionRecord
<1>4. \A c \in Sessions : /\ w.chan[c].pc \in 0..MaxPcs /\ w.chan[c].state \in ChannelStates
                          /\ w.chan[c].bound \in 0..MaxSessions
  BY <1>2 DEF ChannelRecord
<1>5. /\ w.pc \in 0..MaxPcs /\ w.closed \subseteq Pcs
      /\ w.current \in 0..MaxSessions /\ w.channel \in 0..MaxSessions
      /\ w.token \in 0..MaxSessions /\ w.pending \in 0..MaxSessions
      /\ w.waiting \in 0..MaxSessions
  BY <1>1 DEF Manager
<1> QED
  BY <1>1, <1>2, <1>3, <1>4, <1>5, Numbers DEF Good, Spare, Bound

\* A state of a session or a channel is replaced.
LEMMA GoodStates ==
  ASSUME NEW F, NEW w, Good(w, F), NEW s \in Sessions
  PROVE  /\ \A st \in SessionStates : Good([w EXCEPT !.ses[s].state = st], F)
         /\ \A st \in ChannelStates \ {"none"} :
              w.chan[s].bound # 0 => Good([w EXCEPT !.chan[s].state = st], F)
<1>1. ASSUME NEW st \in SessionStates PROVE Good([w EXCEPT !.ses[s].state = st], F)
  <2>1. [w.ses[s] EXCEPT !.state = st] \in SessionRecord
    BY GoodParts DEF SessionRecord
  <2>2. [w.ses[s] EXCEPT !.state = st].pc \notin F
    BY GoodParts DEF SessionRecord
  <2> QED
    BY <2>1, <2>2, GoodSession
<1>2. ASSUME NEW st \in ChannelStates \ {"none"}, w.chan[s].bound # 0
      PROVE  Good([w EXCEPT !.chan[s].state = st], F)
  <2> DEFINE r == [w.chan[s] EXCEPT !.state = st]
  <2>1. r \in ChannelRecord
    BY GoodParts DEF ChannelRecord
  <2>2. r.pc \notin F /\ r.bound # 0
    BY GoodParts, <1>2, Numbers DEF ChannelRecord
  <2> HIDE DEF r
  <2>3. Good([w EXCEPT !.chan[s] = r], F)
    BY <2>1, <2>2, GoodChannel
  <2> QED
    BY <2>3 DEF r
<1> QED
  BY <1>1, <1>2

\* Another field of a session or of a channel is replaced.
LEMMA GoodFields ==
  ASSUME NEW F, NEW w, Good(w, F), NEW s \in Sessions
  PROVE  /\ \A x \in 0..MaxSessions : Good([w EXCEPT !.ses[s].sig = x], F)
         /\ \A x \in 0..MaxPcs \ F : Good([w EXCEPT !.ses[s].pc = x], F)
         /\ \A x \in Promises : Good([w EXCEPT !.ses[s].promise = x], F)
         /\ \A x \in Sessions : Good([w EXCEPT !.chan[s].bound = x], F)
         /\ \A x \in 0..MaxPcs \ F : Good([w EXCEPT !.chan[s].pc = x], F)
<1>1. \A x \in 0..MaxSessions : Good([w EXCEPT !.ses[s].sig = x], F)
  <2> TAKE x \in 0..MaxSessions
  <2>1. [w.ses[s] EXCEPT !.sig = x] \in SessionRecord
    BY GoodParts DEF SessionRecord
  <2>2. [w.ses[s] EXCEPT !.sig = x].pc \notin F
    BY GoodParts DEF SessionRecord
  <2> QED
    BY <2>1, <2>2, GoodSession
<1>2. \A x \in 0..MaxPcs \ F : Good([w EXCEPT !.ses[s].pc = x], F)
  <2> TAKE x \in 0..MaxPcs \ F
  <2>1. [w.ses[s] EXCEPT !.pc = x] \in SessionRecord
    BY GoodParts DEF SessionRecord
  <2>2. [w.ses[s] EXCEPT !.pc = x].pc \notin F
    BY GoodParts DEF SessionRecord
  <2> QED
    BY <2>1, <2>2, GoodSession
<1>3. \A x \in Promises : Good([w EXCEPT !.ses[s].promise = x], F)
  <2> TAKE x \in Promises
  <2>1. [w.ses[s] EXCEPT !.promise = x] \in SessionRecord
    BY GoodParts DEF SessionRecord
  <2>2. [w.ses[s] EXCEPT !.promise = x].pc \notin F
    BY GoodParts DEF SessionRecord
  <2> QED
    BY <2>1, <2>2, GoodSession
<1>4. \A x \in Sessions : Good([w EXCEPT !.chan[s].bound = x], F)
  <2> TAKE x \in Sessions
  <2>1. [w.chan[s] EXCEPT !.bound = x] \in ChannelRecord
    BY GoodParts, Numbers DEF ChannelRecord
  <2>2. /\ [w.chan[s] EXCEPT !.bound = x].pc \notin F
        /\ [w.chan[s] EXCEPT !.bound = x].bound # 0
    BY GoodParts, Numbers DEF ChannelRecord
  <2> QED
    BY <2>1, <2>2, GoodChannel
<1>5. \A x \in 0..MaxPcs \ F : Good([w EXCEPT !.chan[s].pc = x], F)
  <2> TAKE x \in 0..MaxPcs \ F
  <2> DEFINE r == [w.chan[s] EXCEPT !.pc = x]
  <2>1. r \in ChannelRecord
    BY GoodParts DEF ChannelRecord
  <2>2. r.pc = x /\ r.state = w.chan[s].state /\ r.bound = w.chan[s].bound
    BY GoodParts DEF ChannelRecord
  <2> HIDE DEF r
  <2>3. Good([w EXCEPT !.chan[s] = r], F)
    BY <2>1, <2>2, GoodChannel, GoodParts, Numbers
  <2> QED
    BY <2>3 DEF r
<1> QED
  BY <1>1, <1>2, <1>3, <1>4, <1>5

\* strategy.close()
LEMMA CloseGood ==
  ASSUME NEW F, NEW w, Good(w, F), NEW p \in 0..MaxPcs, p \notin F
  PROVE  Good(Close(w, p), F)
<1> DEFINE q == w.closed \union ({p} \ {0})
<1>1. q \in SUBSET Pcs
  BY GoodParts, Numbers
<1>2. q \intersect F = {}
  BY DEF Good, Spare
<1>3. Close(w, p) = [w EXCEPT !.closed = q]
  BY DEF Close
<1> HIDE DEF q
<1>4. [w EXCEPT !.closed = q] \in Manager
  BY <1>1 DEF Good, Manager
<1>5. Bound([w EXCEPT !.closed = q]) /\ Spare([w EXCEPT !.closed = q], F)
  BY <1>1, <1>2 DEF Good, Manager, Bound, Spare
<1> QED
  BY <1>3, <1>4, <1>5 DEF Good

\* A new connection is one of the new numbers, if there are any left.
LEMMA NewPcIsNew ==
  ASSUME NEW F, NEW w, Good(w, F), F # {}
  PROVE  NewPc(w) \in Pcs \ (Referenced(w) \union w.closed)
<1>1. PICK p \in F : TRUE
  OBVIOUS
<1>2. p \in Pcs /\ p \notin Referenced(w) \union w.closed
  BY <1>1 DEF Good, Spare, Referenced
<1> QED
  BY <1>2 DEF NewPc

\* bye()
LEMMA ByeGood ==
  ASSUME NEW F, NEW w, Good(w, F), NEW c \in Sessions
  PROVE  Good(Bye(w, c), F)
<1>1. "PendingRemoteHangup" \in ChannelStates \ {"none"}
  BY DEF ChannelStates
<1> QED
  BY <1>1, GoodStates, GoodParts, Numbers DEF Bye

\* destroy()
LEMMA DestroyGood ==
  ASSUME NEW F, NEW w, Good(w, F), NEW byServer \in BOOLEAN
  PROVE  Good(Destroy(w, byServer), F)
<1> DEFINE said == IF ~byServer /\ w.channel # 0 THEN Bye(w, w.channel) ELSE w
           v    == Close(said, w.pc)
<1>1. Good(said, F)
  BY ByeGood, GoodParts, Numbers
<1>2. Good(v, F)
  BY <1>1, CloseGood, GoodParts
<1>3. Destroy(w, byServer) \in
        {w, [v EXCEPT !.pc = 0, !.channel = 0, !.inactive = FALSE]}
  BY DEF Destroy
<1> HIDE DEF v
<1>4. [v EXCEPT !.pc = 0, !.channel = 0, !.inactive = FALSE] \in Manager
  BY <1>2, Numbers DEF Good, Manager
<1>5. Good([v EXCEPT !.pc = 0, !.channel = 0, !.inactive = FALSE], F)
  BY <1>2, <1>4, GoodRest DEF Good, Manager
<1> QED
  BY <1>3, <1>5

\* What follows a failure.
LEMMA ForgetGood ==
  ASSUME NEW F, NEW w, Good(w, F)
  PROVE  Good(Forget(w), F)
<1> DEFINE v == [w EXCEPT !.current = 0]
           u == Destroy(v, FALSE)
<1>1. v \in Manager
  BY Numbers DEF Good, Manager
<1>2. Good(v, F)
  BY <1>1, GoodRest DEF Good, Manager
<1>3. Good(u, F)
  BY <1>2, DestroyGood
<1>4. Forget(w) = [u EXCEPT !.token = 0]
  BY DEF Forget
<1> HIDE DEF u
<1>5. [u EXCEPT !.token = 0] \in Manager
  BY <1>3, Numbers DEF Good, Manager
<1> QED
  BY <1>3, <1>4, <1>5, GoodRest DEF Good, Manager

\* _stopSession
LEMMA StopSessionGood ==
  ASSUME NEW F, NEW w, Good(w, F), NEW s \in Sessions
  PROVE  Good(StopSession(w, s), F)
<1> DEFINE v == Close(w, w.ses[s].pc)
           r == [v.ses[s] EXCEPT !.pc = 0]
<1>1. Good(v, F)
  BY CloseGood, GoodParts
<1>2. StopSession(w, s) \in {w, [v EXCEPT !.ses[s] = r]}
  BY DEF StopSession
<1> HIDE DEF v
<1>3. r \in SessionRecord /\ r.pc \notin F
  BY <1>1, GoodParts, Numbers DEF SessionRecord, Good, Spare
<1> HIDE DEF r
<1>4. Good([v EXCEPT !.ses[s] = r], F)
  BY <1>1, <1>3, GoodSession
<1> QED
  BY <1>2, <1>4

\* transit(FailedState)
LEMMA FailGood ==
  ASSUME NEW F, NEW w, Good(w, F), NEW s \in Sessions
  PROVE  Good(Fail(w, s), F)
<1>1. Good([w EXCEPT !.ses[s].state = "failed"], F)
  BY GoodStates DEF SessionStates
<1> QED
  BY <1>1, ForgetGood, StopSessionGood DEF Fail

\* A promise settles.
LEMMA SettleGood ==
  ASSUME NEW F, NEW w, Good(w, F), NEW s \in Sessions, NEW how \in {"resolved", "rejected"}
  PROVE  Good(Settle(w, s, how), F)
<1> DEFINE r == [w.ses[s] EXCEPT !.promise = how]
<1>1. r \in SessionRecord /\ r.pc \notin F
  BY GoodParts DEF SessionRecord, Promises
<1>2. Settle(w, s, how) \in {w, [w EXCEPT !.ses[s] = r]}
  BY DEF Settle
<1> HIDE DEF r
<1> QED
  BY <1>1, <1>2, GoodSession

\* The mode changes.
LEMMA AllowGood ==
  ASSUME NEW F, NEW w, Good(w, F), NEW c, NEW ok \in BOOLEAN
  PROVE  Good(Allow(w, c, ok), F)
<1> DEFINE q == IF ok # w.allowed /\ w.channel # c THEN w.raced \union {"mode"} ELSE w.raced
<1>1. q \in Overlaps
  BY DEF Good, Manager, Overlaps
<1>2. Allow(w, c, ok) = [w EXCEPT !.allowed = ok, !.raced = q]
  BY DEF Allow
<1> HIDE DEF q
<1> DEFINE v == [w EXCEPT !.allowed = ok, !.raced = q]
<1>3. /\ v \in Manager
      /\ v.pc = w.pc /\ v.closed = w.closed /\ v.ses = w.ses /\ v.chan = w.chan
  BY <1>1 DEF Good, Manager
<1> HIDE DEF v
<1> QED
  BY <1>2, <1>3, GoodRest DEF v

\* closeEarlyMediaConnection
LEMMA CloseEarlyMediaGood ==
  ASSUME NEW F, NEW w, Good(w, F)
  PROVE  Good(CloseEarlyMedia(w), F)
<1>1. CloseEarlyMedia(w) \in Manager
  BY DEF CloseEarlyMedia, Good, Manager
<1> QED
  BY <1>1, GoodRest DEF CloseEarlyMedia, Good, Manager

\* FailedState of the channel.
LEMMA FailChannelGood ==
  ASSUME NEW F, NEW w, Good(w, F), NEW c \in Sessions, w.chan[c].state # "none",
         NEW denied \in BOOLEAN
  PROVE  Good(FailChannel(w, c, denied), F)
<1> DEFINE b      == w.chan[c].bound
           failed == [w EXCEPT !.chan[c].state = "Failed"]
           mode   == IF denied THEN Allow(CloseEarlyMedia(failed), c, FALSE) ELSE failed
<1>1. b \in Sessions
  BY GoodParts
<1>2. "Failed" \in ChannelStates \ {"none"}
  BY DEF ChannelStates
<1>3. Good(failed, F)
  BY <1>1, <1>2, GoodStates, Numbers
<1>4. Good(mode, F)
  BY <1>3, CloseEarlyMediaGood, AllowGood
<1>5. Good(Fail(mode, b), F)
  BY <1>1, <1>4, FailGood
<1>6. Good(Settle(Fail(mode, b), b, "rejected"), F)
  BY <1>1, <1>5, SettleGood
<1>7. FailChannel(w, c, denied) \in {mode, Fail(mode, b), Settle(Fail(mode, b), b, "rejected")}
  BY DEF FailChannel
<1> QED
  BY <1>4, <1>5, <1>6, <1>7

\* hangup() of the channel.
LEMMA HangupChannelGood ==
  ASSUME NEW F, NEW w, Good(w, F), NEW c \in Sessions
  PROVE  Good(HangupChannel(w, c), F)
<1> DEFINE i == [w EXCEPT !.chan[c].state = "Idle"]
<1>1. {"Idle", "Disconnected"} \subseteq ChannelStates \ {"none"}
  BY DEF ChannelStates
<1>2. CASE w.chan[c].state = "Talking" /\ Persistent(w)
  <2>1. Good(i, F)
    BY <1>1, <1>2, GoodStates, GoodParts, Numbers
  <2>2. HangupChannel(w, c) = [i EXCEPT !.inactive = TRUE]
    BY <1>2 DEF HangupChannel
  <2> HIDE DEF i
  <2>3. [i EXCEPT !.inactive = TRUE] \in Manager
    BY <2>1 DEF Good, Manager
  <2> QED
    BY <2>1, <2>2, <2>3, GoodRest DEF Good, Manager
<1>3. CASE w.chan[c].state = "PendingLocalHangup"
  BY <1>1, <1>3, GoodStates, GoodParts, Numbers DEF HangupChannel
<1>4. CASE w.chan[c].state = "PendingAnswer"
  BY <1>4, FailChannelGood DEF HangupChannel
<1>5. CASE /\ ~(w.chan[c].state = "Talking" /\ Persistent(w))
           /\ w.chan[c].state \notin {"PendingLocalHangup", "PendingAnswer"}
  BY <1>5, ByeGood DEF HangupChannel
<1> QED
  BY <1>2, <1>3, <1>4, <1>5

\* transit(DisconnectedState)
LEMMA DisconnectGood ==
  ASSUME NEW F, NEW w, Good(w, F), NEW s \in Sessions, NEW sick \in BOOLEAN
  PROVE  Good(Disconnect(w, s, sick), F)
<1>1. ASSUME NEW v, Good(v, F)
      PROVE  Good(StopSession([v EXCEPT !.ses[s].state = "disconnected"], s), F)
  BY <1>1, GoodStates, StopSessionGood DEF SessionStates
<1> QED
  BY <1>1, ForgetGood DEF Disconnect

\* hangup() of a session.
LEMMA HangupSessionGood ==
  ASSUME NEW F, NEW w, Good(w, F), NEW s \in Sessions, NEW sick \in BOOLEAN
  PROVE  Good(HangupSession(w, s, sick), F)
<1>1. w.channel # 0 => w.channel \in Sessions
  BY GoodParts, Numbers
<1> QED
  BY <1>1, HangupChannelGood, DisconnectGood, FailGood DEF HangupSession

\* The manager lets go of its session, and outside the persistent mode of the
\* connection too.
Dropped(w) ==
  LET over == [w EXCEPT !.current = 0, !.token = 0] IN
  IF Persistent(over) THEN over ELSE [over EXCEPT !.channel = 0, !.pc = 0]

\* Dropping the session invents no name.
LEMMA DroppedGood ==
  ASSUME NEW F, NEW w, Good(w, F)
  PROVE  Good(Dropped(w), F)
<1>1. Dropped(w) \in Manager
  BY Numbers DEF Dropped, Good, Manager
<1> QED
  BY <1>1, GoodRest DEF Dropped, Good, Manager

\* hangup() of the manager.
LEMMA HangupGood ==
  ASSUME NEW F, NEW w, Good(w, F), NEW sick \in BOOLEAN
  PROVE  Good(Hangup(w, sick), F)
<1> DEFINE hung == IF w.current = 0 THEN w ELSE HangupSession(w, w.current, sick)
<1>1. Good(hung, F)
  BY HangupSessionGood, GoodParts, Numbers
<1>2. Hangup(w, sick) = Dropped(hung)
  BY DEF Hangup, Dropped
<1> QED
  BY <1>1, <1>2, DroppedGood

\* The application loses interest.
LEMMA LetGoGood ==
  ASSUME NEW F, NEW w, Good(w, F)
  PROVE  Good(LetGo(w), F)
<1> DEFINE new == [s \in Sessions |->
             IF w.ses[s].state = "created" /\ ~w.ses[s].ahead
               THEN [w.ses[s] EXCEPT !.state = "failed"] ELSE w.ses[s]]
<1>1. \A s \in Sessions : new[s] \in SessionRecord /\ new[s].pc = w.ses[s].pc
  BY GoodParts DEF SessionRecord, SessionStates
<1>2. new \in [Sessions -> SessionRecord]
  BY <1>1
<1>3. LetGo(w) = [w EXCEPT !.ses = new]
  BY DEF LetGo
<1>4. \A s \in Sessions : new[s].pc \notin F
  BY <1>1, GoodParts
<1> HIDE DEF new
<1>5. [w EXCEPT !.ses = new] \in Manager
  BY <1>2 DEF Good, Manager
<1> QED
  BY <1>3, <1>4, <1>5 DEF Good, Bound, Spare, Manager

\* createSession()
LEMMA CreateSessionGood ==
  ASSUME NEW F, NEW w, Good(w, F), NEW s \in Sessions, NEW call \in {0, s},
         NEW cleanup \in BOOLEAN
  PROVE  Good(CreateSession(w, s, call, cleanup), F)
<1> DEFINE clean  == IF cleanup THEN Forget(w) ELSE w
           token  == IF call = 0 THEN clean.token ELSE call
           others == {t \in Sessions \ {s} : Alive(clean, t)}
           raced  == IF others = {} THEN clean.raced ELSE clean.raced \union {"sessions"}
           r == [NoSession EXCEPT !.state = "created", !.ahead = (call = 0), !.token = token]
           v == [clean EXCEPT !.current = s, !.token = token, !.raced = raced]
<1>1. Good(clean, F)
  BY ForgetGood
<1>2. CreateSession(w, s, call, cleanup) = [v EXCEPT !.ses[s] = r]
  BY DEF CreateSession
<1> HIDE DEF clean
<1>3. raced \in Overlaps
  BY <1>1 DEF Good, Manager, Overlaps
<1>4. token \in 0..MaxSessions /\ s \in 0..MaxSessions
  BY <1>1, GoodParts, Numbers
<1> HIDE DEF raced, token
<1>5. r \in SessionRecord
  BY <1>4, NewRecords DEF SessionRecord, SessionStates
<1>6. r.pc \notin F
  BY NewRecords, Numbers DEF Good, Spare, SessionRecord
<1> HIDE DEF r
<1>7. /\ v \in Manager
      /\ v.pc = clean.pc /\ v.closed = clean.closed
      /\ v.ses = clean.ses /\ v.chan = clean.chan
  BY <1>1, <1>3, <1>4 DEF Good, Manager
<1> HIDE DEF v
<1>8. Good(v, F)
  BY <1>1, <1>7, GoodRest
<1> QED
  BY <1>2, <1>5, <1>6, <1>8, GoodSession

\* requestPeerConnection up to its await.
LEMMA RequestGood ==
  ASSUME NEW F, NEW w, Good(w, F), NEW why \in {"refresh", "activate"}
  PROVE  Good(Request(w, why), F)
<1> DEFINE v == [w EXCEPT !.requests = w.requests \union {why}]
           u == [w EXCEPT !.inFlight = TRUE]
<1>1. /\ v \in Manager
      /\ v.pc = w.pc /\ v.closed = w.closed /\ v.ses = w.ses /\ v.chan = w.chan
  BY DEF Good, Manager
<1>2. /\ u \in Manager
      /\ u.pc = w.pc /\ u.closed = w.closed /\ u.ses = w.ses /\ u.chan = w.chan
  BY DEF Good, Manager
<1>3. Request(w, why) \in {w, v, u}
  BY DEF Request
<1> HIDE DEF v, u
<1> QED
  BY <1>1, <1>2, <1>3, GoodRest

\* A fresh number is used for a connection of the manager's.
LEMMA GoodNewPc ==
  ASSUME NEW F, NEW w, Good(w, F), NEW p \in Pcs
  PROVE  Good([w EXCEPT !.pc = p], F \ {p})
<1>1. [w EXCEPT !.pc = p] \in Manager
  BY Numbers DEF Good, Manager
<1> QED
  BY <1>1 DEF Good, Bound, Spare, Manager

\* Fewer numbers are new.
LEMMA GoodLess ==
  ASSUME NEW F, NEW w, Good(w, F), NEW G \in SUBSET F
  PROVE  Good(w, G)
BY DEF Good, Spare

\* getPeerConnection: the connection is the one there was or a new one.
LEMMA GetPcGood ==
  ASSUME NEW F, NEW w, Good(w, F), F # {}
  PROVE  \/ GetPc(w) = w
         \/ /\ GetPc(w).pc = NewPc(w) /\ GetPc(w).closed = w.closed
            /\ NewPc(w) \in Pcs \ w.closed
            /\ Good(GetPc(w), F \ {NewPc(w)})
<1> DEFINE n == NewPc(w)
           v == [w EXCEPT !.pc = n]
           u == [w EXCEPT !.standby = FALSE, !.pc = n]
<1>1. n \in Pcs \ w.closed
  BY NewPcIsNew
<1> HIDE DEF n
<1>2. Good(v, F \ {n})
  BY <1>1, GoodNewPc
<1>3. /\ u \in Manager
      /\ u.pc = v.pc /\ u.closed = v.closed /\ u.ses = v.ses /\ u.chan = v.chan
  BY <1>1, Numbers DEF Good, Manager
<1>4. v.pc = n /\ v.closed = w.closed
  BY DEF Good, Manager
<1>5. GetPc(w) \in {w, v, Request(u, "refresh")}
  BY DEF GetPc, n
<1> HIDE DEF v, u
<1>6. Good(u, F \ {n})
  BY <1>2, <1>3, GoodRest
<1>7. Good(Request(u, "refresh"), F \ {n})
  BY <1>6, RequestGood
<1>8. Request(u, "refresh").pc = u.pc /\ Request(u, "refresh").closed = u.closed
  BY <1>6 DEF Request, Good, Manager
<1> QED
  BY <1>1, <1>2, <1>3, <1>4, <1>5, <1>7, <1>8 DEF n

\* ConnectContactState
LEMMA ConnectContactGood ==
  ASSUME NEW F, NEW w, Good(w, F), NEW s \in Sessions, w.channel # 0
  PROVE  Good(ConnectContact(w, s), F)
<1> DEFINE c  == w.channel
           v  == [w EXCEPT !.ses[s].sig = c]
           u  == [v EXCEPT !.chan[c].bound = s]
           t1 == [u EXCEPT !.chan[c].state = "Talking"]
           t2 == [t1 EXCEPT !.ses[s].state = "talking"]
           r1 == [u EXCEPT !.ses[s].state = "contact"]
           r2 == [r1 EXCEPT !.ses[s].promise = "threw"]
<1>1. ConnectContact(w, s) \in {t2, r2}
  BY DEF ConnectContact
<1>2. c \in Sessions /\ c \in 0..MaxSessions
  BY GoodParts, Numbers
<1>3. /\ "Talking" \in ChannelStates \ {"none"}
      /\ "talking" \in SessionStates /\ "contact" \in SessionStates
  BY DEF ChannelStates, SessionStates
<1>4. Good(v, F)
  BY <1>2, GoodFields
<1> HIDE DEF v
<1>5. Good(u, F)
  BY <1>2, <1>4, GoodFields
<1>6. u.chan[c].bound # 0
  BY <1>2, <1>4, Numbers, GoodParts DEF Manager, ChannelRecord
<1> HIDE DEF u
<1>7. Good(t1, F)
  BY <1>2, <1>3, <1>5, <1>6, GoodStates
<1> HIDE DEF t1
<1>8. Good(t2, F)
  BY <1>3, <1>7, GoodStates
<1>9. Good(r1, F)
  BY <1>3, <1>5, GoodStates
<1> HIDE DEF r1
<1>10. Good(r2, F)
  BY <1>9, GoodFields DEF Promises
<1> QED
  BY <1>1, <1>8, <1>10

\* connect() of a session whose connection is open.
LEMMA ConnectSessionGood ==
  ASSUME NEW F, NEW w, Good(w, F), NEW s \in Sessions,
         NEW G \in SUBSET F, NEW p \in 0..MaxPcs \ G,
         p = IF w.pc \in w.closed THEN NewPc(w) ELSE w.pc
  PROVE  Good(ConnectSession(w, s), G)
<1> DEFINE with == [w EXCEPT !.ses[s].pc = p]
<1>1. Good(w, G)
  BY GoodLess
<1>2. Good(with, G)
  BY <1>1, GoodFields
<1>3. ConnectSession(w, s) =
        IF Persistent(w) /\ w.channel # 0 THEN ConnectContact(with, s)
        ELSE [with EXCEPT !.ses[s].state = "setup"]
  BY DEF ConnectSession
<1>4. with.channel = w.channel
  BY DEF Good, Manager
<1> HIDE DEF with
<1>5. w.channel # 0 => Good(ConnectContact(with, s), G)
  BY <1>2, <1>4, ConnectContactGood
<1>6. Good([with EXCEPT !.ses[s].state = "setup"], G)
  BY <1>2, GoodStates DEF SessionStates
<1> QED
  BY <1>3, <1>5, <1>6

\* connect() from getPeerConnection on needs at most one new number.
LEMMA BeginGood ==
  ASSUME NEW F, NEW w, Good(w, F), F # {}
  PROVE  \E n \in Pcs : Good(Begin(w), F \ {n})
<1>1. CASE w.current = 0
  <2>1. PICK n \in F : n \in Pcs
    BY DEF Good, Spare
  <2> QED
    BY <1>1, <2>1, GoodLess DEF Begin
<1>2. CASE w.current # 0 /\ GetPc(w) = w
  <2>1. Begin(w) = ConnectSession(w, w.current)
    BY <1>2 DEF Begin
  <2>2. w.current \in Sessions
    BY <1>2, GoodParts, Numbers
  <2> DEFINE n == NewPc(w)
             p == IF w.pc \in w.closed THEN n ELSE w.pc
  <2>3. n \in Pcs
    BY NewPcIsNew
  <2> HIDE DEF n
  <2>4. p \in 0..MaxPcs \ (F \ {n})
    BY <2>3, GoodParts, Numbers
  <2>5. Good(ConnectSession(w, w.current), F \ {n})
    BY <2>2, <2>4, ConnectSessionGood DEF n
  <2> QED
    BY <2>1, <2>3, <2>5
<1>3. CASE w.current # 0 /\ GetPc(w) # w
  <2> DEFINE v == GetPc(w)
             n == NewPc(w)
  <2>1. Begin(w) = ConnectSession(v, w.current)
    BY <1>3 DEF Begin
  <2>2. w.current \in Sessions
    BY <1>3, GoodParts, Numbers
  <2>3. /\ v.pc = n /\ v.closed = w.closed /\ n \in Pcs \ w.closed
        /\ Good(v, F \ {n})
    BY <1>3, GetPcGood
  <2> HIDE DEF v, n
  <2>4. v.pc = IF v.pc \in v.closed THEN NewPc(v) ELSE v.pc
    BY <2>3
  <2>5. v.pc \in 0..MaxPcs \ (F \ {n})
    BY <2>3, GoodParts
  <2>6. Good(ConnectSession(v, w.current), F \ {n})
    BY <2>2, <2>3, <2>4, <2>5, ConnectSessionGood
  <2> QED
    BY <2>1, <2>3, <2>6
<1> QED
  BY <1>1, <1>2, <1>3

\* connect() after the promise.
LEMMA ProceedGood ==
  ASSUME NEW F, NEW w, Good(w, F), F # {}
  PROVE  \E n \in Pcs : Good(Proceed(w), F \ {n})
<1> DEFINE awake == [w EXCEPT !.inactive = FALSE]
           later == [awake EXCEPT !.suspended = w.current]
<1>1. /\ awake \in Manager
      /\ awake.pc = w.pc /\ awake.closed = w.closed
      /\ awake.ses = w.ses /\ awake.chan = w.chan
  BY DEF Good, Manager
<1>2. later \in Manager /\ later.pc = awake.pc /\ later.closed = awake.closed
      /\ later.ses = awake.ses /\ later.chan = awake.chan
  BY DEF Good, Manager
<1>3. Proceed(w) \in {awake, Begin(awake), later}
  BY GoodParts DEF Proceed, Good, Manager
<1> HIDE DEF awake, later
<1>4. Good(awake, F) /\ Good(later, F)
  BY <1>1, <1>2, GoodRest
<1>5. PICK n \in F : n \in Pcs
  BY DEF Good, Spare
<1>6. Good(awake, F \ {n}) /\ Good(later, F \ {n})
  BY <1>4, GoodLess
<1> QED
  BY <1>3, <1>4, <1>5, <1>6, BeginGood

\* connect() whose promise was rejected.
LEMMA GiveUpGood ==
  ASSUME NEW F, NEW w, Good(w, F), NEW how
  PROVE  Good(GiveUp(w, how), F)
<1>1. w.current # 0 => Good([Forget(w) EXCEPT !.ses[w.current].state = "failed"], F)
  BY ForgetGood, GoodStates, GoodParts, Numbers DEF SessionStates
<1> QED
  BY <1>1 DEF GiveUp

\* connect() is not waiting, or waits for a promise that has not settled.
WaitsRight(w) == w.waiting = 0 \/ w.ses[w.waiting].promise = "pending"

\* The promise fields change.
LEMMA GoodPromises ==
  ASSUME NEW F, NEW w, Good(w, F), NEW p \in 0..MaxSessions, NEW q \in 0..MaxSessions
  PROVE  /\ Good([w EXCEPT !.waiting = p, !.pending = q], F)
         /\ Good([w EXCEPT !.waiting = p], F)
         /\ Good([w EXCEPT !.pending = q], F)
<1>1. Good([w EXCEPT !.waiting = p, !.pending = q], F)
  <2> DEFINE v == [w EXCEPT !.waiting = p, !.pending = q]
  <2>1. /\ v \in Manager
        /\ v.pc = w.pc /\ v.closed = w.closed /\ v.ses = w.ses /\ v.chan = w.chan
    BY DEF Good, Manager
  <2> HIDE DEF v
  <2>2. Good(v, F)
    BY <2>1, GoodRest
  <2> QED
    BY <2>2 DEF v
<1>2. Good([w EXCEPT !.waiting = p], F)
  <2> DEFINE v == [w EXCEPT !.waiting = p]
  <2>1. /\ v \in Manager
        /\ v.pc = w.pc /\ v.closed = w.closed /\ v.ses = w.ses /\ v.chan = w.chan
    BY DEF Good, Manager
  <2> HIDE DEF v
  <2>2. Good(v, F)
    BY <2>1, GoodRest
  <2> QED
    BY <2>2 DEF v
<1>3. Good([w EXCEPT !.pending = q], F)
  <2> DEFINE v == [w EXCEPT !.pending = q]
  <2>1. /\ v \in Manager
        /\ v.pc = w.pc /\ v.closed = w.closed /\ v.ses = w.ses /\ v.chan = w.chan
    BY DEF Good, Manager
  <2> HIDE DEF v
  <2>2. Good(v, F)
    BY <2>1, GoodRest
  <2> QED
    BY <2>2 DEF v
<1> QED
  BY <1>1, <1>2, <1>3

\* connect()
LEMMA ConnectGood ==
  ASSUME NEW F, NEW w, Good(w, F), F # {}
  PROVE  \E n \in Pcs : Good(Connect(w), F \ {n})
<1> DEFINE waits == [w EXCEPT !.waiting = w.pending]
           on    == [w EXCEPT !.waiting = 0, !.pending = 0]
           how   == w.ses[w.pending].promise
<1>1. Good(waits, F) /\ Good(on, F)
  BY GoodPromises, GoodParts, Numbers
<1>2. Connect(w) \in {Proceed(w), waits, Proceed(on), GiveUp(on, how)}
  BY DEF Connect, GoOn
<1> HIDE DEF waits, on, how
<1>3. PICK n \in F : n \in Pcs
  BY DEF Good, Spare
<1>4. Good(waits, F \ {n}) /\ Good(GiveUp(on, how), F \ {n})
  BY <1>1, GoodLess, GiveUpGood
<1> QED
  BY <1>1, <1>2, <1>3, <1>4, ProceedGood

\* A connect() that waited goes on.
LEMMA ResumeGood ==
  ASSUME NEW F, NEW w, Good(w, F), F # {} \/ WaitsRight(w)
  PROVE  \E n \in Pcs : Good(Resume(w), F \ {n})
<1>1. Pcs # {}
  BY BoundsAssumption DEF Pcs
<1>2. CASE WaitsRight(w)
  <2>1. PICK n \in Pcs : TRUE
    BY <1>1
  <2>2. Good(w, F \ {n})
    BY GoodLess
  <2> QED
    BY <1>2, <2>1, <2>2 DEF Resume, WaitsRight
<1>3. CASE ~WaitsRight(w) /\ F # {}
  <2> DEFINE woken == [w EXCEPT !.waiting = 0, !.pending = 0]
             how   == w.ses[w.waiting].promise
  <2>1. Good(woken, F)
    BY GoodPromises, Numbers
  <2>2. Resume(w) \in {Proceed(woken), GiveUp(woken, how)}
    BY <1>3 DEF Resume, GoOn, WaitsRight
  <2> HIDE DEF woken, how
  <2>3. PICK n \in F : n \in Pcs
    BY <1>3 DEF Good, Spare
  <2>4. Good(GiveUp(woken, how), F \ {n})
    BY <2>1, GoodLess, GiveUpGood
  <2>5. \E k \in Pcs : Good(Proceed(woken), F \ {k})
    BY <1>3, <2>1, ProceedGood
  <2> QED
    BY <2>2, <2>3, <2>4, <2>5
<1> QED
  BY <1>2, <1>3

\* The continuation of an activation.
LEMMA ActivateGood ==
  ASSUME NEW F, NEW w, Good(w, F), F # {}, NEW s \in Sessions
  PROVE  \E n \in Pcs : Good(Activate(w, s), F \ {n})
<1> DEFINE connected == Connect(CreateSession(w, s, 0, FALSE))
<1>1. PICK n \in Pcs : Good(connected, F \ {n})
  BY CreateSessionGood, ConnectGood
<1>2. Activate(w, s) \in {connected, [connected EXCEPT !.pending = s]}
  BY DEF Activate
<1> HIDE DEF connected
<1>3. Good([connected EXCEPT !.pending = s], F \ {n})
  BY <1>1, GoodPromises, Numbers
<1> QED
  BY <1>1, <1>2, <1>3

\* A persistent connection.
LEMMA PersistentPcGood ==
  ASSUME NEW F, NEW w, Good(w, F), F # {}, NEW why
  PROVE  \E n \in Pcs : Good(PersistentPc(w, why), F \ {n})
<1> DEFINE n == NewPc(w)
           q == IF why = "activate" /\ (w.pc # 0 \/ w.current # 0)
                  THEN w.raced \union {"activation"} ELSE w.raced
           v == [w EXCEPT !.requests = w.requests \ {why}, !.raced = q]
<1>1. n \in Pcs
  BY NewPcIsNew
<1>2. q \in Overlaps /\ w.requests \ {why} \in SUBSET {"refresh", "activate"}
  BY DEF Good, Manager, Overlaps
<1> HIDE DEF n, q
<1>3. /\ v \in Manager
      /\ v.pc = w.pc /\ v.closed = w.closed /\ v.ses = w.ses /\ v.chan = w.chan
  BY <1>2 DEF Good, Manager
<1>4. PersistentPc(w, why) = [v EXCEPT !.pc = n]
  BY DEF PersistentPc, n, q, Good, Manager
<1> HIDE DEF v
<1>5. Good([v EXCEPT !.pc = n], F \ {n})
  BY <1>1, <1>3, GoodRest, GoodNewPc
<1> QED
  BY <1>1, <1>4, <1>5

\* What is over is forgotten.
LEMMA TidyGood ==
  ASSUME NEW F, NEW w, Good(w, F)
  PROVE  Good(Tidy(w), F)
<1> DEFINE over(s) == [NoSession EXCEPT !.state = "failed", !.ahead = w.ses[s].ahead,
                         !.promise = IF s \in {w.pending, w.waiting} THEN w.ses[s].promise ELSE @]
           ses  == [s \in Sessions |-> IF Over(w, s) THEN over(s) ELSE w.ses[s]]
           chan == [c \in Sessions |->
                      IF /\ w.chan[c].state \in Inert /\ w.channel # c
                         /\ w.chan[c].bound = 0 \/ Over(w, w.chan[c].bound)
                        THEN NoChannel ELSE w.chan[c]]
           v == [w EXCEPT !.ses = ses, !.chan = chan]
<1>1. ASSUME NEW s \in Sessions PROVE over(s) \in SessionRecord /\ over(s).pc = 0
  <2>1. w.ses[s].ahead \in BOOLEAN
        /\ w.ses[s].promise \in Promises
    BY GoodParts DEF SessionRecord
  <2> DEFINE p == IF s \in {w.pending, w.waiting} THEN w.ses[s].promise ELSE NoSession.promise
             a == w.ses[s].ahead
  <2>2. p \in Promises
    BY <2>1, NewRecords DEF Promises
  <2>3. over(s) = [NoSession EXCEPT !.state = "failed", !.ahead = a, !.promise = p]
    BY NewRecords DEF SessionRecord
  <2> HIDE DEF p, a, over
  <2> QED
    BY <2>1, <2>2, <2>3, NewRecords DEF SessionRecord, SessionStates, a, Promises
<1> HIDE DEF over
<1>2. ses \in [Sessions -> SessionRecord]
  BY <1>1, GoodParts
<1>3. chan \in [Sessions -> ChannelRecord]
  BY NewRecords, GoodParts
<1>4. \A s \in Sessions : ses[s].pc \notin F /\ chan[s].pc \notin F
  BY <1>1, NewRecords, GoodParts, Numbers DEF Good, Spare
<1>5. \A c \in Sessions : chan[c].state # "none" => chan[c].bound # 0
  BY NewRecords DEF Good, Bound
<1>6. Tidy(w) = v
  BY DEF Tidy, over
<1> HIDE DEF ses, chan
<1>7. v \in Manager
  BY <1>2, <1>3 DEF Good, Manager
<1>8. /\ v.pc = w.pc /\ v.closed = w.closed /\ v.ses = ses /\ v.chan = chan
  BY DEF Good, Manager
<1> HIDE DEF v
<1> QED
  BY <1>4, <1>5, <1>6, <1>7, <1>8 DEF Good, Bound, Spare

\* A function has no more values than arguments.
LEMMA FewValues ==
  ASSUME NEW S, IsFiniteSet(S), NEW f
  PROVE  IsFiniteSet({f[x] : x \in S}) /\ Cardinality({f[x] : x \in S}) <= Cardinality(S)
<1> DEFINE T == {f[x] : x \in S}
           g == [x \in S |-> f[x]]
<1>1. g \in Surjection(S, T)
  BY DEF Surjection
<1> HIDE DEF T, g
<1>2. IsFiniteSet(T) /\ Cardinality(T) <= Cardinality(S)
  BY <1>1, FS_Surjection
<1> QED
  BY <1>2 DEF T

\* Two sets have no more elements together than each for itself.
LEMMA FewTogether ==
  ASSUME NEW S, NEW T, IsFiniteSet(S), IsFiniteSet(T)
  PROVE  IsFiniteSet(S \union T) /\ Cardinality(S \union T) <= Cardinality(S) + Cardinality(T)
<1>1. IsFiniteSet(S \intersect T)
  BY FS_Intersection
<1>2. /\ Cardinality(S) \in Nat /\ Cardinality(T) \in Nat
      /\ Cardinality(S \intersect T) \in Nat
  BY <1>1, FS_CardinalityType
<1>3. /\ IsFiniteSet(S \union T)
      /\ Cardinality(S \union T)
           = Cardinality(S) + Cardinality(T) - Cardinality(S \intersect T)
  BY FS_Union
<1> QED
  BY <1>2, <1>3

\* Between two handlers at least two numbers are new to everybody.
LEMMA RoomForTwo ==
  ASSUME m \in Manager, Bound(m), m.closed \subseteq Referenced(m)
  PROVE  \E p, q \in Pcs : p # q /\ Good(m, {p, q})
<1> DEFINE f == [s \in Sessions |-> m.ses[s].pc]
           g == [c \in Sessions |-> m.chan[c].pc]
           A == {f[s] : s \in Sessions}
           B == {g[c] : c \in Sessions}
<1>1. IsFiniteSet(Sessions) /\ Cardinality(Sessions) = MaxSessions
  BY BoundsAssumption, FS_Interval DEF Sessions
<1>2. IsFiniteSet(A) /\ Cardinality(A) <= MaxSessions
  BY <1>1, FewValues
<1>3. IsFiniteSet(B) /\ Cardinality(B) <= MaxSessions
  BY <1>1, FewValues
<1>4. Referenced(m) = ({m.pc} \union A) \union B
  BY DEF Referenced
<1> HIDE DEF f, g, A, B
<1>5. IsFiniteSet({m.pc}) /\ Cardinality({m.pc}) = 1
  BY FS_Singleton
<1>6. /\ IsFiniteSet({m.pc} \union A)
      /\ Cardinality({m.pc} \union A) <= Cardinality({m.pc}) + Cardinality(A)
  BY <1>2, <1>5, FewTogether
<1>7. IsFiniteSet(Referenced(m)) /\ Cardinality(Referenced(m)) <= 1 + 2 * MaxSessions
  <2>1. /\ IsFiniteSet(Referenced(m))
        /\ Cardinality(Referenced(m)) <= Cardinality({m.pc} \union A) + Cardinality(B)
    BY <1>3, <1>4, <1>6, FewTogether
  <2>2. /\ Cardinality(A) \in Nat /\ Cardinality(B) \in Nat
        /\ Cardinality({m.pc} \union A) \in Nat /\ Cardinality(Referenced(m)) \in Nat
    BY <1>2, <1>3, <1>6, <2>1, FS_CardinalityType
  <2> QED
    BY <1>2, <1>3, <1>5, <1>6, <2>1, <2>2, BoundsAssumption
<1>8. IsFiniteSet(Pcs) /\ Cardinality(Pcs) = MaxPcs
  BY BoundsAssumption, FS_Interval DEF Pcs
<1>9. ASSUME NEW R, IsFiniteSet(R), Cardinality(R) < MaxPcs
      PROVE  \E p \in Pcs : p \notin R
  <2> SUFFICES ASSUME Pcs \subseteq R PROVE FALSE
    OBVIOUS
  <2>1. Cardinality(Pcs) <= Cardinality(R)
    BY <1>9, FS_Subset
  <2>2. Cardinality(R) \in Nat
    BY <1>9, FS_CardinalityType
  <2> QED
    BY <1>8, <1>9, <2>1, <2>2, BoundsAssumption
<1>10. Cardinality(Referenced(m)) \in Nat
  BY <1>7, FS_CardinalityType
<1>11. PICK p \in Pcs : p \notin Referenced(m)
  BY <1>7, <1>9, <1>10, BoundsAssumption
<1>12. /\ IsFiniteSet(Referenced(m) \union {p})
       /\ Cardinality(Referenced(m) \union {p}) = Cardinality(Referenced(m)) + 1
  BY <1>7, <1>11, FS_AddElement
<1>13. PICK q \in Pcs : q \notin Referenced(m) \union {p}
  BY <1>7, <1>9, <1>10, <1>12, BoundsAssumption
<1>14. Spare(m, {p, q})
  BY <1>11, <1>13 DEF Spare, Referenced
<1> QED
  BY <1>13, <1>14 DEF Good

\* The end of every action.
LEMMA BecomesTyped ==
  ASSUME NEW F, NEW w, Good(w, F), F # {} \/ WaitsRight(w), Becomes(w)
  PROVE  TypeOK' /\ Bound(m') /\ m'.closed \subseteq Referenced(m')
<1>1. PICK n \in Pcs : Good(Resume(w), F \ {n})
  BY ResumeGood
<1> DEFINE v == Tidy(Resume(w))
           q == v.closed \intersect Referenced(v)
<1>2. Good(v, F \ {n})
  BY <1>1, TidyGood
<1>3. m' = [v EXCEPT !.closed = q]
  BY DEF Becomes
<1> HIDE DEF v
<1>4. q \in SUBSET Pcs
  BY <1>2, GoodParts
<1> HIDE DEF q
<1>5. /\ m' \in Manager
      /\ m'.pc = v.pc /\ m'.ses = v.ses /\ m'.chan = v.chan /\ m'.closed = q
  BY <1>2, <1>3, <1>4 DEF Good, Manager
<1>6. Referenced(m') = Referenced(v)
  BY <1>5 DEF Referenced
<1>7. Bound(m')
  BY <1>2, <1>5 DEF Good, Bound
<1> QED
  BY <1>5, <1>6, <1>7 DEF q, TypeOK

-----------------------------------------------------------------------------
(* Teardown.                                                               *)

\* Channels of which bye() was called.
Silenced(w, v) ==
  \A c \in Sessions :
    \/ v.chan[c] = w.chan[c]
    \/ /\ w.chan[c].state \in {"Idle", "Talking"}
       /\ v.chan[c].state = "PendingRemoteHangup"
       /\ v.chan[c].bound = w.chan[c].bound
       /\ v.chan[c].pc = w.chan[c].pc

\* What tearing down leaves alone.
Kept(w, v) ==
  /\ v.enabled = w.enabled /\ v.allowed = w.allowed /\ v.agent = w.agent
  /\ v.standby = w.standby /\ v.requests = w.requests
  /\ v.pending = w.pending /\ v.waiting = w.waiting /\ v.suspended = w.suspended
  /\ v.raced = w.raced

\* The connection is torn down if there is one.
TornDown(w, v) ==
  IF w.pc = 0
    THEN v.pc = 0 /\ v.channel = w.channel /\ v.closed = w.closed /\ v.chan = w.chan
    ELSE v.pc = 0 /\ v.channel = 0 /\ v.closed = w.closed \union {w.pc} /\ Silenced(w, v)

\* bye() changes nothing but the channel it is said on.
LEMMA ByeEffect ==
  ASSUME NEW F, NEW w, Good(w, F), NEW c \in Sessions
  PROVE  /\ Kept(w, Bye(w, c)) /\ Silenced(w, Bye(w, c))
         /\ Bye(w, c).ses = w.ses /\ Bye(w, c).pc = w.pc /\ Bye(w, c).channel = w.channel
         /\ Bye(w, c).closed = w.closed
         /\ Bye(w, c).current = w.current /\ Bye(w, c).token = w.token
<1>1. CASE w.chan[c].state \in {"Idle", "Talking"}
  <2> DEFINE v == [w EXCEPT !.chan[c].state = "PendingRemoteHangup"]
  <2>1. Bye(w, c) = v
    BY <1>1 DEF Bye
  <2>2. /\ Kept(w, v) /\ v.ses = w.ses /\ v.pc = w.pc /\ v.channel = w.channel
        /\ v.closed = w.closed /\ v.current = w.current /\ v.token = w.token
    BY DEF Kept, Good, Manager
  <2>3. Silenced(w, v)
    BY <1>1 DEF Silenced, Good, Manager, ChannelRecord
  <2> QED
    BY <2>1, <2>2, <2>3
<1>2. CASE w.chan[c].state \notin {"Idle", "Talking"}
  BY <1>2 DEF Bye, Kept, Silenced
<1> QED
  BY <1>1, <1>2

\* destroy() is refused during a conversation.
LEMMA DestroyEffect ==
  ASSUME NEW F, NEW w, Good(w, F), NEW byServer \in BOOLEAN
  PROVE  LET v == Destroy(w, byServer) IN
         /\ InUse(w) => v = w
         /\ ~InUse(w) => TornDown(w, v)
         /\ Kept(w, v) /\ v.ses = w.ses /\ v.current = w.current /\ v.token = w.token
<1> DEFINE said == IF ~byServer /\ w.channel # 0 THEN Bye(w, w.channel) ELSE w
           v    == [Close(said, w.pc) EXCEPT !.pc = 0, !.channel = 0, !.inactive = FALSE]
<1>1. Good(said, F)
  BY ByeGood, GoodParts, Numbers
<1>2. /\ Kept(w, said) /\ Silenced(w, said) /\ said.ses = w.ses
      /\ said.closed = w.closed /\ said.current = w.current /\ said.token = w.token
  BY ByeEffect, GoodParts, Numbers DEF Kept, Silenced
<1> HIDE DEF said
<1>3. CASE InUse(w) \/ w.pc = 0
  BY <1>3, GoodParts DEF Destroy, TornDown, Kept
<1>4. CASE ~InUse(w) /\ w.pc # 0
  <2>1. Destroy(w, byServer) = v
    BY <1>4 DEF Destroy, said
  <2>2. /\ Kept(said, v) /\ v.ses = said.ses /\ v.chan = said.chan
        /\ v.current = said.current /\ v.token = said.token
        /\ v.pc = 0 /\ v.channel = 0 /\ v.closed = said.closed \union ({w.pc} \ {0})
    BY <1>1 DEF Kept, Close, Good, Manager
  <2> HIDE DEF v
  <2> QED
    BY <1>2, <1>4, <2>1, <2>2 DEF TornDown, Silenced, Kept
<1> QED
  BY <1>3, <1>4

\* What follows a failure.
LEMMA ForgetEffect ==
  ASSUME NEW F, NEW w, Good(w, F)
  PROVE  LET v == Forget(w) IN
         TornDown(w, v) /\ Kept(w, v) /\ v.ses = w.ses /\ v.current = 0 /\ v.token = 0
<1> DEFINE x == [w EXCEPT !.current = 0]
           u == Destroy(x, FALSE)
           v == [u EXCEPT !.token = 0]
<1>1. x \in Manager
  BY Numbers DEF Good, Manager
<1>2. Good(x, F)
  BY <1>1, GoodRest DEF Good, Manager
<1>3. /\ Kept(w, x) /\ x.ses = w.ses /\ x.current = 0 /\ x.pc = w.pc
      /\ x.channel = w.channel /\ x.closed = w.closed /\ x.chan = w.chan
  BY DEF Kept, Good, Manager
<1>4. ~InUse(x)
  BY <1>3 DEF InUse
<1> HIDE DEF x
<1>5. Good(u, F) /\ TornDown(x, u) /\ Kept(x, u) /\ u.ses = x.ses /\ u.current = x.current
  BY <1>2, <1>4, DestroyGood, DestroyEffect
<1>6. Forget(w) = v
  BY DEF Forget, x
<1> HIDE DEF u
<1>7. /\ Kept(u, v) /\ v.ses = u.ses /\ v.current = u.current /\ v.token = 0
      /\ v.pc = u.pc /\ v.channel = u.channel /\ v.closed = u.closed /\ v.chan = u.chan
  BY <1>5 DEF Kept, Good, Manager
<1> HIDE DEF v
<1> QED
  BY <1>3, <1>5, <1>6, <1>7 DEF TornDown, Kept, Silenced

\* What the teardown relies on: all but the idle channel of a persistent
\* connection.
OrderlyButIdle(w) ==
  /\ Only(w)
  /\ Tokens(w)
  /\ NoRenewal(w)
  /\ OnTheManagers(w)
  /\ Negotiated(w)
  /\ TalksOpen(w)
  /\ PendingIsHeld(w)
  /\ Together(w)
  /\ InVain(w)

\* What always holds survives a bye() to any channels and the loss of the
\* manager's session and channel.
LEMMA SilencedSound ==
  ASSUME NEW F, NEW w, NEW v, Good(w, F), Sound(w), Kept(w, v), v.ses = w.ses,
         v.current \in {0, w.current}, v.channel \in {0, w.channel}, Silenced(w, v)
  PROVE  Sound(v)
<1>1. \A c \in Sessions : /\ v.chan[c].bound = w.chan[c].bound
                          /\ \/ v.chan[c].state = w.chan[c].state
                             \/ /\ w.chan[c].state \in {"Idle", "Talking"}
                                /\ v.chan[c].state = "PendingRemoteHangup"
  BY DEF Silenced
<1>2. Held(v) /\ Settled(v) /\ Waits(v)
  BY DEF Sound, Held, Settled, Waits, Kept
<1>3. Fresh(v)
  BY <1>1, Numbers DEF Sound, Fresh
<1>4. Mutual(v) /\ Reports(v)
  BY <1>1 DEF Sound, Mutual, Reports, Over
<1>5. Asleep(v)
  BY <1>1 DEF Sound, Asleep, Kept
<1> QED
  BY <1>2, <1>3, <1>4, <1>5 DEF Sound

\* Sessions that are not talking lose their connection and their channel.
LEMMA TornDownSane ==
  ASSUME NEW F, NEW w, NEW v, Good(w, F), Sound(w), w.raced = {} => OrderlyButIdle(w),
         ~InUse(w), TornDown(w, v), Kept(w, v), v.ses = w.ses,
         v.current = w.current, v.token = w.token
  PROVE  Sane(v)
<1>1. Silenced(w, v) /\ v.channel \in {0, w.channel} /\ v.pc = 0
  BY DEF TornDown, Silenced
<1>2. Sound(v)
  BY <1>1, SilencedSound
<1>3. ASSUME v.raced = {} PROVE Orderly(v)
  <2>1. OrderlyButIdle(w)
    BY <1>3 DEF Kept
  <2>2. v.channel = 0 /\ v.closed = w.closed \union ({w.pc} \ {0})
    BY <2>1 DEF OrderlyButIdle, Together, TornDown
  <2>3. Only(v) /\ Tokens(v) /\ NoRenewal(v) /\ InVain(v)
    BY <2>1 DEF OrderlyButIdle, Only, Tokens, NoRenewal, InVain, Kept, Persistent, Over
  <2>4. \A s \in Sessions : w.ses[s].state # "talking"
    BY <2>1, Numbers DEF OrderlyButIdle, Only, InUse, Active
  <2>5. TalksOpen(v)
    BY <2>4 DEF TalksOpen
  <2>6. OnTheManagers(v)
    BY <2>1, <2>2 DEF OrderlyButIdle, OnTheManagers
  <2>7. Negotiated(v)
    <3>1. \A c \in Sessions : v.chan[c].bound = w.chan[c].bound /\ v.chan[c].pc = w.chan[c].pc
      BY <1>1 DEF Silenced
    <3>2. \A s \in Sessions : w.ses[s].sig # 0 => w.ses[s].sig \in Sessions
      BY GoodParts, Numbers
    <3> QED
      BY <2>1, <3>1, <3>2 DEF OrderlyButIdle, Negotiated
  <2>8. IdleIsKept(v) /\ PendingIsHeld(v)
    BY <2>2 DEF IdleIsKept, PendingIsHeld
  <2>9. Together(v)
    BY <1>1, <2>2, Numbers, GoodParts DEF Together
  <2> QED
    BY <2>3, <2>5, <2>6, <2>7, <2>8, <2>9 DEF Orderly
<1> QED
  BY <1>2, <1>3 DEF Sane

\* destroy() keeps all of it.
LEMMA DestroySane ==
  ASSUME NEW F, NEW w, Good(w, F), NEW byServer \in BOOLEAN, Sane(w)
  PROVE  Sane(Destroy(w, byServer))
<1>1. w.raced = {} => OrderlyButIdle(w)
  BY DEF Sane, Orderly, OrderlyButIdle
<1> DEFINE v == Destroy(w, byServer)
<1>2. /\ InUse(w) => v = w
      /\ ~InUse(w) => TornDown(w, v)
      /\ Kept(w, v) /\ v.ses = w.ses /\ v.current = w.current /\ v.token = w.token
  BY DestroyEffect
<1> HIDE DEF v
<1>3. Sane(v)
  BY <1>1, <1>2, TornDownSane DEF Sane
<1> QED
  BY <1>3 DEF v

\* v is w after session s has ended and the rest has been torn down.
Ends(w, s, v) ==
  /\ v.pc = 0 /\ v.channel = (IF w.pc = 0 THEN w.channel ELSE 0)
  /\ Silenced(w, v) /\ Kept(w, v) /\ v.current = 0 /\ v.token = 0
  /\ Over(v, s)
  /\ \A t \in Sessions \ {s} : v.ses[t] = w.ses[t]

\* What the end of session s relies on.
Ending(w, s) ==
  /\ Fresh(w) /\ Mutual(w) /\ Settled(w) /\ Asleep(w) /\ Waits(w)
  /\ ~Over(w, s) /\ w.ses[s].state # "none"
  /\ \A t \in Sessions \ {s} : w.ses[t].sig = t /\ w.chan[t].bound = t =>
       /\ w.ses[t].state = "signaling" => w.chan[t].state = "PendingConnect"
       /\ w.ses[t].state = "invited" => w.chan[t].state = "PendingAnswer"
  /\ w.raced = {} =>
       /\ \A t \in Sessions \ {s} : w.ses[t].state \notin Active
       /\ NoRenewal(w) /\ Together(w) /\ InVain(w)

\* What always holds survives the end of session s.
LEMMA EndingSound ==
  ASSUME NEW F, NEW w, Good(w, F), NEW s \in Sessions, Ending(w, s),
         NEW v, Silenced(w, v), Kept(w, v), v.channel \in {0, w.channel}, v.current = 0,
         Over(v, s), \A t \in Sessions \ {s} : v.ses[t] = w.ses[t]
  PROVE  Sound(v)
<1>1. \A c \in Sessions : /\ v.chan[c].bound = w.chan[c].bound
                          /\ \/ v.chan[c].state = w.chan[c].state
                             \/ /\ w.chan[c].state \in {"Idle", "Talking"}
                                /\ v.chan[c].state = "PendingRemoteHangup"
  BY DEF Silenced
<1>2. v.ses[s].state \in {"disconnected", "failed"}
  BY DEF Over, Ended
<1>3. Held(v)
  BY DEF Held
<1>4. Fresh(v)
  BY <1>1, <1>2, Numbers DEF Fresh, Ending
<1>5. Mutual(v)
  BY <1>1 DEF Mutual, Ending, Over
<1>6. Reports(v)
  BY <1>1, <1>2 DEF Reports, Ending
<1>7. Settled(v)
  BY <1>2 DEF Settled, Ending
<1>8. Asleep(v)
  BY <1>1, <1>2 DEF Asleep, Ending, Kept, Active
<1>9. Waits(v)
  <2>1. w.waiting # 0 => w.waiting \in Sessions
    BY GoodParts, Numbers
  <2>2. w.pending # 0 => w.pending \in Sessions
    BY GoodParts, Numbers
  <2> QED
    BY <1>2, <2>1, <2>2 DEF Waits, Ending, Kept
<1> QED
  BY <1>3, <1>4, <1>5, <1>6, <1>7, <1>8, <1>9 DEF Sound

\* Everything survives the end of session s with the connection torn down, and as
\* long as nothing has overlapped no session is at work afterwards.
LEMMA EndsSane ==
  ASSUME NEW F, NEW w, Good(w, F), NEW s \in Sessions, Ending(w, s),
         NEW v, v.closed \subseteq Pcs, Ends(w, s, v)
  PROVE  Sane(v) /\ (v.raced = {} => \A t \in Sessions : v.ses[t].state \notin Active)
<1>1. Sound(v)
  BY EndingSound DEF Ends
<1>2. v.ses[s].state \in {"disconnected", "failed"}
  BY DEF Ends, Over, Ended
<1>3. ASSUME v.raced = {} PROVE \A t \in Sessions : v.ses[t].state \notin Active
  BY <1>2, <1>3 DEF Ends, Ending, Kept, Active
<1>4. ASSUME v.raced = {} PROVE Orderly(v)
  <2>1. /\ \A t \in Sessions \ {s} : w.ses[t].state \notin Active
        /\ NoRenewal(w) /\ Together(w) /\ InVain(w)
    BY <1>4 DEF Ends, Ending, Kept
  <2>2. \A t \in Sessions : v.ses[t].state \notin Active
    BY <1>3, <1>4
  <2>3. Only(v)
    BY <2>2 DEF Only
  <2>4. OnTheManagers(v) /\ Negotiated(v) /\ TalksOpen(v)
    BY <2>2 DEF OnTheManagers, Negotiated, TalksOpen, Active
  <2>5. v.channel = 0 /\ v.pc = 0
    BY <2>1 DEF Ends, Together
  <2>6. Tokens(v) /\ IdleIsKept(v) /\ PendingIsHeld(v) /\ Together(v)
    BY <2>5, Numbers DEF Ends, Tokens, IdleIsKept, PendingIsHeld, Together
  <2>7. NoRenewal(v)
    BY <2>1 DEF NoRenewal, Ends, Kept, Persistent
  <2>8. InVain(v)
    <3>1. w.waiting # 0 => w.waiting \in Sessions \ {s}
      BY <2>1, GoodParts, Numbers DEF InVain, Ending
    <3> QED
      BY <2>1, <3>1 DEF InVain, Ends, Kept, Over
  <2> QED
    BY <2>3, <2>4, <2>6, <2>7, <2>8 DEF Orderly
<1> QED
  BY <1>1, <1>3, <1>4 DEF Sane

\* A session that the manager holds, or that is at work, may end.
LEMMA SaneEnding ==
  ASSUME NEW F, NEW w, Good(w, F), NEW s \in Sessions, Sane(w),
         w.ses[s].state \in Active \/ w.current = s
  PROVE  Ending(w, s)
<1>1. w.ses[s].state \in Active \union {"created"}
  BY Numbers DEF Sane, Sound, Held
<1>2. ~Over(w, s) /\ w.ses[s].state # "none"
  BY <1>1 DEF Over, Ended, Active
<1>3. w.raced = {} => \A t \in Sessions \ {s} : w.ses[t].state \notin Active
  BY DEF Sane, Orderly, Only
<1> QED
  BY <1>2, <1>3 DEF Ending, Sane, Sound, Orderly, Reports

\* _stopSession
LEMMA StopSessionEffect ==
  ASSUME NEW F, NEW w, Good(w, F), NEW s \in Sessions, NEW v, v = StopSession(w, s)
  PROVE  /\ Kept(w, v) /\ v.chan = w.chan /\ v.pc = w.pc /\ v.channel = w.channel
         /\ v.current = w.current /\ v.token = w.token
         /\ \A t \in Sessions \ {s} : v.ses[t] = w.ses[t]
         /\ v.ses[s].state = w.ses[s].state /\ v.ses[s].promise = w.ses[s].promise
         /\ v.ses[s].sig = w.ses[s].sig
         /\ Persistent(w) => v.closed = w.closed
         /\ ~Persistent(w) => v.closed = w.closed \union ({w.ses[s].pc} \ {0})
<1>1. CASE Persistent(w)
  BY <1>1 DEF StopSession, Kept
<1>2. CASE ~Persistent(w)
  <2> DEFINE x == Close(w, w.ses[s].pc)
             u == [x EXCEPT !.ses[s].pc = 0]
  <2>1. v = u
    BY <1>2 DEF StopSession
  <2>2. /\ Kept(w, x) /\ x.chan = w.chan /\ x.ses = w.ses /\ x.pc = w.pc
        /\ x.channel = w.channel /\ x.current = w.current /\ x.token = w.token
        /\ x.closed = w.closed \union ({w.ses[s].pc} \ {0})
    BY DEF Close, Kept, Good, Manager
  <2>3. Good(x, F)
    BY CloseGood, GoodParts
  <2> HIDE DEF x
  <2>4. /\ Kept(x, u) /\ u.chan = x.chan /\ u.pc = x.pc /\ u.channel = x.channel
        /\ u.current = x.current /\ u.token = x.token /\ u.closed = x.closed
    BY <2>3 DEF Kept, Good, Manager
  <2>5. /\ \A t \in Sessions \ {s} : u.ses[t] = x.ses[t]
        /\ u.ses[s].state = x.ses[s].state /\ u.ses[s].promise = x.ses[s].promise
        /\ u.ses[s].sig = x.ses[s].sig
    BY <2>3 DEF Good, Manager, SessionRecord
  <2> HIDE DEF u
  <2> QED
    BY <1>2, <2>1, <2>2, <2>4, <2>5 DEF Kept
<1> QED
  BY <1>1, <1>2

\* transit(FailedState) ends the session.
LEMMA FailEffect ==
  ASSUME NEW F, NEW w, Good(w, F), NEW s \in Sessions
  PROVE  /\ Ends(w, s, Fail(w, s))
         /\ Fail(w, s).ses[s].promise = w.ses[s].promise
<1> DEFINE x == [w EXCEPT !.ses[s].state = "failed"]
           y == Forget(x)
           v == StopSession(y, s)
<1>1. Good(x, F)
  BY GoodStates DEF SessionStates
<1>2. /\ Kept(w, x) /\ x.chan = w.chan /\ x.pc = w.pc /\ x.channel = w.channel
      /\ \A t \in Sessions \ {s} : x.ses[t] = w.ses[t]
      /\ x.ses[s].state = "failed" /\ x.ses[s].promise = w.ses[s].promise
  BY DEF Kept, Good, Manager, SessionRecord
<1> HIDE DEF x
<1>3. TornDown(x, y) /\ Kept(x, y) /\ y.ses = x.ses /\ y.current = 0 /\ y.token = 0
  BY <1>1, ForgetEffect
<1>4. Good(y, F)
  BY <1>1, ForgetGood
<1> HIDE DEF y, v
<1>5. /\ Kept(y, v) /\ v.chan = y.chan /\ v.pc = y.pc /\ v.channel = y.channel
      /\ v.current = y.current /\ v.token = y.token
      /\ \A t \in Sessions \ {s} : v.ses[t] = y.ses[t]
      /\ v.ses[s].state = y.ses[s].state /\ v.ses[s].promise = y.ses[s].promise
  BY <1>4, StopSessionEffect DEF v
<1>6. Fail(w, s) = v
  BY DEF Fail, x, y, v
<1>7. Silenced(w, v)
  BY <1>2, <1>3, <1>5 DEF Silenced, TornDown
<1>8. v.pc = 0 /\ v.channel = (IF w.pc = 0 THEN w.channel ELSE 0)
  BY <1>2, <1>3, <1>5 DEF TornDown
<1>9. Over(v, s)
  BY <1>2, <1>3, <1>5 DEF Over, Ended
<1> QED
  BY <1>2, <1>3, <1>5, <1>6, <1>7, <1>8, <1>9 DEF Ends, Kept

\* A session that may end may fail.
LEMMA FailSane ==
  ASSUME NEW F, NEW w, Good(w, F), NEW s \in Sessions, Ending(w, s)
  PROVE  Sane(Fail(w, s))
<1>1. Good(Fail(w, s), F)
  BY FailGood
<1> QED
  BY <1>1, FailEffect, EndsSane, GoodParts

-----------------------------------------------------------------------------
(* Channels.                                                               *)

\* Channel c moves on, and the mode may end with it.
Moves(w, v, c) ==
  /\ w.chan[c].state # "none"
  /\ v.chan[c].bound = w.chan[c].bound /\ v.chan[c].pc = w.chan[c].pc
  /\ \A d \in Sessions \ {c} : v.chan[d] = w.chan[d]
  /\ v.ses = w.ses /\ v.pc = w.pc /\ v.channel = w.channel /\ v.closed = w.closed
  /\ v.current = w.current /\ v.token = w.token
  /\ v.enabled = w.enabled /\ v.agent = w.agent /\ v.requests = w.requests
  /\ v.pending = w.pending /\ v.waiting = w.waiting /\ v.suspended = w.suspended
  /\ w.raced \subseteq v.raced
  /\ \/ v.allowed = w.allowed /\ v.standby = w.standby
     \/ /\ ~v.allowed /\ ~v.standby
        /\ v.raced = {} /\ w.allowed => w.channel = c

\* A session that expects an answer keeps its channel, and only the channel of
\* a persistent connection is idle.
LEMMA MovesSane ==
  ASSUME NEW F, NEW w, Good(w, F), Sane(w), NEW c \in Sessions, NEW v, Moves(w, v, c),
         v.chan[c].state # "none",
         w.channel = c /\ v.raced = {} =>
           v.chan[c].state \notin {"PendingConnect", "PendingInvite", "PendingAnswer"},
         w.ses[c].sig = c /\ w.chan[c].bound = c
           => w.ses[c].state \notin {"signaling", "invited"},
         v.chan[c].state = "Idle" /\ w.channel = c /\ v.raced = {}
           => Persistent(v) /\ w.chan[c].pc = w.pc /\ w.pc \notin w.closed
  PROVE  Sane(v)
<1>1. \A d \in Sessions : v.chan[d].bound = w.chan[d].bound /\ v.chan[d].pc = w.chan[d].pc
  BY DEF Moves
<1>2. Held(v) /\ Settled(v) /\ Waits(v)
  BY DEF Moves, Sane, Sound, Held, Settled, Waits
<1>3. Fresh(v)
  BY <1>1 DEF Moves, Sane, Sound, Fresh
<1>4. Mutual(v) /\ Reports(v)
  BY <1>1 DEF Moves, Sane, Sound, Mutual, Reports, Over
<1>5. Asleep(v)
  BY DEF Moves, Sane, Sound, Asleep
<1>6. Sound(v)
  BY <1>2, <1>3, <1>4, <1>5 DEF Sound
<1>7. ASSUME v.raced = {} PROVE Orderly(v)
  <2>1. Orderly(w)
    BY <1>7 DEF Moves, Sane
  <2>2. Only(v) /\ Tokens(v) /\ NoRenewal(v) /\ TalksOpen(v) /\ Together(v) /\ InVain(v)
    BY <2>1 DEF Moves, Orderly, Only, Tokens, NoRenewal, TalksOpen, Together, InVain,
                Persistent, Over
  <2>3. \A s \in Sessions : w.ses[s].sig # 0 => w.ses[s].sig \in Sessions
    BY GoodParts, Numbers
  <2>4. w.channel # 0 => w.channel \in Sessions
    BY GoodParts, Numbers
  <2>5. OnTheManagers(v)
    BY <1>1, <2>1, <2>4 DEF Moves, Orderly, OnTheManagers
  <2>6. Negotiated(v)
    BY <1>1, <2>1, <2>3 DEF Moves, Orderly, Negotiated
  <2>7. IdleIsKept(v)
    <3>1. CASE w.channel = c
      BY <1>1, <1>7, <3>1 DEF Moves, IdleIsKept
    <3>2. CASE w.channel # c
      BY <1>7, <2>1, <2>4, <3>2 DEF Moves, Orderly, IdleIsKept, Persistent
    <3> QED
      BY <3>1, <3>2
  <2>8. PendingIsHeld(v)
    BY <1>7, <2>1, <2>4 DEF Moves, Orderly, PendingIsHeld
  <2> QED
    BY <2>1, <2>2, <2>5, <2>6, <2>7, <2>8 DEF Orderly
<1> QED
  BY <1>6, <1>7 DEF Sane

\* The session at work on channel c may end.
LEMMA MovesEnding ==
  ASSUME NEW F, NEW w, Good(w, F), Sane(w), NEW c \in Sessions, NEW v, Moves(w, v, c),
         v.chan[c].state # "none",
         NEW s \in Sessions, w.chan[c].bound = s, w.ses[s].state \in Active
  PROVE  Ending(v, s)
<1>1. Ending(w, s)
  BY SaneEnding
<1>2. \A d \in Sessions : v.chan[d].bound = w.chan[d].bound
  BY DEF Moves
<1>3. Fresh(v) /\ Mutual(v)
  BY <1>1, <1>2 DEF Moves, Ending, Fresh, Mutual, Over
<1>4. Settled(v) /\ Waits(v)
  BY <1>1 DEF Moves, Ending, Settled, Waits
<1>5. Asleep(v)
  BY <1>1 DEF Moves, Ending, Asleep
<1>6. \A t \in Sessions \ {s} : w.ses[t].sig = t /\ w.chan[t].bound = t => t # c
  OBVIOUS
<1>7. v.raced = {} => NoRenewal(v) /\ Together(v) /\ InVain(v)
  BY <1>1 DEF Moves, Ending, NoRenewal, Together, InVain, Persistent, Over
<1> QED
  BY <1>1, <1>2, <1>3, <1>4, <1>5, <1>6, <1>7 DEF Moves, Ending, Over

\* A denial of access.
Denial(w, c, denied) ==
  LET failed == [w EXCEPT !.chan[c].state = "Failed"] IN
  IF denied THEN Allow(CloseEarlyMedia(failed), c, FALSE) ELSE failed

\* A denial changes the channel and the mode only.
LEMMA DenialMoves ==
  ASSUME NEW F, NEW w, Good(w, F), NEW c \in Sessions, w.chan[c].state # "none",
         NEW denied \in BOOLEAN
  PROVE  /\ Good(Denial(w, c, denied), F) /\ Moves(w, Denial(w, c, denied), c)
         /\ Denial(w, c, denied).chan[c].state = "Failed"
<1> DEFINE failed == [w EXCEPT !.chan[c].state = "Failed"]
           early  == CloseEarlyMedia(failed)
           mode   == Allow(early, c, FALSE)
<1>1. w.chan[c].bound # 0 /\ "Failed" \in ChannelStates \ {"none"}
  BY GoodParts, Numbers DEF ChannelStates
<1>2. Good(failed, F)
  BY <1>1, GoodStates, Numbers
<1>3. Moves(w, failed, c) /\ failed.chan[c].state = "Failed"
  BY DEF Moves, Good, Manager, ChannelRecord
<1>4. Denial(w, c, denied) = IF denied THEN mode ELSE failed
  BY DEF Denial
<1>5. failed.raced = w.raced /\ failed.allowed = w.allowed /\ failed.standby = w.standby
  BY DEF Good, Manager
<1> HIDE DEF failed
<1>6. /\ Good(early, F) /\ early.chan = failed.chan
      /\ early = [failed EXCEPT !.standby = FALSE]
  BY <1>2, CloseEarlyMediaGood DEF CloseEarlyMedia, Good, Manager
<1>7. /\ early.ses = failed.ses /\ early.pc = failed.pc /\ early.channel = failed.channel
      /\ early.closed = failed.closed
      /\ early.current = failed.current /\ early.token = failed.token
      /\ early.enabled = failed.enabled /\ early.agent = failed.agent
      /\ early.requests = failed.requests /\ early.raced = failed.raced
      /\ early.pending = failed.pending /\ early.waiting = failed.waiting
      /\ early.suspended = failed.suspended /\ early.allowed = failed.allowed
      /\ early.standby = FALSE
  BY <1>2, <1>6 DEF Good, Manager
<1> HIDE DEF early
<1>8. Good(mode, F)
  BY <1>6, AllowGood
<1>9. /\ mode.ses = early.ses /\ mode.pc = early.pc /\ mode.channel = early.channel
      /\ mode.closed = early.closed
      /\ mode.current = early.current /\ mode.token = early.token
      /\ mode.enabled = early.enabled /\ mode.agent = early.agent
      /\ mode.requests = early.requests
      /\ mode.pending = early.pending /\ mode.waiting = early.waiting
      /\ mode.suspended = early.suspended /\ mode.standby = early.standby
      /\ mode.allowed = FALSE /\ early.raced \subseteq mode.raced
      /\ mode.raced = {} /\ early.allowed => early.channel = c
      /\ mode.chan = early.chan
  BY <1>6 DEF Allow, Good, Manager
<1> HIDE DEF mode
<1>10. mode.chan = failed.chan
  BY <1>6, <1>9
<1>11. mode.raced = {} /\ failed.allowed => failed.channel = c
  BY <1>7, <1>9
<1>12. Moves(w, mode, c)
  BY <1>3, <1>5, <1>7, <1>9, <1>10, <1>11 DEF Moves
<1> QED
  BY <1>2, <1>3, <1>4, <1>8, <1>10, <1>12

\* A promise that settles after its session has ended.
LEMMA SettleEnds ==
  ASSUME NEW F, NEW w, NEW s \in Sessions, NEW v, Good(v, F), Ends(w, s, v),
         NEW how \in {"resolved", "rejected"}
  PROVE  Ends(w, s, Settle(v, s, how))
<1> DEFINE u == [v EXCEPT !.ses[s].promise = how]
<1>1. Settle(v, s, how) \in {v, u}
  BY DEF Settle
<1>2. /\ Kept(v, u) /\ u.chan = v.chan /\ u.pc = v.pc /\ u.channel = v.channel
      /\ u.current = v.current /\ u.token = v.token /\ u.closed = v.closed
      /\ \A t \in Sessions \ {s} : u.ses[t] = v.ses[t]
      /\ u.ses[s].state = v.ses[s].state
  BY DEF Kept, Good, Manager, SessionRecord
<1> HIDE DEF u
<1>3. Ends(w, s, u)
  BY <1>2 DEF Ends, Kept, Silenced, Over
<1> QED
  BY <1>1, <1>3

\* FailedState of the channel: nobody waits for it any more.
LEMMA FailChannelSane ==
  ASSUME NEW F, NEW w, Good(w, F), Sane(w), NEW c \in Sessions, w.chan[c].state # "none",
         NEW denied \in BOOLEAN
  PROVE  Sane(FailChannel(w, c, denied))
<1> DEFINE mode == Denial(w, c, denied)
           b    == w.chan[c].bound
           v    == Fail(mode, b)
           u    == Settle(v, b, "rejected")
<1>1. b \in Sessions
  BY GoodParts
<1>2. /\ Good(mode, F) /\ Moves(w, mode, c) /\ mode.chan[c].state = "Failed"
  BY DenialMoves
<1>3. FailChannel(w, c, denied) =
        IF w.ses[b].state \in {"signaling", "invited", "forsaken"} THEN u
        ELSE IF w.ses[b].state = "talking" /\ denied THEN v
        ELSE mode
  BY DEF FailChannel, Denial
<1> HIDE DEF mode
<1>4. w.ses[b].state \in Active => Ending(mode, b)
  BY <1>1, <1>2, MovesEnding
<1>5. CASE w.ses[b].state \in Active
  <2>1. Good(v, F) /\ Ends(mode, b, v)
    BY <1>1, <1>2, FailGood, FailEffect
  <2> HIDE DEF v
  <2>2. Good(u, F) /\ Ends(mode, b, u)
    BY <1>1, <2>1, SettleGood, SettleEnds
  <2> HIDE DEF u
  <2>3. Sane(u) /\ Sane(v)
    BY <1>1, <1>2, <1>4, <1>5, <2>1, <2>2, EndsSane, GoodParts
  <2>4. w.ses[b].state \notin {"signaling", "invited", "forsaken"} => Sane(mode)
    BY <1>2, MovesSane
  <2> QED
    BY <1>3, <2>3, <2>4
<1>6. CASE w.ses[b].state \notin Active
  <2>1. Sane(mode)
    BY <1>2, <1>6, MovesSane DEF Active
  <2>2. FailChannel(w, c, denied) = mode
    BY <1>3, <1>6 DEF Active
  <2> QED
    BY <2>1, <2>2
<1> QED
  BY <1>5, <1>6

-----------------------------------------------------------------------------
(* The end of a call.                                                      *)

\* The manager may drop a session that is not at work.
LEMMA DroppedSane ==
  ASSUME NEW F, NEW w, Good(w, F), Sane(w),
         w.raced = {} => \A s \in Sessions : w.ses[s].state \notin Active
  PROVE  Sane(Dropped(w))
<1> DEFINE v == Dropped(w)
<1>1. /\ v.chan = w.chan /\ v.ses = w.ses /\ v.closed = w.closed
      /\ v.current = 0 /\ v.token = 0 /\ Kept(w, v)
      /\ Persistent(w) => v.channel = w.channel /\ v.pc = w.pc
      /\ ~Persistent(w) => v.channel = 0 /\ v.pc = 0
  BY DEF Dropped, Kept, Persistent, Good, Manager
<1> HIDE DEF v
<1>2. Held(v) /\ Settled(v) /\ Waits(v) /\ Fresh(v)
  BY <1>1, Numbers DEF Sane, Sound, Held, Settled, Waits, Fresh, Kept
<1>3. Mutual(v) /\ Reports(v) /\ Asleep(v)
  BY <1>1 DEF Sane, Sound, Mutual, Reports, Asleep, Over, Kept
<1>4. ASSUME v.raced = {} PROVE Orderly(v)
  <2>1. Orderly(w) /\ \A s \in Sessions : w.ses[s].state \notin Active
    BY <1>1, <1>4 DEF Sane, Kept
  <2>2. Only(v) /\ OnTheManagers(v) /\ Negotiated(v) /\ TalksOpen(v)
    BY <1>1, <2>1 DEF Only, OnTheManagers, Negotiated, TalksOpen, Active
  <2>3. Tokens(v) /\ NoRenewal(v) /\ InVain(v)
    BY <1>1, <2>1 DEF Orderly, Tokens, NoRenewal, InVain, Kept, Persistent, Over
  <2>4. IdleIsKept(v)
    BY <1>1, <2>1 DEF Orderly, IdleIsKept, Kept, Persistent
  <2>5. PendingIsHeld(v)
    BY <1>1, <2>1, GoodParts, Numbers DEF Orderly, PendingIsHeld, Active
  <2>6. 0 \notin w.closed
    BY GoodParts, Numbers
  <2>7. Together(v)
    BY <1>1, <2>1, <2>6 DEF Orderly, Together
  <2> QED
    BY <2>2, <2>3, <2>4, <2>5, <2>7 DEF Orderly
<1>5. Sane(v)
  BY <1>2, <1>3, <1>4 DEF Sane, Sound
<1> QED
  BY <1>5 DEF v

\* v is w after session s has ended with nothing torn down.
Ceases(w, s, v) ==
  /\ Kept(w, v) /\ v.chan = w.chan /\ v.pc = w.pc /\ v.channel = w.channel
  /\ v.current = w.current /\ v.token = w.token
  /\ Over(v, s) /\ \A t \in Sessions \ {s} : v.ses[t] = w.ses[t]
  /\ Persistent(w) => v.closed = w.closed
  /\ ~Persistent(w) => v.closed = w.closed \union ({w.ses[s].pc} \ {0})

\* transit(DisconnectedState) ends the session; from a conversation on a sick
\* connection it tears the rest down too.
LEMMA DisconnectEffect ==
  ASSUME NEW F, NEW w, Good(w, F), NEW s \in Sessions, NEW sick \in BOOLEAN
  PROVE  \/ Ends(w, s, Disconnect(w, s, sick)) /\ w.ses[s].state = "talking"
         \/ Ceases(w, s, Disconnect(w, s, sick))
<1>1. ASSUME NEW y, Good(y, F), y.ses = w.ses,
             NEW v, v = StopSession([y EXCEPT !.ses[s].state = "disconnected"], s)
      PROVE  Ceases(y, s, v)
  <2> DEFINE x == [y EXCEPT !.ses[s].state = "disconnected"]
  <2>1. Good(x, F)
    BY <1>1, GoodStates DEF SessionStates
  <2>2. /\ Kept(y, x) /\ x.chan = y.chan /\ x.pc = y.pc /\ x.channel = y.channel
        /\ x.current = y.current /\ x.token = y.token /\ x.closed = y.closed
        /\ \A t \in Sessions \ {s} : x.ses[t] = y.ses[t]
        /\ x.ses[s].state = "disconnected" /\ x.ses[s].pc = y.ses[s].pc
    BY <1>1 DEF Kept, Good, Manager, SessionRecord
  <2>3. v = StopSession(x, s)
    BY <1>1
  <2> HIDE DEF x
  <2>4. /\ Kept(x, v) /\ v.chan = x.chan /\ v.pc = x.pc /\ v.channel = x.channel
        /\ v.current = x.current /\ v.token = x.token
        /\ \A t \in Sessions \ {s} : v.ses[t] = x.ses[t]
        /\ v.ses[s].state = x.ses[s].state
        /\ Persistent(x) => v.closed = x.closed
        /\ ~Persistent(x) => v.closed = x.closed \union ({x.ses[s].pc} \ {0})
    BY <2>1, <2>3, StopSessionEffect
  <2> QED
    BY <2>2, <2>4 DEF Ceases, Kept, Persistent, Over, Ended
<1> DEFINE y == Forget(w)
           v == StopSession([y EXCEPT !.ses[s].state = "disconnected"], s)
           u == StopSession([w EXCEPT !.ses[s].state = "disconnected"], s)
<1>2. \/ Disconnect(w, s, sick) = v /\ w.ses[s].state = "talking"
      \/ Disconnect(w, s, sick) = u
  BY DEF Disconnect
<1>3. /\ TornDown(w, y) /\ Kept(w, y) /\ y.ses = w.ses /\ y.current = 0 /\ y.token = 0
      /\ Good(y, F)
  BY ForgetEffect, ForgetGood
<1> HIDE DEF y
<1>4. Ceases(y, s, v)
  BY <1>1, <1>3
<1>5. Ceases(w, s, u)
  BY <1>1
<1> HIDE DEF u, v
<1>6. Ends(w, s, v)
  BY <1>3, <1>4 DEF Ends, Ceases, TornDown, Kept, Silenced
<1> QED
  BY <1>2, <1>5, <1>6

\* A session may end with nothing torn down when it has had its answer.
LEMMA CeasesSane ==
  ASSUME NEW F, NEW w, Good(w, F), Sane(w), NEW s \in Sessions,
         w.ses[s].state \in {"accepted", "talking"},
         NEW v, v.closed \subseteq Pcs, Kept(w, v), v.chan = w.chan,
         \/ v.pc = w.pc /\ v.channel = w.channel
         \/ v.pc = 0 /\ v.channel = 0,
         v.current = 0, v.raced = {} => v.token = 0,
         Over(v, s), \A t \in Sessions \ {s} : v.ses[t] = w.ses[t],
         Persistent(w) => v.closed = w.closed,
         ~Persistent(w) => v.closed = w.closed \union ({w.ses[s].pc} \ {0})
  PROVE  Sane(v)
<1>1. Ending(w, s)
  BY SaneEnding DEF Active
<1>2. Silenced(w, v)
  BY DEF Silenced
<1>3. Sound(v)
  BY <1>1, <1>2, EndingSound
<1>4. ASSUME v.raced = {} PROVE Orderly(v)
  <2>1. Orderly(w) /\ w.current = s
    BY <1>4 DEF Sane, Kept, Orderly, Only, Active
  <2>2. \A t \in Sessions : v.ses[t].state \notin Active
    BY <1>1, <1>4 DEF Ending, Kept, Over, Ended, Active
  <2>3. Only(v) /\ OnTheManagers(v) /\ Negotiated(v) /\ TalksOpen(v)
    BY <2>2 DEF Only, OnTheManagers, Negotiated, TalksOpen, Active
  <2>4. Tokens(v) /\ NoRenewal(v)
    BY <1>4, <2>1 DEF Orderly, Tokens, NoRenewal, Kept, Persistent
  <2>5. InVain(v)
    <3>1. w.waiting # 0 => w.waiting \in Sessions \ {s}
      BY <2>1, GoodParts, Numbers DEF Orderly, InVain, Over, Ended
    <3> QED
      BY <2>1, <3>1 DEF Orderly, InVain, Kept, Over
  <2>6. IdleIsKept(v)
    BY <2>1 DEF Orderly, IdleIsKept, Kept, Persistent
  <2>7. PendingIsHeld(v)
    BY <2>1 DEF Orderly, PendingIsHeld
  <2>8. Together(v)
    <3>1. 0 \notin v.closed
      BY Numbers
    <3> QED
      BY <2>1, <3>1 DEF Orderly, Together, OnTheManagers, Active
  <2> QED
    BY <2>3, <2>4, <2>5, <2>6, <2>7, <2>8 DEF Orderly
<1> QED
  BY <1>3, <1>4 DEF Sane

\* hangup() of the channel in a conversation of the manager's session.
LEMMA HangupChannelSane ==
  ASSUME NEW F, NEW w, Good(w, F), Sane(w), NEW s \in Sessions, w.current = s,
         w.ses[s].state = "talking", w.channel \in Sessions
  PROVE  LET v == HangupChannel(w, w.channel) IN
         Sane(v) /\ v.ses[s].state = "talking"
<1> DEFINE c == w.channel
<1>1. w.chan[c].state = "none" => HangupChannel(w, c) = w
  BY DEF HangupChannel, Bye
<1>2. CASE w.chan[c].state = "PendingAnswer"
  <2> DEFINE mode == Denial(w, c, FALSE)
             b    == w.chan[c].bound
  <2>1. HangupChannel(w, c) = FailChannel(w, c, FALSE)
    BY <1>2 DEF HangupChannel
  <2>2. Sane(FailChannel(w, c, FALSE))
    BY <1>2, FailChannelSane
  <2>3. b \in Sessions /\ Good(mode, F) /\ mode.ses = w.ses
    <3>1. w.chan[c].state # "none"
      BY <1>2
    <3>2. b \in Sessions
      BY <3>1, GoodParts
    <3>3. Good(mode, F) /\ Moves(w, mode, c)
      BY <3>1, DenialMoves
    <3> QED
      BY <3>2, <3>3 DEF Moves
  <2>4. FailChannel(w, c, FALSE) =
          IF w.ses[b].state \in {"signaling", "invited", "forsaken"}
            THEN Settle(Fail(mode, b), b, "rejected") ELSE mode
    BY DEF FailChannel, Denial
  <2> HIDE DEF mode, b
  <2>5. CASE w.ses[b].state \in {"signaling", "invited", "forsaken"}
    <3>1. s # b /\ Good(Fail(mode, b), F) /\ Ends(mode, b, Fail(mode, b))
      BY <2>3, <2>5, FailGood, FailEffect
    <3>2. Ends(mode, b, Settle(Fail(mode, b), b, "rejected"))
      BY <2>3, <3>1, SettleEnds
    <3> QED
      BY <2>1, <2>2, <2>3, <2>4, <2>5, <3>1, <3>2 DEF Ends
  <2> QED
    BY <2>1, <2>2, <2>3, <2>4, <2>5
<1>3. CASE w.chan[c].state \notin {"none", "PendingAnswer"}
  <2> DEFINE v == HangupChannel(w, c)
  <2>1. \/ v = w
        \/ /\ w.chan[c].state # "PendingConnect" /\ Moves(w, v, c)
           /\ \/ v.chan[c].state \in {"Disconnected", "PendingRemoteHangup"}
              \/ v.chan[c].state = "Idle" /\ Persistent(v)
    <3>1. CASE w.chan[c].state = "Talking" /\ Persistent(w)
      <4> DEFINE i == [w EXCEPT !.chan[c].state = "Idle"]
                 j == [i EXCEPT !.inactive = TRUE]
      <4>1. v = j
        BY <3>1 DEF HangupChannel
      <4>2. Moves(w, i, c) /\ i.chan[c].state = "Idle"
            /\ i.allowed = w.allowed
        BY <3>1 DEF Moves, Good, Manager, ChannelRecord
      <4>6. w.chan[c].bound # 0 /\ "Idle" \in ChannelStates \ {"none"}
        BY <3>1, GoodParts, Numbers DEF ChannelStates
      <4>4. i \in Manager
        BY <4>6, GoodStates DEF Good
      <4> HIDE DEF i
      <4>3. Moves(w, j, c) /\ j.chan = i.chan /\ j.allowed = w.allowed
            /\ j.enabled = w.enabled
        BY <4>2, <4>4 DEF Moves, Manager
      <4> HIDE DEF j
      <4>5. Persistent(j)
        BY <3>1, <4>3 DEF Persistent
      <4> QED
        BY <3>1, <4>1, <4>2, <4>3, <4>5
    <3>2. CASE w.chan[c].state = "PendingLocalHangup"
      <4> DEFINE i == [w EXCEPT !.chan[c].state = "Disconnected"]
      <4>1. v = i
        BY <3>2 DEF HangupChannel
      <4>2. Moves(w, i, c) /\ i.chan[c].state = "Disconnected"
        BY <3>2 DEF Moves, Good, Manager, ChannelRecord
      <4> HIDE DEF i
      <4> QED
        BY <3>2, <4>1, <4>2
    <3>3. CASE /\ ~(w.chan[c].state = "Talking" /\ Persistent(w))
               /\ w.chan[c].state # "PendingLocalHangup"
      <4> DEFINE i == [w EXCEPT !.chan[c].state = "PendingRemoteHangup"]
      <4>1. v = w \/ v = i
        BY <1>3, <3>3 DEF HangupChannel, Bye
      <4>2. Moves(w, i, c) /\ i.chan[c].state = "PendingRemoteHangup"
        BY <1>3 DEF Moves, Good, Manager, ChannelRecord
      <4>3. w.chan[c].state = "PendingConnect" => v = w
        BY <3>3 DEF HangupChannel, Bye
      <4> QED
        BY <4>1, <4>2, <4>3
    <3> QED
      BY <3>1, <3>2, <3>3
  <2> HIDE DEF v
  <2>2. v.ses[s].state = "talking"
    BY <2>1 DEF Moves
  <2>3. w.raced = {} => w.chan[c].pc = w.pc /\ w.pc \notin w.closed
    BY Numbers DEF Sane, Orderly, OnTheManagers, Negotiated, TalksOpen, Active
  <2>4. w.ses[c].sig = c /\ w.chan[c].bound = c /\ w.ses[c].state \in {"signaling", "invited"}
          => w.chan[c].state = "PendingConnect"
    BY <1>3 DEF Sane, Sound, Reports
  <2> QED
    BY <1>3, <2>1, <2>2, <2>3, <2>4, MovesSane DEF Moves, v
<1> QED
  BY <1>1, <1>2, <1>3

\* hangup() of the manager.
LEMMA HangupSane ==
  ASSUME NEW F, NEW w, Good(w, F), Sane(w), NEW sick \in BOOLEAN
  PROVE  Sane(Hangup(w, sick)) /\ Hangup(w, sick).current = 0
<1> DEFINE s    == w.current
           hung == IF s = 0 THEN w ELSE HangupSession(w, s, sick)
<1>1. Good(hung, F)
  BY HangupSessionGood, GoodParts, Numbers
<1>2. Hangup(w, sick) = Dropped(hung)
  BY DEF Hangup, Dropped
<1>3. Dropped(hung).current = 0
  BY <1>1 DEF Dropped, Good, Manager
<1>4. s # 0 => s \in Sessions
  BY GoodParts, Numbers
<1>5. CASE s = 0 \/ w.ses[s].state \notin Active
  <2>1. hung = w
    BY <1>5 DEF HangupSession, Active
  <2>2. w.raced = {} => \A t \in Sessions : w.ses[t].state \notin Active
    BY <1>5, Numbers DEF Sane, Orderly, Only
  <2> QED
    BY <1>2, <1>3, <2>1, <2>2, DroppedSane
<1>6. CASE s # 0 /\ w.ses[s].state \in Active \ {"talking"}
  <2>1. hung = Fail(w, s)
    BY <1>6 DEF HangupSession, Active
  <2>2. Sane(hung) /\ (hung.raced = {} => \A t \in Sessions : hung.ses[t].state \notin Active)
    BY <1>1, <1>4, <1>6, <2>1, FailEffect, SaneEnding, EndsSane, GoodParts
  <2> HIDE DEF hung
  <2> QED
    BY <1>1, <1>2, <1>3, <2>2, DroppedSane
<1>7. CASE s # 0 /\ w.ses[s].state = "talking" /\ w.channel = 0
  <2>1. hung = w
    BY <1>7 DEF HangupSession
  <2>2. w.raced # {}
    BY <1>4, <1>7 DEF Sane, Orderly, OnTheManagers, TalksOpen, Active
  <2> QED
    BY <1>2, <1>3, <2>1, <2>2, DroppedSane
<1>8. CASE s # 0 /\ w.ses[s].state = "talking" /\ w.channel # 0
  <2> DEFINE i == HangupChannel(w, w.channel)
             v == Disconnect(i, s, sick)
             d == Dropped(v)
  <2>1. s \in Sessions /\ w.channel \in Sessions
    BY <1>4, <1>8, GoodParts, Numbers
  <2>2. hung = v
    BY <1>8 DEF HangupSession
  <2>3. Good(i, F) /\ Sane(i) /\ i.ses[s].state = "talking"
    BY <1>8, <2>1, HangupChannelGood, HangupChannelSane
  <2> HIDE DEF i
  <2>4. Good(v, F)
    BY <2>1, <2>3, DisconnectGood
  <2>5. CASE Ends(i, s, v)
    <3>1. Ending(i, s)
      BY <2>1, <2>3, SaneEnding DEF Active
    <3>2. Sane(v) /\ (v.raced = {} => \A t \in Sessions : v.ses[t].state \notin Active)
      BY <2>1, <2>3, <2>4, <2>5, <3>1, EndsSane, GoodParts
    <3> HIDE DEF v
    <3> QED
      BY <1>2, <1>3, <2>2, <2>4, <3>2, DroppedSane
  <2>6. CASE Ceases(i, s, v)
    <3> HIDE DEF v
    <3>1. /\ Kept(v, d) /\ d.chan = v.chan /\ d.ses = v.ses /\ d.closed = v.closed
          /\ d.current = 0 /\ d.token = 0
          /\ \/ d.pc = v.pc /\ d.channel = v.channel
             \/ d.pc = 0 /\ d.channel = 0
      BY <2>4 DEF Dropped, Kept, Good, Manager
    <3> HIDE DEF d
    <3>2. v.closed \subseteq Pcs
      BY <2>4, GoodParts
    <3>3. Sane(d)
      <4>1. Kept(i, d) /\ d.chan = i.chan /\ d.current = 0 /\ d.token = 0 /\ d.closed \subseteq Pcs
        BY <2>6, <3>1, <3>2 DEF Ceases, Kept
      <4>2. \/ d.pc = i.pc /\ d.channel = i.channel
            \/ d.pc = 0 /\ d.channel = 0
        BY <2>6, <3>1 DEF Ceases
      <4>3. /\ Over(d, s) /\ \A t \in Sessions \ {s} : d.ses[t] = i.ses[t]
            /\ Persistent(i) => d.closed = i.closed
            /\ ~Persistent(i) => d.closed = i.closed \union ({i.ses[s].pc} \ {0})
        BY <2>6, <3>1 DEF Ceases, Over
      <4> QED
        BY <2>1, <2>3, <4>1, <4>2, <4>3, CeasesSane
    <3> QED
      BY <1>2, <1>3, <2>2, <3>3 DEF d
  <2> QED
    BY <2>1, <2>3, <2>5, <2>6, DisconnectEffect
<1> QED
  BY <1>5, <1>6, <1>7, <1>8

\* The application loses interest in a session that was not connected.
LEMMA LetGoSane ==
  ASSUME NEW F, NEW w, Good(w, F), Sane(w), w.current = 0
  PROVE  Sane(LetGo(w))
<1> DEFINE v == LetGo(w)
<1>1. /\ Kept(w, v) /\ v.chan = w.chan /\ v.pc = w.pc /\ v.channel = w.channel
      /\ v.closed = w.closed /\ v.current = w.current /\ v.token = w.token
  BY DEF LetGo, Kept, Good, Manager
<1>2. v.ses = [s \in Sessions |-> IF w.ses[s].state = "created" /\ ~w.ses[s].ahead
                                    THEN [w.ses[s] EXCEPT !.state = "failed"] ELSE w.ses[s]]
  BY DEF LetGo, Good, Manager
<1> HIDE DEF v
<1>3. \A s \in Sessions :
        \/ v.ses[s] = w.ses[s]
        \/ /\ w.ses[s].state = "created" /\ v.ses[s].state = "failed"
           /\ v.ses[s].pc = w.ses[s].pc /\ v.ses[s].sig = w.ses[s].sig
           /\ v.ses[s].promise = w.ses[s].promise
  BY <1>2, GoodParts DEF SessionRecord
<1> HIDE <1>2
<1>4. Held(v) /\ Fresh(v)
  BY <1>1, <1>3 DEF Sane, Sound, Held, Fresh
<1>5. Mutual(v) /\ Reports(v) /\ Settled(v)
  BY <1>1, <1>3 DEF Sane, Sound, Mutual, Reports, Settled, Over, Ended
<1>6. Asleep(v)
  BY <1>1, <1>3 DEF Sane, Sound, Asleep, Kept, Active
<1>7. (w.waiting # 0 => w.waiting \in Sessions) /\ (w.pending # 0 => w.pending \in Sessions)
  BY GoodParts, Numbers
<1>8. Waits(v)
  BY <1>1, <1>3, <1>7 DEF Sane, Sound, Waits, Kept
<1>9. ASSUME v.raced = {} PROVE Orderly(v)
  <2>1. Orderly(w)
    BY <1>1, <1>9 DEF Sane, Kept
  <2>2. \A s \in Sessions : w.ses[s].state \notin Active /\ v.ses[s].state \notin Active
    BY <1>3, <2>1, Numbers DEF Orderly, Only, Active
  <2>3. Only(v) /\ OnTheManagers(v) /\ Negotiated(v) /\ TalksOpen(v)
    BY <2>2 DEF Only, OnTheManagers, Negotiated, TalksOpen, Active
  <2>4. Tokens(v) /\ NoRenewal(v) /\ IdleIsKept(v) /\ PendingIsHeld(v) /\ Together(v)
    BY <1>1, <2>1 DEF Orderly, Tokens, NoRenewal, IdleIsKept, PendingIsHeld, Together,
                      Kept, Persistent
  <2>5. InVain(v)
    BY <1>1, <1>3, <1>7, <2>1 DEF Orderly, InVain, Kept, Over, Ended
  <2> QED
    BY <2>1, <2>3, <2>4, <2>5 DEF Orderly
<1>10. Sane(v)
  BY <1>4, <1>5, <1>6, <1>8, <1>9 DEF Sane, Sound
<1> QED
  BY <1>10 DEF v

-----------------------------------------------------------------------------
(* The start of a call.                                                    *)

\* All but the sessions and the channels.
Rest(w, v) ==
  /\ Kept(w, v)
  /\ v.pc = w.pc /\ v.channel = w.channel /\ v.closed = w.closed
  /\ v.current = w.current /\ v.token = w.token

\* createSession(): what was at work overlaps with the new session.
LEMMA CreateSessionSane ==
  ASSUME NEW F, NEW w, Good(w, F), Sane(w), NEW s \in Sessions, w.ses[s].state = "none",
         w.waiting = 0, NEW call \in {0, s}, NEW cleanup \in BOOLEAN,
         NEW u, u = CreateSession(w, s, call, cleanup)
  PROVE  /\ Sane(u) /\ u.current = s /\ u.ses[s].state = "created" /\ u.waiting = 0
         /\ u.pending = w.pending /\ (w.agent => u.agent)
<1> DEFINE clean  == IF cleanup THEN Forget(w) ELSE w
           token  == IF call = 0 THEN clean.token ELSE call
           others == {t \in Sessions \ {s} : Alive(clean, t)}
           raced  == IF others = {} THEN clean.raced ELSE clean.raced \union {"sessions"}
           r == [NoSession EXCEPT !.state = "created", !.ahead = (call = 0), !.token = token]
           v == [clean EXCEPT !.current = s, !.token = token, !.raced = raced]
<1>1. Good(clean, F)
  BY ForgetGood
<1>2. u = [v EXCEPT !.ses[s] = r]
  BY DEF CreateSession
<1>3. /\ Kept(w, clean) /\ clean.ses = w.ses
      /\ clean.current \in {0, w.current} /\ clean.channel \in {0, w.channel}
      /\ Silenced(w, clean)
      /\ clean = w \/ (TornDown(w, clean) /\ clean.current = 0 /\ clean.token = 0)
  BY ForgetEffect DEF TornDown, Kept, Silenced
<1>4. Sound(clean)
  BY <1>3, SilencedSound DEF Sane
<1>5. others # {} => raced # {}
  OBVIOUS
<1>6. others = {} => /\ raced = clean.raced
                     /\ \A t \in Sessions \ {s} : ~Alive(clean, t)
  OBVIOUS
<1>7. call = 0 => token = clean.token
  OBVIOUS
<1>8. call = s => token = s
  BY Numbers
<1> HIDE DEF clean, others
<1>9. raced \in Overlaps /\ token \in 0..MaxSessions /\ s \in 0..MaxSessions
  BY <1>1, GoodParts, Numbers DEF Good, Manager, Overlaps
<1> HIDE DEF raced, token
<1>10. /\ v \in Manager /\ v.ses = clean.ses /\ v.chan = clean.chan /\ v.pc = clean.pc
       /\ v.closed = clean.closed /\ v.channel = clean.channel /\ v.current = s
       /\ v.token = token /\ v.raced = raced
       /\ v.enabled = clean.enabled /\ v.allowed = clean.allowed /\ v.agent = clean.agent
       /\ v.standby = clean.standby /\ v.requests = clean.requests
       /\ v.pending = clean.pending /\ v.waiting = clean.waiting
       /\ v.suspended = clean.suspended
  BY <1>1, <1>9 DEF Good, Manager
<1>11. /\ r.state = "created" /\ r.token = token /\ r.ahead = (call = 0)
       /\ r.pc = 0 /\ r.sig = 0 /\ r.promise = "pending"
  BY DEF NoSession
<1> HIDE DEF v, r
<1>12. /\ Rest(v, u) /\ u.chan = v.chan
       /\ u.ses[s] = r /\ \A t \in Sessions \ {s} : u.ses[t] = v.ses[t]
  BY <1>2, <1>10 DEF Rest, Kept, Manager
<1>13. /\ u.pc = clean.pc /\ u.channel = clean.channel /\ u.closed = clean.closed
       /\ u.chan = clean.chan /\ u.current = s /\ u.token = token /\ u.raced = raced
       /\ u.enabled = clean.enabled /\ u.allowed = clean.allowed /\ u.agent = clean.agent
       /\ u.standby = clean.standby /\ u.requests = clean.requests
       /\ u.pending = clean.pending /\ u.waiting = 0 /\ u.suspended = clean.suspended
       /\ \A t \in Sessions \ {s} : u.ses[t] = clean.ses[t]
       /\ u.ses[s].state = "created"
  BY <1>3, <1>10, <1>11, <1>12 DEF Rest, Kept
<1>14. clean.ses[s].state = "none"
  BY <1>3
<1>21. /\ \A t \in Sessions \ {s} : u.ses[t] = clean.ses[t]
       /\ u.ses[s].state = "created" /\ u.chan = clean.chan /\ u.channel = clean.channel
       /\ u.current = s
  BY <1>13
<1>22. Held(u)
  BY <1>21 DEF Held
<1>15. Settled(u)
  BY <1>4, <1>21 DEF Sound, Settled
<1>16. Fresh(u)
  BY <1>4, <1>13, <1>14 DEF Sound, Fresh
<1>23. Reports(u)
  BY <1>4, <1>21 DEF Sound, Reports
<1>24. \A c \in Sessions : clean.chan[c].bound # s
  BY <1>4, <1>14 DEF Sound, Fresh
<1>17. Mutual(u)
  BY <1>4, <1>21, <1>24 DEF Sound, Mutual, Over
<1>18. Asleep(u)
  BY <1>3, <1>4, <1>13 DEF Sound, Asleep, Kept, Active
<1>19. Waits(u)
  <2>1. clean.pending # 0 => clean.pending \in Sessions
    BY <1>1, GoodParts, Numbers
  <2> QED
    BY <1>3, <1>4, <1>13, <1>14, <2>1 DEF Sound, Waits, Kept
<1>20. ASSUME u.raced = {} PROVE Orderly(u)
  <2>1. raced = {} /\ others = {} /\ clean.raced = {}
    BY <1>5, <1>6, <1>13, <1>20
  <2>2. Orderly(w)
    BY <1>3, <2>1 DEF Sane, Kept
  <2>3. \A t \in Sessions : u.ses[t].state \notin Active
    BY <1>6, <1>21, <2>1 DEF Alive, Active
  <2>4. Only(u) /\ OnTheManagers(u) /\ Negotiated(u) /\ TalksOpen(u) /\ InVain(u)
    BY <1>13, <2>3 DEF Only, OnTheManagers, Negotiated, TalksOpen, InVain, Active
  <2>5. clean.current = 0
    <3>1. ASSUME clean.current # 0 PROVE FALSE
      <4>1. clean.current \in Sessions
        BY <1>1, <3>1, GoodParts, Numbers
      <4>2. clean.ses[clean.current].state \in Active \union {"created"}
        BY <1>4, <3>1 DEF Sound, Held
      <4>3. clean.current # s
        BY <1>14, <4>2 DEF Active
      <4>4. Alive(clean, clean.current)
        BY <4>2 DEF Alive
      <4> QED
        BY <1>6, <2>1, <4>1, <4>3, <4>4
    <3> QED
      BY <3>1
  <2>6. clean.token = 0
    BY <1>3, <2>2, <2>5 DEF Orderly, Tokens
  <2>7. Tokens(u)
    <3>1. u.current = s /\ u.current # 0 /\ u.ses[s].token = token /\ u.token = token
          /\ u.ses[s].ahead = (call = 0)
      BY <1>11, <1>12, <1>13, Numbers
    <3>2. CASE call = 0
      BY <1>7, <2>6, <3>1, <3>2 DEF Tokens
    <3>3. CASE call = s
      BY <1>8, <3>1, <3>3, Numbers DEF Tokens
    <3> QED
      BY <3>2, <3>3
  <2>8. NoRenewal(u)
    BY <1>3, <1>13, <2>2 DEF Orderly, NoRenewal, Kept, Persistent
  <2>9. CASE clean = w
    <3>1. w.current = 0
      BY <2>5, <2>9
    <3>2. IdleIsKept(u) /\ Together(u)
      BY <1>13, <2>2, <2>9 DEF Orderly, IdleIsKept, Together, Persistent
    <3>3. PendingIsHeld(u)
      BY <1>13, <2>2, <2>9, <3>1 DEF Orderly, PendingIsHeld
    <3> QED
      BY <2>4, <2>7, <2>8, <3>2, <3>3 DEF Orderly
  <2>10. CASE TornDown(w, clean)
    <3>1. u.channel = 0 /\ u.pc = 0
      BY <1>13, <2>2, <2>10 DEF TornDown, Orderly, Together
    <3>2. 0 \notin u.closed
      BY <1>1, <1>13, GoodParts, Numbers
    <3>3. IdleIsKept(u) /\ PendingIsHeld(u) /\ Together(u)
      BY <3>1, <3>2 DEF IdleIsKept, PendingIsHeld, Together
    <3> QED
      BY <2>4, <2>7, <2>8, <3>3 DEF Orderly
  <2> QED
    BY <1>3, <2>9, <2>10
<1>25. Sane(u)
  BY <1>15, <1>16, <1>17, <1>18, <1>19, <1>20, <1>22, <1>23 DEF Sane, Sound
<1>26. u.pending = w.pending /\ (w.agent => u.agent)
  BY <1>3, <1>13 DEF Kept
<1> QED
  BY <1>13, <1>25, <1>26

\* A request for a connection.
Asks(w, v) ==
  /\ v.ses = w.ses /\ v.chan = w.chan /\ v.channel = w.channel /\ v.closed = w.closed
  /\ v.current = w.current /\ v.token = w.token
  /\ v.enabled = w.enabled /\ v.allowed = w.allowed /\ v.agent = w.agent
  /\ v.pending = w.pending /\ v.waiting = w.waiting /\ v.suspended = w.suspended
  /\ v.raced = w.raced

\* getPeerConnection
LEMMA GetPcEffect ==
  ASSUME NEW F, NEW w, Good(w, F), F # {}, NEW v, v = GetPc(w)
  PROVE  /\ Asks(w, v) /\ v.requests = w.requests /\ v.standby \in {w.standby, FALSE}
         /\ v.pc # 0
         /\ \/ v.pc = w.pc /\ Persistent(w)
            \/ v.pc \notin w.closed /\ (Persistent(w) => w.pc = 0)
<1> DEFINE n == NewPc(w)
           x == [w EXCEPT !.pc = n]
           y == [w EXCEPT !.standby = FALSE, !.pc = n]
           z == [y EXCEPT !.inFlight = TRUE]
<1>1. n \in Pcs \ w.closed /\ n # 0
  BY NewPcIsNew, Numbers
<1>2. Persistent(w) => v = IF w.pc # 0 THEN w ELSE x
  BY DEF GetPc
<1> HIDE DEF n
<1>3. /\ Asks(w, x) /\ x.requests = w.requests /\ x.standby = w.standby /\ x.pc = n
  BY DEF Asks, Good, Manager
<1>4. y \in Manager
  BY <1>1, Numbers DEF Good, Manager
<1>5. Asks(w, y) /\ y.requests = w.requests /\ y.standby = FALSE /\ y.pc = n
  BY DEF Asks, Good, Manager
<1>6. ~Persistent(w) => v = Request(y, "refresh")
  BY DEF GetPc, n
<1> HIDE DEF x, y
<1>7. Asks(y, z) /\ z.requests = y.requests /\ z.standby = y.standby /\ z.pc = y.pc
  BY <1>4 DEF Asks, Manager
<1>8. ~Persistent(w) => ~Persistent(y)
  BY <1>5 DEF Asks, Persistent
<1>9. ~Persistent(y) => Request(y, "refresh") = z
  BY DEF Request
<1> HIDE DEF z
<1>10. Asks(w, z) /\ z.requests = w.requests /\ z.standby = FALSE /\ z.pc = n
  BY <1>5, <1>7 DEF Asks
<1>11. CASE Persistent(w)
  BY <1>1, <1>2, <1>3, <1>11 DEF Asks
<1>12. CASE ~Persistent(w)
  BY <1>1, <1>6, <1>8, <1>9, <1>10, <1>12
<1> QED
  BY <1>11, <1>12

\* getPeerConnection keeps everything for a session that was just created.
LEMMA GetPcSane ==
  ASSUME NEW F, NEW w, Good(w, F), F # {}, Sane(w), NEW v, v = GetPc(w),
         w.current # 0, w.ses[w.current].state = "created"
  PROVE  Sane(v)
<1>1. /\ Asks(w, v) /\ v.requests = w.requests /\ v.standby \in {w.standby, FALSE}
      /\ v.pc # 0
      /\ \/ v.pc = w.pc /\ Persistent(w)
         \/ v.pc \notin w.closed /\ (Persistent(w) => w.pc = 0)
  BY GetPcEffect
<1>2. Held(v) /\ Fresh(v) /\ Settled(v) /\ Waits(v)
  BY <1>1 DEF Sane, Sound, Held, Fresh, Settled, Waits, Asks
<1>3. Mutual(v) /\ Reports(v) /\ Asleep(v)
  BY <1>1 DEF Sane, Sound, Mutual, Reports, Asleep, Over, Asks
<1>4. ASSUME v.raced = {} PROVE Orderly(v)
  <2>1. Orderly(w)
    BY <1>1, <1>4 DEF Sane, Asks
  <2>2. \A s \in Sessions : v.ses[s].state \notin Active
    BY <1>1, <2>1, Numbers DEF Asks, Orderly, Only, Active
  <2>3. Only(v) /\ OnTheManagers(v) /\ Negotiated(v) /\ TalksOpen(v)
    BY <2>2 DEF Only, OnTheManagers, Negotiated, TalksOpen, Active
  <2>4. Tokens(v) /\ NoRenewal(v) /\ InVain(v)
    BY <1>1, <2>1 DEF Orderly, Tokens, NoRenewal, InVain, Asks, Persistent, Over
  <2>5. IdleIsKept(v)
    BY <1>1, <2>1 DEF Orderly, IdleIsKept, Together, Asks, Persistent
  <2>6. PendingIsHeld(v)
    BY <1>1, <2>1 DEF Orderly, PendingIsHeld, Asks
  <2>7. Together(v)
    BY <1>1, <2>1 DEF Orderly, Together, Asks
  <2> QED
    BY <2>3, <2>4, <2>5, <2>6, <2>7 DEF Orderly
<1> QED
  BY <1>2, <1>3, <1>4 DEF Sane, Sound

\* Session s starts on connection p: it is set up, or takes the channel there is.
Starts(w, s, p, v) ==
  /\ Rest(w, v)
  /\ \A t \in Sessions \ {s} : v.ses[t] = w.ses[t]
  /\ v.ses[s].pc = p
  /\ v.ses[s].token = w.ses[s].token /\ v.ses[s].ahead = w.ses[s].ahead
  /\ \/ /\ ~Persistent(w) \/ w.channel = 0
        /\ v.ses[s].state = "setup" /\ v.chan = w.chan
     \/ /\ Persistent(w) /\ w.channel # 0
        /\ v.ses[s].sig = w.channel /\ v.chan[w.channel].bound = s
        /\ v.chan[w.channel].pc = w.chan[w.channel].pc
        /\ \A d \in Sessions \ {w.channel} : v.chan[d] = w.chan[d]
        /\ \/ /\ w.chan[w.channel].state = "Idle" /\ v.chan[w.channel].state = "Talking"
              /\ v.ses[s].state = "talking"
           \/ /\ w.chan[w.channel].state # "Idle"
              /\ v.chan[w.channel].state = w.chan[w.channel].state
              /\ v.ses[s].state = "contact" /\ v.ses[s].promise = "threw"

\* connect() of a session does one of the things listed.
LEMMA ConnectSessionEffect ==
  ASSUME NEW F, NEW w, Good(w, F), NEW s \in Sessions, NEW p \in 0..MaxPcs \ F,
         p = IF w.pc \in w.closed THEN NewPc(w) ELSE w.pc,
         NEW v, v = ConnectSession(w, s)
  PROVE  Starts(w, s, p, v)
<1> DEFINE c    == w.channel
           with == [w EXCEPT !.ses[s].pc = p]
           set  == [with EXCEPT !.ses[s].state = "setup"]
           sign == [with EXCEPT !.ses[s].sig = c]
           bind == [sign EXCEPT !.chan[c].bound = s]
           t1 == [bind EXCEPT !.chan[c].state = "Talking"]
           t2 == [t1 EXCEPT !.ses[s].state = "talking"]
           r1 == [bind EXCEPT !.ses[s].state = "contact"]
           r2 == [r1 EXCEPT !.ses[s].promise = "threw"]
<1>1. v = IF Persistent(w) /\ c # 0 THEN ConnectContact(with, s) ELSE set
  BY DEF ConnectSession
<1>2. Good(with, F)
  BY GoodFields
<1>3. /\ Rest(w, with) /\ with.chan = w.chan
      /\ \A t \in Sessions \ {s} : with.ses[t] = w.ses[t]
      /\ with.ses[s].pc = p /\ with.ses[s].token = w.ses[s].token
      /\ with.ses[s].ahead = w.ses[s].ahead
  BY DEF Rest, Kept, Good, Manager, SessionRecord
<1>4. ConnectContact(with, s) = IF with.chan[c].state = "Idle" THEN t2 ELSE r2
  <2>1. with.channel = c
    BY <1>3 DEF Rest
  <2> HIDE DEF with
  <2> QED
    BY <2>1 DEF ConnectContact
<1> HIDE DEF with
<1>5. CASE ~Persistent(w) \/ c = 0
  <2>1. v = set
    BY <1>1, <1>5
  <2>2. /\ Rest(with, set) /\ set.chan = with.chan
        /\ \A t \in Sessions \ {s} : set.ses[t] = with.ses[t]
        /\ set.ses[s].pc = with.ses[s].pc /\ set.ses[s].token = with.ses[s].token
        /\ set.ses[s].ahead = with.ses[s].ahead /\ set.ses[s].state = "setup"
    BY <1>2 DEF Rest, Kept, Good, Manager, SessionRecord
  <2> HIDE DEF set
  <2> QED
    BY <1>3, <1>5, <2>1, <2>2 DEF Starts, Rest, Kept
<1>6. CASE Persistent(w) /\ c # 0
  <2>1. c \in Sessions /\ c \in 0..MaxSessions
    BY <1>6, GoodParts, Numbers
  <2>2. Good(sign, F)
    BY <1>2, <2>1, GoodFields
  <2>3. /\ Rest(with, sign) /\ sign.chan = with.chan
        /\ \A t \in Sessions \ {s} : sign.ses[t] = with.ses[t]
        /\ sign.ses[s].pc = with.ses[s].pc /\ sign.ses[s].token = with.ses[s].token
        /\ sign.ses[s].ahead = with.ses[s].ahead /\ sign.ses[s].sig = c
    BY <1>2, <2>1 DEF Rest, Kept, Good, Manager, SessionRecord
  <2> HIDE DEF sign
  <2>4. Good(bind, F)
    BY <2>1, <2>2, GoodFields
  <2>5. /\ Rest(sign, bind) /\ bind.ses = sign.ses
        /\ bind.chan[c].bound = s /\ bind.chan[c].state = sign.chan[c].state
        /\ bind.chan[c].pc = sign.chan[c].pc
        /\ \A d \in Sessions \ {c} : bind.chan[d] = sign.chan[d]
    BY <2>1, <2>2 DEF Rest, Kept, Good, Manager, ChannelRecord
  <2> HIDE DEF bind
  <2>6. /\ Rest(w, bind)
        /\ \A t \in Sessions \ {s} : bind.ses[t] = w.ses[t]
        /\ bind.ses[s].pc = p /\ bind.ses[s].token = w.ses[s].token
        /\ bind.ses[s].ahead = w.ses[s].ahead /\ bind.ses[s].sig = c
        /\ bind.chan[c].bound = s /\ bind.chan[c].state = w.chan[c].state
        /\ bind.chan[c].pc = w.chan[c].pc
        /\ \A d \in Sessions \ {c} : bind.chan[d] = w.chan[d]
    BY <1>3, <2>3, <2>5 DEF Rest, Kept
  <2>7. CASE w.chan[c].state = "Idle"
    <3>1. v = t2
      BY <1>1, <1>3, <1>4, <1>6, <2>7
    <3>3. Good(t1, F)
      <4>1. bind.chan[c].bound # 0 /\ "Talking" \in ChannelStates \ {"none"}
        BY <2>6, Numbers DEF ChannelStates
      <4> QED
        BY <2>1, <2>4, <4>1, GoodStates
    <3>2. /\ Rest(bind, t1) /\ t1.ses = bind.ses
          /\ t1.chan[c].bound = bind.chan[c].bound /\ t1.chan[c].state = "Talking"
          /\ t1.chan[c].pc = bind.chan[c].pc
          /\ \A d \in Sessions \ {c} : t1.chan[d] = bind.chan[d]
      BY <2>1, <2>4 DEF Rest, Kept, Good, Manager, ChannelRecord
    <3> HIDE DEF t1
    <3>4. /\ Rest(t1, t2) /\ t2.chan = t1.chan
          /\ \A t \in Sessions \ {s} : t2.ses[t] = t1.ses[t]
          /\ t2.ses[s].pc = t1.ses[s].pc /\ t2.ses[s].token = t1.ses[s].token
          /\ t2.ses[s].ahead = t1.ses[s].ahead /\ t2.ses[s].sig = t1.ses[s].sig
          /\ t2.ses[s].state = "talking"
      BY <3>3 DEF Rest, Kept, Good, Manager, SessionRecord
    <3> HIDE DEF t2
    <3>5. /\ Rest(w, t2)
          /\ \A t \in Sessions \ {s} : t2.ses[t] = w.ses[t]
          /\ t2.ses[s].pc = p /\ t2.ses[s].token = w.ses[s].token
          /\ t2.ses[s].ahead = w.ses[s].ahead /\ t2.ses[s].sig = c
          /\ t2.ses[s].state = "talking"
      BY <2>6, <3>2, <3>4 DEF Rest, Kept
    <3>6. /\ t2.chan[c].bound = s /\ t2.chan[c].state = "Talking"
          /\ t2.chan[c].pc = w.chan[c].pc
          /\ \A d \in Sessions \ {c} : t2.chan[d] = w.chan[d]
      BY <2>6, <3>2, <3>4
    <3> QED
      BY <1>6, <2>7, <3>1, <3>5, <3>6 DEF Starts
  <2>8. CASE w.chan[c].state # "Idle"
    <3>1. v = r2
      BY <1>1, <1>3, <1>4, <1>6, <2>8
    <3>5. Good(r1, F)
      BY <2>4, GoodStates DEF SessionStates
    <3>2. /\ Rest(bind, r1) /\ r1.chan = bind.chan
          /\ \A t \in Sessions \ {s} : r1.ses[t] = bind.ses[t]
          /\ r1.ses[s].pc = bind.ses[s].pc /\ r1.ses[s].token = bind.ses[s].token
          /\ r1.ses[s].ahead = bind.ses[s].ahead /\ r1.ses[s].sig = bind.ses[s].sig
          /\ r1.ses[s].state = "contact"
      BY <2>4 DEF Rest, Kept, Good, Manager, SessionRecord
    <3> HIDE DEF r1
    <3>3. /\ Rest(r1, r2) /\ r2.chan = r1.chan
          /\ \A t \in Sessions \ {s} : r2.ses[t] = r1.ses[t]
          /\ r2.ses[s].pc = r1.ses[s].pc /\ r2.ses[s].token = r1.ses[s].token
          /\ r2.ses[s].ahead = r1.ses[s].ahead /\ r2.ses[s].sig = r1.ses[s].sig
          /\ r2.ses[s].state = r1.ses[s].state /\ r2.ses[s].promise = "threw"
      BY <3>5 DEF Rest, Kept, Good, Manager, SessionRecord
    <3> HIDE DEF r2
    <3>4. /\ Rest(w, r2) /\ r2.chan = bind.chan
          /\ \A t \in Sessions \ {s} : r2.ses[t] = w.ses[t]
          /\ r2.ses[s].pc = p /\ r2.ses[s].token = w.ses[s].token
          /\ r2.ses[s].ahead = w.ses[s].ahead /\ r2.ses[s].sig = c
          /\ r2.ses[s].state = "contact" /\ r2.ses[s].promise = "threw"
      BY <2>6, <3>2, <3>3 DEF Rest, Kept
    <3> QED
      BY <1>6, <2>6, <2>8, <3>1, <3>4 DEF Starts
  <2> QED
    BY <2>7, <2>8
<1> QED
  BY <1>5, <1>6

\* A session that was just created starts on the manager's connection.
LEMMA StartsSane ==
  ASSUME NEW F, NEW w, Good(w, F), Sane(w), NEW s \in Sessions, w.current = s,
         w.ses[s].state = "created", w.waiting = 0, w.agent,
         w.pc # 0, Persistent(w) \/ w.pc \notin w.closed,
         NEW p, p # 0, w.pc \notin w.closed => p = w.pc, NEW v, Starts(w, s, p, v)
  PROVE  Sane(v)
<1> DEFINE c == w.channel
<1>1. v.ses[s].state \in {"setup", "talking", "contact"}
  BY DEF Starts
<1>2. /\ w.chan[s].state = "none" /\ c # s
      /\ \A d \in Sessions : w.chan[d].bound # s
  BY DEF Sane, Sound, Fresh
<1>3. c # 0 => c \in Sessions
  BY GoodParts, Numbers
<1>4. Held(v) /\ Settled(v)
  BY <1>1 DEF Sane, Sound, Held, Settled, Starts, Rest, Active
<1>5. Fresh(v)
  BY <1>2, <1>3 DEF Sane, Sound, Fresh, Starts, Rest
<1>6. Mutual(v)
  BY <1>2, <1>3 DEF Sane, Sound, Mutual, Over, Starts, Rest
<1>7. Reports(v)
  BY <1>1, <1>2, <1>3 DEF Sane, Sound, Reports, Starts, Rest
<1>8. Asleep(v)
  BY DEF Asleep, Starts, Rest, Kept
<1>9. Waits(v)
  <2>1. w.pending # 0 => w.pending \in Sessions
    BY GoodParts, Numbers
  <2> QED
    BY <1>1, <2>1 DEF Sane, Sound, Waits, Starts, Rest, Kept
<1>10. ASSUME v.raced = {} PROVE Orderly(v)
  <2>1. Orderly(w)
    BY <1>10 DEF Sane, Starts, Rest, Kept
  <2>2. \A t \in Sessions \ {s} : v.ses[t].state \notin Active
    BY <2>1 DEF Orderly, Only, Starts
  <2>3. Only(v)
    BY <2>2 DEF Only, Starts, Rest
  <2>4. Tokens(v) /\ NoRenewal(v)
    BY <2>1, Numbers DEF Orderly, Tokens, NoRenewal, Starts, Rest, Kept, Persistent
  <2>5. Together(v) /\ InVain(v)
    BY <2>1 DEF Orderly, Together, InVain, Starts, Rest, Kept
  <2>6. CASE v.ses[s].state = "setup"
    <3>1. v.chan = w.chan /\ (~Persistent(w) \/ c = 0)
      BY <2>6 DEF Starts
    <3>2. v.ses[s].pc = w.pc
      BY <2>1, <3>1 DEF Orderly, Together, Starts
    <3>3. OnTheManagers(v)
      BY <2>2, <2>6, <3>2 DEF OnTheManagers, Starts, Rest
    <3>4. Negotiated(v) /\ TalksOpen(v)
      BY <2>2, <2>6 DEF Negotiated, TalksOpen, Active
    <3>5. IdleIsKept(v)
      BY <2>1, <3>1 DEF Orderly, IdleIsKept, Starts, Rest, Kept, Persistent
    <3>6. PendingIsHeld(v)
      BY <2>1, <3>1 DEF Orderly, PendingIsHeld, Starts, Rest
    <3> QED
      BY <2>3, <2>4, <2>5, <3>3, <3>4, <3>5, <3>6 DEF Orderly
  <2>7. CASE v.ses[s].state = "talking"
    <3>1. /\ Persistent(w) /\ c # 0 /\ w.chan[c].state = "Idle"
          /\ v.ses[s].sig = c /\ v.chan[c].bound = s /\ v.chan[c].pc = w.chan[c].pc
          /\ v.chan[c].state = "Talking"
      BY <2>7 DEF Starts
    <3>2. v.ses[s].pc = w.pc /\ w.chan[c].pc = w.pc /\ w.pc \notin w.closed
      BY <2>1, <3>1 DEF Orderly, IdleIsKept, Starts
    <3>3. v.pc = w.pc /\ v.channel = c /\ v.closed = w.closed
      BY DEF Starts, Rest
    <3>4. OnTheManagers(v)
      BY <2>2, <3>1, <3>2, <3>3 DEF OnTheManagers
    <3>5. Negotiated(v)
      BY <2>2, <3>1, <3>2 DEF Negotiated, Active
    <3>6. TalksOpen(v)
      BY <2>2, <3>2, <3>3 DEF TalksOpen, Active
    <3>7. IdleIsKept(v) /\ PendingIsHeld(v)
      BY <3>1, <3>3 DEF IdleIsKept, PendingIsHeld
    <3> QED
      BY <2>3, <2>4, <2>5, <3>4, <3>5, <3>6, <3>7 DEF Orderly
  <2>8. CASE v.ses[s].state = "contact"
    <3>1. /\ c # 0 /\ w.chan[c].state # "Idle" /\ v.chan[c].state = w.chan[c].state
          /\ v.channel = c
      BY <2>8 DEF Starts, Rest
    <3>2. OnTheManagers(v) /\ Negotiated(v) /\ TalksOpen(v)
      BY <2>2, <2>8 DEF OnTheManagers, Negotiated, TalksOpen, Active
    <3>3. IdleIsKept(v)
      BY <3>1 DEF IdleIsKept
    <3>4. PendingIsHeld(v)
      BY <2>1, <3>1 DEF Orderly, PendingIsHeld
    <3> QED
      BY <2>3, <2>4, <2>5, <3>2, <3>3, <3>4 DEF Orderly
  <2> QED
    BY <1>1, <2>6, <2>7, <2>8
<1> QED
  BY <1>4, <1>5, <1>6, <1>7, <1>8, <1>9, <1>10 DEF Sane, Sound

\* All but the promises.
ButPromises(w, v) ==
  /\ v.ses = w.ses /\ v.chan = w.chan /\ v.pc = w.pc /\ v.channel = w.channel
  /\ v.closed = w.closed /\ v.current = w.current /\ v.token = w.token
  /\ v.enabled = w.enabled /\ v.allowed = w.allowed /\ v.agent = w.agent
  /\ v.standby = w.standby /\ v.requests = w.requests /\ v.raced = w.raced

\* The promise fields may change as long as those who wait wait in vain.
LEMMA PromisesSane ==
  ASSUME NEW w, Sane(w), NEW v, ButPromises(w, v), Waits(v),
         ~w.agent => v.pending = 0 /\ v.waiting = 0,
         w.raced = {} => InVain(v)
  PROVE  Sane(v)
<1>1. Held(v) /\ Fresh(v) /\ Settled(v)
  BY DEF ButPromises, Sane, Sound, Held, Fresh, Settled
<1>2. Mutual(v) /\ Reports(v) /\ Asleep(v)
  BY DEF ButPromises, Sane, Sound, Mutual, Reports, Asleep, Over
<1>3. ASSUME v.raced = {} PROVE Orderly(v)
  <2>1. Orderly(w) /\ InVain(v)
    BY <1>3 DEF ButPromises, Sane
  <2>2. Only(v) /\ Tokens(v) /\ NoRenewal(v) /\ OnTheManagers(v) /\ Negotiated(v)
    BY <2>1 DEF ButPromises, Orderly, Only, Tokens, NoRenewal, OnTheManagers, Negotiated,
                Persistent
  <2>3. TalksOpen(v) /\ IdleIsKept(v) /\ PendingIsHeld(v) /\ Together(v)
    BY <2>1 DEF ButPromises, Orderly, TalksOpen, IdleIsKept, PendingIsHeld, Together,
                Persistent
  <2> QED
    BY <2>1, <2>2, <2>3 DEF Orderly
<1> QED
  BY <1>1, <1>2, <1>3 DEF Sane, Sound

\* Nothing that matters here changes.
LEMMA SameSane ==
  ASSUME NEW w, Sane(w), NEW v, ButPromises(w, v), v.pending = w.pending,
         v.waiting = w.waiting, v.suspended = w.suspended
  PROVE  Sane(v)
<1>1. Waits(v) /\ (~w.agent => v.pending = 0 /\ v.waiting = 0)
  BY DEF Sane, Sound, Waits, Asleep, ButPromises
<1>2. w.raced = {} => InVain(v)
  BY DEF Sane, Orderly, InVain, Over, ButPromises
<1> QED
  BY <1>1, <1>2, PromisesSane

\* A promise that nobody waits for may be dropped.
LEMMA DropPendingSane ==
  ASSUME NEW F, NEW w, Good(w, F), Sane(w)
  PROVE  Sane([w EXCEPT !.waiting = 0, !.pending = 0])
<1> DEFINE v == [w EXCEPT !.waiting = 0, !.pending = 0]
<1>1. ButPromises(w, v) /\ v.suspended = w.suspended /\ v.pending = 0 /\ v.waiting = 0
  BY DEF ButPromises, Good, Manager
<1> HIDE DEF v
<1>2. Waits(v) /\ InVain(v)
  BY <1>1 DEF Waits, InVain, ButPromises, Sane, Sound
<1>3. Sane(v)
  BY <1>1, <1>2, PromisesSane
<1> QED
  BY <1>3 DEF v

\* What connect() relies on: the session is as it was created.
Ready(w) ==
  /\ w.waiting = 0
  /\ w.current # 0 => w.ses[w.current].state = "created"

\* connect() from getPeerConnection on.
LEMMA BeginSane ==
  ASSUME NEW F, NEW w, Good(w, F), F # {}, Sane(w), Ready(w), w.agent,
         NEW v, v = Begin(w)
  PROVE  /\ Sane(v) /\ v.waiting = 0 /\ v.agent = w.agent /\ v.current = w.current
         /\ v.current # 0 => v.ses[v.current].state \in {"setup", "talking", "contact"}
<1>1. CASE w.current = 0
  BY <1>1 DEF Begin, Ready
<1>2. CASE w.current # 0
  <2> DEFINE s == w.current
             g == GetPc(w)
             p == IF g.pc \in g.closed THEN NewPc(g) ELSE g.pc
  <2>1. s \in Sessions /\ v = ConnectSession(g, s)
    BY <1>2, GoodParts, Numbers DEF Begin
  <2>2. /\ Asks(w, g) /\ g.pc # 0 /\ (Persistent(w) \/ g.pc \notin w.closed)
    BY GetPcEffect
  <2>3. Sane(g)
    BY <1>2, GetPcSane DEF Ready
  <2>4. Good(g, {})
    <3>1. g = w \/ Good(g, F \ {NewPc(w)})
      BY GetPcGood
    <3>2. {} \in SUBSET F /\ {} \in SUBSET (F \ {NewPc(w)})
      OBVIOUS
    <3> HIDE DEF g
    <3> QED
      BY <3>1, <3>2, GoodLess
  <2>5. g.pc \in g.closed => g = w
    BY GetPcGood
  <2>6. NewPc(w) \in Pcs
    BY NewPcIsNew
  <2> HIDE DEF g
  <2>7. p \in 0..MaxPcs \ {} /\ p # 0 /\ (g.pc \notin g.closed => p = g.pc)
    BY <2>2, <2>4, <2>5, <2>6, GoodParts, Numbers
  <2>8. Starts(g, s, p, v)
    BY <2>1, <2>4, <2>7, ConnectSessionEffect
  <2> HIDE DEF p
  <2>9. /\ g.current = s /\ g.ses[s].state = "created" /\ g.waiting = 0 /\ g.agent
        /\ g.closed = w.closed /\ (Persistent(g) \/ g.pc \notin g.closed)
    BY <1>2, <2>2 DEF Asks, Ready, Persistent
  <2>10. Sane(v)
    BY <2>1, <2>2, <2>3, <2>4, <2>7, <2>8, <2>9, StartsSane
  <2>11. v.waiting = 0 /\ v.agent = w.agent /\ v.current = w.current
    BY <2>2, <2>8, <2>9 DEF Starts, Rest, Kept, Asks
  <2>12. v.ses[s].state \in {"setup", "talking", "contact"}
    BY <2>8 DEF Starts
  <2> QED
    BY <2>10, <2>11, <2>12
<1> QED
  BY <1>1, <1>2

\* connect() after the promise.
LEMMA ProceedSane ==
  ASSUME NEW F, NEW w, Good(w, F), F # {}, Sane(w), Ready(w), NEW v, v = Proceed(w)
  PROVE  /\ Sane(v) /\ v.waiting = 0 /\ v.agent = w.agent /\ v.current = w.current
         /\ w.agent /\ v.current # 0
              => v.ses[v.current].state \in {"setup", "talking", "contact"}
<1> DEFINE x == [w EXCEPT !.inactive = FALSE]
           y == [x EXCEPT !.suspended = w.current]
<1>1. /\ x \in Manager /\ ButPromises(w, x) /\ x.pending = w.pending
      /\ x.waiting = w.waiting /\ x.suspended = w.suspended
  BY DEF ButPromises, Good, Manager
<1>2. ButPromises(x, y) /\ y.pending = x.pending /\ y.waiting = x.waiting
      /\ y.suspended = w.current
  BY <1>1 DEF ButPromises, Manager
<1>3. v = IF w.current = 0 THEN x ELSE IF w.agent THEN Begin(x) ELSE y
  BY DEF Proceed
<1> HIDE DEF x, y
<1>4. Sane(x)
  BY <1>1, SameSane
<1>5. Good(x, F)
  BY <1>1, GoodRest DEF ButPromises
<1>6. Ready(x) /\ x.agent = w.agent /\ x.current = w.current
  BY <1>1 DEF Ready, ButPromises
<1>7. CASE w.current = 0
  BY <1>1, <1>3, <1>4, <1>6, <1>7 DEF Ready
<1>8. CASE w.current # 0 /\ w.agent
  <2>1. v = Begin(x)
    BY <1>3, <1>8
  <2>2. x.agent
    BY <1>6, <1>8
  <2>3. /\ Sane(v) /\ v.waiting = 0 /\ v.agent = x.agent /\ v.current = x.current
        /\ v.current # 0 => v.ses[v.current].state \in {"setup", "talking", "contact"}
    BY <1>4, <1>5, <1>6, <2>1, <2>2, BeginSane
  <2> QED
    BY <1>6, <2>3
<1>9. CASE w.current # 0 /\ ~w.agent
  <2>1. v = y
    BY <1>3, <1>9
  <2>2. Waits(y)
    BY <1>2, <1>4, <1>6, <1>9 DEF Sane, Sound, Waits, ButPromises
  <2>3. ~x.agent => y.pending = 0 /\ y.waiting = 0
    BY <1>2, <1>4 DEF Sane, Sound, Asleep
  <2>4. InVain(y)
    BY <1>2, <1>6 DEF Ready, InVain
  <2>5. Sane(y)
    BY <1>2, <1>4, <2>2, <2>3, <2>4, PromisesSane
  <2> QED
    BY <1>2, <1>6, <1>9, <2>1, <2>5 DEF Ready, ButPromises
<1> QED
  BY <1>7, <1>8, <1>9

\* connect() whose promise was rejected.
LEMMA GiveUpSane ==
  ASSUME NEW F, NEW w, Good(w, F), Sane(w), NEW how,
         NEW v, v = GiveUp(w, how)
  PROVE  Sane(v) /\ v.waiting = w.waiting /\ v.agent = w.agent
<1>1. CASE w.current = 0 \/ how = "rejected"
  BY <1>1 DEF GiveUp
<1>2. CASE ~(w.current = 0 \/ how = "rejected")
  <2> DEFINE s == w.current
             y == Forget(w)
             u == [y EXCEPT !.ses[s].state = "failed"]
  <2>1. s \in Sessions /\ v = u
    BY <1>2, GoodParts, Numbers DEF GiveUp
  <2>2. TornDown(w, y) /\ Kept(w, y) /\ y.ses = w.ses /\ y.current = 0 /\ y.token = 0
        /\ Good(y, F)
    BY ForgetEffect, ForgetGood
  <2> HIDE DEF y
  <2>3. /\ Rest(y, u) /\ u.chan = y.chan /\ u.ses[s].state = "failed"
        /\ \A t \in Sessions \ {s} : u.ses[t] = y.ses[t]
    BY <2>1, <2>2 DEF Rest, Kept, Good, Manager, SessionRecord
  <2>4. u.closed \subseteq Pcs
    BY <2>2, <2>3, GoodParts DEF Rest
  <2> HIDE DEF u
  <2>5. Ends(w, s, u)
    BY <2>2, <2>3 DEF Ends, TornDown, Rest, Kept, Silenced, Over, Ended
  <2>6. Sane(u)
    BY <2>1, <2>4, <2>5, SaneEnding, EndsSane
  <2> QED
    BY <2>1, <2>5, <2>6 DEF Ends, Kept
<1> QED
  BY <1>1, <1>2

\* connect() of the session that was just created.
LEMMA ConnectSane ==
  ASSUME NEW F, NEW w, Good(w, F), F # {}, Sane(w), Ready(w), NEW v, v = Connect(w),
         w.current # 0
  PROVE  /\ Sane(v) /\ WaitsRight(v) /\ v.agent = w.agent
         /\ w.pending = 0 => v.current = w.current
         /\ w.pending = 0 /\ w.agent
              => v.ses[v.current].state \in {"setup", "talking", "contact"}
<1> DEFINE x   == [w EXCEPT !.waiting = 0, !.pending = 0]
           y   == [w EXCEPT !.waiting = w.pending]
           s   == w.current
           how == w.ses[w.pending].promise
<1>1. CASE w.pending = 0
  <2>1. v = Proceed(w)
    BY <1>1 DEF Connect
  <2> QED
    BY <1>1, <2>1, ProceedSane DEF WaitsRight
<1>2. CASE w.pending # 0
  <2>1. w.pending \in Sessions /\ s \in Sessions
    BY <1>2, GoodParts, Numbers
  <2>2. v = IF how = "pending" THEN y
            ELSE IF how = "resolved" THEN Proceed(x) ELSE GiveUp(x, how)
    BY <1>2 DEF Connect, GoOn
  <2>3. /\ Good(x, F) /\ Sane(x)
    BY GoodPromises, DropPendingSane, Numbers DEF Ready
  <2>4. x.waiting = 0 /\ x.current = w.current /\ x.ses = w.ses /\ x.agent = w.agent
    BY DEF Ready, Good, Manager
  <2>5. ButPromises(w, y) /\ y.pending = w.pending /\ y.waiting = w.pending
        /\ y.suspended = w.suspended
    BY DEF ButPromises, Good, Manager
  <2> HIDE DEF x, y
  <2>6. CASE how = "pending"
    <3>1. v = y
      BY <2>2, <2>6
    <3>2. Waits(y)
      BY <2>5 DEF Sane, Sound, Waits, Ready, ButPromises
    <3>3. ~w.agent => y.pending = 0 /\ y.waiting = 0
      BY <2>5 DEF Sane, Sound, Asleep
    <3>4. ASSUME w.raced = {} PROVE InVain(y)
      <4>1. w.pending # s /\ w.ses[w.pending].state \notin {"none", "created"}
        BY <1>2 DEF Sane, Sound, Waits, Ready
      <4>2. w.ses[w.pending].state \notin Active
        BY <2>1, <3>4, <4>1 DEF Sane, Orderly, Only
      <4>3. w.ses[w.pending].state \in SessionStates
        BY <2>1, GoodParts
      <4>4. Over(w, w.pending)
        BY <4>1, <4>2, <4>3 DEF SessionStates, Active, Over, Ended
      <4> QED
        BY <2>5, <2>6, <4>4 DEF InVain, ButPromises, Over
    <3>5. Sane(y)
      BY <2>5, <3>2, <3>3, <3>4, PromisesSane
    <3> QED
      BY <1>2, <2>5, <2>6, <3>1, <3>5 DEF WaitsRight, ButPromises
  <2>7. CASE how = "resolved"
    <3>1. v = Proceed(x)
      BY <2>2, <2>7
    <3>2. Ready(x)
      BY <2>4 DEF Ready
    <3> QED
      BY <1>2, <2>3, <2>4, <3>1, <3>2, ProceedSane DEF WaitsRight
  <2>8. CASE how \notin {"pending", "resolved"}
    <3>1. v = GiveUp(x, how)
      BY <2>2, <2>8
    <3> HIDE DEF how
    <3>2. Sane(v) /\ v.waiting = x.waiting /\ v.agent = x.agent
      BY <2>3, <3>1, GiveUpSane
    <3> QED
      BY <1>2, <2>4, <3>2 DEF WaitsRight
  <2> QED
    BY <2>6, <2>7, <2>8
<1> QED
  BY <1>1, <1>2

\* A connect() that goes on does so with the session as it was created.
LEMMA ResumeSane ==
  ASSUME NEW F, NEW w, Good(w, F), F # {} \/ WaitsRight(w), Sane(w)
  PROVE  Sane(Resume(w)) /\ WaitsRight(Resume(w))
<1> DEFINE x   == [w EXCEPT !.waiting = 0, !.pending = 0]
           how == w.ses[w.waiting].promise
<1>1. CASE WaitsRight(w)
  BY <1>1 DEF Resume, WaitsRight
<1>2. CASE ~WaitsRight(w)
  <2>1. Resume(w) = IF how = "resolved" THEN Proceed(x) ELSE GiveUp(x, how)
    BY <1>2 DEF Resume, GoOn, WaitsRight
  <2>2. Good(x, F) /\ Sane(x)
    BY GoodPromises, DropPendingSane, Numbers
  <2>3. x.waiting = 0 /\ x.current = w.current /\ x.ses = w.ses
    BY DEF Good, Manager
  <2> HIDE DEF x
  <2>4. Ready(x)
    BY <1>2, <2>3 DEF Sane, Sound, Waits, Ready, WaitsRight
  <2> QED
    BY <1>2, <2>1, <2>2, <2>3, <2>4, ProceedSane, GiveUpSane DEF WaitsRight
<1> QED
  BY <1>1, <1>2

\* The continuation of an activation.
LEMMA ActivateSane ==
  ASSUME NEW F, NEW w, Good(w, F), F # {}, Sane(w), w.agent, w.waiting = 0,
         NEW s \in Sessions, w.ses[s].state = "none"
  PROVE  Sane(Activate(w, s)) /\ WaitsRight(Activate(w, s))
<1> DEFINE x == CreateSession(w, s, 0, FALSE)
           v == Connect(x)
           u == [v EXCEPT !.pending = s]
<1>1. /\ Sane(x) /\ x.current = s /\ x.ses[s].state = "created" /\ x.waiting = 0
      /\ x.pending = w.pending /\ x.agent /\ Good(x, F)
  <2>1. 0 \in {0, s}
    OBVIOUS
  <2>2. Good(x, F)
    BY <2>1, CreateSessionGood
  <2>3. /\ Sane(x) /\ x.current = s /\ x.ses[s].state = "created" /\ x.waiting = 0
        /\ x.pending = w.pending /\ x.agent
    <3> DEFINE cleanup == FALSE
    <3>1. cleanup \in BOOLEAN /\ x = CreateSession(w, s, 0, cleanup)
      OBVIOUS
    <3> HIDE DEF x, cleanup
    <3> QED
      BY <2>1, <3>1, CreateSessionSane
  <2> QED
    BY <2>2, <2>3
<1>2. Activate(w, s) = IF w.pending # 0 /\ v.waiting = 0 THEN v ELSE u
  BY DEF Activate
<1> HIDE DEF x
<1>3. x.current # 0 /\ Ready(x)
  BY <1>1, Numbers DEF Ready
<1>4. /\ Sane(v) /\ WaitsRight(v) /\ v.agent = x.agent
      /\ x.pending = 0 => v.current = s
      /\ x.pending = 0 => v.ses[s].state \in {"setup", "talking", "contact"}
  BY <1>1, <1>3, ConnectSane
<1>5. PICK n \in Pcs : Good(v, F \ {n})
  BY <1>1, ConnectGood
<1> HIDE DEF v
<1>6. ButPromises(v, u) /\ u.pending = s /\ u.waiting = v.waiting /\ u.suspended = v.suspended
  BY <1>5, Numbers DEF ButPromises, Good, Manager
<1> HIDE DEF u
<1>7. CASE w.pending = 0 \/ v.waiting # 0
  <2>1. Waits(u)
    BY <1>1, <1>4, <1>6, <1>7 DEF Sane, Sound, Waits, ButPromises
  <2>2. v.raced = {} => InVain(u)
    BY <1>4, <1>6 DEF Sane, Orderly, InVain, ButPromises, Over
  <2>3. Sane(u)
    BY <1>1, <1>4, <1>6, <2>1, <2>2, PromisesSane
  <2>4. WaitsRight(u)
    BY <1>4, <1>6 DEF WaitsRight, ButPromises
  <2> QED
    BY <1>2, <1>7, <2>3, <2>4
<1>8. CASE w.pending # 0 /\ v.waiting = 0
  BY <1>2, <1>4, <1>8
<1> QED
  BY <1>7, <1>8

\* A persistent connection is created.
LEMMA PersistentPcSane ==
  ASSUME NEW F, NEW w, Good(w, F), F # {}, Sane(w), NEW why \in w.requests,
         NEW v, v = PersistentPc(w, why)
  PROVE  /\ Sane(v) /\ v.waiting = w.waiting /\ v.ses = w.ses /\ v.agent = w.agent
         /\ v.raced = {} /\ why = "activate" => v.current = 0
<1> DEFINE n == NewPc(w)
           q == IF why = "activate" /\ (w.pc # 0 \/ w.current # 0)
                  THEN w.raced \union {"activation"} ELSE w.raced
           r == w.requests \ {why}
<1>1. n \in Pcs \ w.closed /\ n # 0
  BY NewPcIsNew, Numbers
<1>2. v = [w EXCEPT !.requests = r, !.pc = n, !.raced = q]
  BY DEF PersistentPc, Good, Manager
<1>3. w.raced \subseteq q /\ (q = {} /\ why = "activate" => w.pc = 0 /\ w.current = 0)
  OBVIOUS
<1>4. r \subseteq w.requests
  OBVIOUS
<1>5. w.requests \subseteq {"refresh", "activate"}
  BY DEF Good, Manager
<1> HIDE DEF n, q, r
<1>6. /\ v.ses = w.ses /\ v.chan = w.chan /\ v.channel = w.channel /\ v.closed = w.closed
      /\ v.current = w.current /\ v.token = w.token
      /\ v.enabled = w.enabled /\ v.allowed = w.allowed /\ v.agent = w.agent
      /\ v.standby = w.standby /\ v.pending = w.pending /\ v.waiting = w.waiting
      /\ v.suspended = w.suspended /\ v.requests = r /\ v.pc = n /\ v.raced = q
  BY <1>2 DEF Good, Manager
<1>7. Held(v) /\ Fresh(v) /\ Settled(v) /\ Waits(v)
  BY <1>6 DEF Sane, Sound, Held, Fresh, Settled, Waits
<1>8. Mutual(v) /\ Reports(v) /\ Asleep(v)
  BY <1>4, <1>6 DEF Sane, Sound, Mutual, Reports, Asleep, Over
<1>9. ASSUME v.raced = {} PROVE Orderly(v)
  <2>1. Orderly(w)
    BY <1>3, <1>6, <1>9 DEF Sane
  <2>2. w.pc = 0 /\ v.channel = 0
    BY <1>3, <1>5, <1>6, <1>9, <2>1 DEF Orderly, NoRenewal, Together
  <2>3. Only(v) /\ Tokens(v) /\ Negotiated(v) /\ TalksOpen(v) /\ InVain(v)
    BY <1>6, <2>1 DEF Orderly, Only, Tokens, Negotiated, TalksOpen, InVain, Over
  <2>4. NoRenewal(v)
    BY <1>4, <1>6, <2>1 DEF Orderly, NoRenewal, Persistent
  <2>5. OnTheManagers(v)
    BY <1>6, <2>1, <2>2 DEF Orderly, OnTheManagers
  <2>6. IdleIsKept(v) /\ PendingIsHeld(v) /\ Together(v)
    BY <1>1, <1>6, <2>2 DEF IdleIsKept, PendingIsHeld, Together
  <2> QED
    BY <2>3, <2>4, <2>5, <2>6 DEF Orderly
<1> QED
  BY <1>3, <1>6, <1>7, <1>8, <1>9 DEF Sane, Sound

\* What follows a failure, when no session is at work.
LEMMA ForgetSane ==
  ASSUME NEW F, NEW w, Good(w, F), Sane(w), w.raced = {} => w.current = 0
  PROVE  Sane(Forget(w)) /\ Forget(w).waiting = w.waiting /\ Forget(w).ses = w.ses
<1> DEFINE v == Forget(w)
<1>1. TornDown(w, v) /\ Kept(w, v) /\ v.ses = w.ses /\ v.current = 0 /\ v.token = 0
  BY ForgetEffect
<1>2. Good(v, F)
  BY ForgetGood
<1> HIDE DEF v
<1>3. Silenced(w, v) /\ v.channel \in {0, w.channel} /\ v.current \in {0, w.current}
  BY <1>1 DEF TornDown, Silenced
<1>4. Sound(v)
  BY <1>1, <1>3, SilencedSound DEF Sane
<1>5. ASSUME v.raced = {} PROVE Orderly(v)
  <2>1. Orderly(w) /\ w.current = 0
    BY <1>1, <1>5 DEF Sane, Kept
  <2>2. \A s \in Sessions : v.ses[s].state \notin Active
    BY <1>1, <2>1, Numbers DEF Orderly, Only
  <2>3. Only(v) /\ OnTheManagers(v) /\ Negotiated(v) /\ TalksOpen(v)
    BY <2>2 DEF Only, OnTheManagers, Negotiated, TalksOpen, Active
  <2>4. Tokens(v) /\ NoRenewal(v) /\ InVain(v)
    BY <1>1, <2>1 DEF Orderly, Tokens, NoRenewal, InVain, Kept, Persistent, Over
  <2>5. v.channel = 0 /\ v.pc = 0
    BY <1>1, <2>1 DEF TornDown, Orderly, Together
  <2>6. 0 \notin v.closed
    BY <1>2, GoodParts, Numbers
  <2>7. IdleIsKept(v) /\ PendingIsHeld(v) /\ Together(v)
    BY <2>5, <2>6 DEF IdleIsKept, PendingIsHeld, Together
  <2> QED
    BY <2>3, <2>4, <2>7 DEF Orderly
<1>6. Sane(v) /\ v.waiting = w.waiting /\ v.ses = w.ses
  BY <1>1, <1>4, <1>5 DEF Sane, Kept
<1> QED
  BY <1>6 DEF v

-----------------------------------------------------------------------------
(* Modes and requests.                                                     *)

\* Only the mode, the requests and the standby connection change.
Switches(w, v) ==
  /\ v.ses = w.ses /\ v.chan = w.chan /\ v.pc = w.pc /\ v.channel = w.channel
  /\ v.closed = w.closed /\ v.current = w.current /\ v.token = w.token
  /\ v.agent = w.agent /\ v.pending = w.pending /\ v.waiting = w.waiting
  /\ v.suspended = w.suspended /\ w.raced \subseteq v.raced

\* A mode may change as long as no persistent connection loses its channel.
LEMMA SwitchesSane ==
  ASSUME NEW w, Sane(w), NEW v, Switches(w, v),
         ~w.agent => ~v.allowed /\ v.requests = {},
         v.raced = {} /\ Orderly(w) => NoRenewal(v),
         v.raced = {} /\ Orderly(w) /\ w.channel # 0 /\ w.chan[w.channel].state = "Idle"
           => Persistent(v)
  PROVE  Sane(v)
<1>1. Held(v) /\ Fresh(v) /\ Settled(v) /\ Waits(v)
  BY DEF Switches, Sane, Sound, Held, Fresh, Settled, Waits
<1>2. Mutual(v) /\ Reports(v) /\ Asleep(v)
  BY DEF Switches, Sane, Sound, Mutual, Reports, Asleep, Over
<1>3. ASSUME v.raced = {} PROVE Orderly(v)
  <2>1. Orderly(w)
    BY <1>3 DEF Switches, Sane
  <2>2. Only(v) /\ Tokens(v) /\ OnTheManagers(v) /\ Negotiated(v)
    BY <2>1 DEF Switches, Orderly, Only, Tokens, OnTheManagers, Negotiated
  <2>3. TalksOpen(v) /\ PendingIsHeld(v) /\ Together(v) /\ InVain(v)
    BY <2>1 DEF Switches, Orderly, TalksOpen, PendingIsHeld, Together, InVain, Over
  <2>4. IdleIsKept(v)
    BY <1>3, <2>1 DEF Switches, Orderly, IdleIsKept
  <2> QED
    BY <1>3, <2>1, <2>2, <2>3, <2>4 DEF Orderly
<1> QED
  BY <1>1, <1>2, <1>3 DEF Sane, Sound

\* requestPeerConnection
LEMMA RequestSane ==
  ASSUME NEW F, NEW w, Good(w, F), Sane(w), NEW why \in {"refresh", "activate"},
         why = "refresh" /\ w.raced = {} => ~Persistent(w),
         NEW v, v = Request(w, why)
  PROVE  Sane(v) /\ v.waiting = w.waiting /\ v.ses = w.ses
<1> DEFINE x == [w EXCEPT !.requests = w.requests \union {why}]
           y == [w EXCEPT !.inFlight = TRUE]
<1>1. v = IF ~Persistent(w) THEN y ELSE IF w.token = 0 THEN x ELSE w
  BY DEF Request, Good, Manager
<1>2. /\ Switches(w, x) /\ x.enabled = w.enabled /\ x.allowed = w.allowed
      /\ x.standby = w.standby /\ x.raced = w.raced /\ x.requests = w.requests \union {why}
  BY DEF Switches, Good, Manager
<1>3. /\ ButPromises(w, y) /\ y.pending = w.pending /\ y.waiting = w.waiting
      /\ y.suspended = w.suspended
  BY DEF ButPromises, Good, Manager
<1> HIDE DEF x, y
<1>4. Sane(y)
  BY <1>3, SameSane
<1>5. Persistent(w) => Sane(x)
  <2> SUFFICES ASSUME Persistent(w) PROVE Sane(x)
    OBVIOUS
  <2>1. w.agent
    BY DEF Sane, Sound, Asleep, Persistent
  <2>2. Persistent(x)
    BY <1>2 DEF Persistent
  <2>3. x.raced = {} /\ Orderly(w) => NoRenewal(x)
    BY <1>2 DEF Orderly, NoRenewal
  <2> QED
    BY <1>2, <2>1, <2>2, <2>3, SwitchesSane
<1>6. x.waiting = w.waiting /\ x.ses = w.ses /\ y.waiting = w.waiting /\ y.ses = w.ses
  BY <1>2, <1>3 DEF Switches, ButPromises
<1> QED
  BY <1>1, <1>4, <1>5, <1>6

\* closeEarlyMediaConnection
LEMMA CloseEarlyMediaSane ==
  ASSUME NEW F, NEW w, Good(w, F), Sane(w), NEW v, v = CloseEarlyMedia(w)
  PROVE  Sane(v) /\ v.waiting = w.waiting /\ v.ses = w.ses
<1>1. /\ Switches(w, v) /\ v.enabled = w.enabled /\ v.allowed = w.allowed
      /\ v.standby = FALSE /\ v.raced = w.raced /\ v.requests = w.requests
  BY DEF CloseEarlyMedia, Switches, Good, Manager
<1>2. ~w.agent => ~v.allowed /\ v.requests = {}
  BY <1>1 DEF Sane, Sound, Asleep
<1>3. Orderly(w) => NoRenewal(v)
  BY <1>1 DEF Orderly, NoRenewal
<1>4. Orderly(w) /\ w.channel # 0 /\ w.chan[w.channel].state = "Idle" => Persistent(v)
  BY <1>1 DEF Orderly, IdleIsKept, Persistent
<1> QED
  BY <1>1, <1>2, <1>3, <1>4, SwitchesSane DEF Switches

\* The answer of the manager's channel decides about the mode.
LEMMA AllowlistSane ==
  ASSUME NEW F, NEW w, Good(w, F), Sane(w), NEW c \in Sessions,
         w.chan[c].state = "PendingAnswer", NEW ok \in BOOLEAN,
         NEW v, v = Allowlist(w, c, ok)
  PROVE  Sane(v) /\ Switches(w, v) /\ Good(v, F)
<1> DEFINE y == IF ok /\ ~w.allowed THEN CloseEarlyMedia(w) ELSE w
<1>1. v = Allow(y, c, ok)
  BY DEF Allowlist
<1>2. Good(y, F)
  BY CloseEarlyMediaGood
<1>3. Good(v, F)
  BY <1>1, <1>2, AllowGood
<1>4. /\ Switches(w, y) /\ y.enabled = w.enabled /\ y.allowed = w.allowed
      /\ y.raced = w.raced /\ y.requests = w.requests
      /\ y.standby = IF ok /\ ~w.allowed THEN FALSE ELSE w.standby
  BY DEF CloseEarlyMedia, Switches, Good, Manager
<1> HIDE DEF y
<1>5. /\ Switches(y, v) /\ v.enabled = y.enabled /\ v.allowed = ok
      /\ v.requests = y.requests /\ v.standby = y.standby
      /\ v.raced = {} /\ ok # y.allowed => y.channel = c
  BY <1>1, <1>2 DEF Allow, Switches, Good, Manager
<1>6. Switches(w, v)
  BY <1>4, <1>5 DEF Switches
<1>7. w.agent
  BY DEF Sane, Sound, Asleep
<1>8. Orderly(w) => NoRenewal(v)
  BY <1>4, <1>5 DEF Orderly, NoRenewal, Persistent
<1>9. v.raced = {} /\ Orderly(w) /\ w.channel # 0 /\ w.chan[w.channel].state = "Idle"
        => Persistent(v)
  <2> SUFFICES ASSUME v.raced = {}, Orderly(w), w.channel # 0,
                      w.chan[w.channel].state = "Idle"
               PROVE  Persistent(v)
    OBVIOUS
  <2>1. w.channel # c
    OBVIOUS
  <2>2. y.channel = w.channel
    BY <1>4 DEF Switches
  <2>3. ok = y.allowed
    BY <1>5, <2>1, <2>2
  <2>4. Persistent(w)
    BY DEF Orderly, IdleIsKept
  <2> QED
    BY <1>4, <1>5, <2>3, <2>4 DEF Persistent
<1> QED
  BY <1>3, <1>6, <1>7, <1>8, <1>9, SwitchesSane

-----------------------------------------------------------------------------
(* The end of every action.                                                *)

\* What is over may be forgotten.
LEMMA TidySane ==
  ASSUME NEW F, NEW w, Good(w, F), Sane(w), NEW v, v = Tidy(w)
  PROVE  Sane(v) /\ v.waiting = w.waiting
         /\ (w.waiting # 0 => v.ses[w.waiting].promise = w.ses[w.waiting].promise)
<1> DEFINE kept(s) == [NoSession EXCEPT !.state = "failed", !.ahead = w.ses[s].ahead,
                         !.promise = IF s \in {w.pending, w.waiting}
                                       THEN w.ses[s].promise ELSE @]
           ses  == [s \in Sessions |-> IF Over(w, s) THEN kept(s) ELSE w.ses[s]]
           chan == [c \in Sessions |->
                      IF /\ w.chan[c].state \in Inert /\ w.channel # c
                         /\ w.chan[c].bound = 0 \/ Over(w, w.chan[c].bound)
                        THEN NoChannel ELSE w.chan[c]]
<1>1. v = [w EXCEPT !.ses = ses, !.chan = chan]
  BY DEF Tidy
<1>2. Rest(w, v) /\ v.ses = ses /\ v.chan = chan
  BY <1>1 DEF Rest, Kept, Good, Manager
<1>3. \A s \in Sessions : ~Over(w, s) => v.ses[s] = w.ses[s]
  BY <1>2
<1>4. \A s \in Sessions : Over(w, s) =>
        /\ v.ses[s].state = "failed"
        /\ s = w.waiting => v.ses[s].promise = w.ses[s].promise
  <2> TAKE s \in Sessions
  <2>1. kept(s).state = "failed" /\ (s = w.waiting => kept(s).promise = w.ses[s].promise)
    BY DEF NoSession
  <2>2. Over(w, s) => v.ses[s] = kept(s)
    BY <1>2
  <2> QED
    BY <2>1, <2>2
<1>5. \A c \in Sessions :
        \/ v.chan[c] = w.chan[c]
        \/ /\ v.chan[c].state = "none" /\ v.chan[c].bound = 0 /\ w.channel # c
           /\ w.chan[c].bound = 0 \/ Over(w, w.chan[c].bound)
  BY <1>2, NewRecords
<1> HIDE DEF ses, chan
<1> HIDE <1>1, <1>2
<1>6. Rest(w, v)
  BY <1>2
<1>7. \A s \in Sessions : Over(w, s) <=> Over(v, s)
  BY <1>3, <1>4 DEF Over, Ended
<1>8. Held(v)
  <2>1. w.current # 0 => w.current \in Sessions
    BY GoodParts, Numbers
  <2> QED
    BY <1>3, <1>6, <2>1 DEF Sane, Sound, Held, Rest, Over, Ended, Active
<1>9. Fresh(v)
  BY <1>3, <1>4, <1>5, <1>6, Numbers DEF Sane, Sound, Fresh, Rest, Over, Ended
<1>10. Mutual(v)
  BY <1>3, <1>5, <1>7, Numbers DEF Sane, Sound, Mutual
<1>11. Reports(v)
  BY <1>3, <1>4, <1>5, Numbers DEF Sane, Sound, Reports
<1>12. Settled(v)
  BY <1>3, <1>4 DEF Sane, Sound, Settled
<1>13. Asleep(v)
  BY <1>3, <1>4, <1>5, <1>6 DEF Sane, Sound, Asleep, Rest, Kept, Active
<1>14. /\ w.current # 0 => w.current \in Sessions
       /\ w.waiting # 0 => w.waiting \in Sessions
       /\ w.pending # 0 => w.pending \in Sessions
       /\ w.channel # 0 => w.channel \in Sessions
       /\ \A s \in Sessions : w.ses[s].sig # 0 => w.ses[s].sig \in Sessions
  BY GoodParts, Numbers
<1>15. Waits(v)
  BY <1>3, <1>4, <1>6, <1>14 DEF Sane, Sound, Waits, Rest, Kept, Over, Ended
<1>16. ASSUME v.raced = {} PROVE Orderly(v)
  <2>1. Orderly(w)
    BY <1>6, <1>16 DEF Sane, Rest, Kept
  <2>2. \A s \in Sessions : v.ses[s].state \in Active =>
          /\ v.ses[s] = w.ses[s] /\ ~Over(w, s)
          /\ \A c \in Sessions : w.chan[c].bound = s => v.chan[c] = w.chan[c]
    BY <1>3, <1>4, <1>5, Numbers DEF Active, Over, Ended
  <2>3. w.channel # 0 => v.chan[w.channel] = w.chan[w.channel]
    BY <1>5, <1>14
  <2>4. Only(v)
    BY <1>6, <2>1, <2>2 DEF Orderly, Only, Rest
  <2>5. w.current # 0 => v.ses[w.current] = w.ses[w.current]
    BY <1>3, <1>14 DEF Sane, Sound, Held, Over, Ended, Active
  <2>6. Tokens(v) /\ NoRenewal(v)
    BY <1>6, <2>1, <2>5 DEF Orderly, Tokens, NoRenewal, Rest, Kept, Persistent
  <2>7. OnTheManagers(v)
    BY <1>6, <2>1, <2>2, <2>3 DEF Orderly, OnTheManagers, Rest
  <2>8. Negotiated(v)
    BY <1>14, <2>1, <2>2 DEF Orderly, Negotiated, Active
  <2>9. TalksOpen(v)
    BY <1>6, <2>1, <2>2 DEF Orderly, TalksOpen, Rest, Active
  <2>10. IdleIsKept(v)
    BY <1>6, <2>1, <2>3 DEF Orderly, IdleIsKept, Rest, Kept, Persistent
  <2>11. PendingIsHeld(v)
    BY <1>6, <2>1, <2>3, <2>5 DEF Orderly, PendingIsHeld, Rest
  <2>12. Together(v)
    BY <1>6, <2>1 DEF Orderly, Together, Rest
  <2>13. InVain(v)
    BY <1>4, <1>6, <1>7, <1>14, <2>1 DEF Orderly, InVain, Rest, Kept
  <2> QED
    BY <2>4, <2>6, <2>7, <2>8, <2>9, <2>10, <2>11, <2>12, <2>13 DEF Orderly
<1>17. w.waiting # 0 => v.ses[w.waiting].promise = w.ses[w.waiting].promise
  BY <1>3, <1>4, <1>14
<1> QED
  BY <1>6, <1>8, <1>9, <1>10, <1>11, <1>12, <1>13, <1>15, <1>16, <1>17
     DEF Sane, Sound, Rest, Kept

\* Connections nobody refers to are forgotten.
LEMMA ReferencedSane ==
  ASSUME NEW F, NEW w, Good(w, F), Sane(w),
         NEW v, v = [w EXCEPT !.closed = w.closed \intersect Referenced(w)]
  PROVE  Sane(v) /\ v.waiting = w.waiting /\ v.ses = w.ses
<1>1. /\ v.ses = w.ses /\ v.chan = w.chan /\ v.pc = w.pc /\ v.channel = w.channel
      /\ v.current = w.current /\ v.token = w.token /\ Kept(w, v)
      /\ v.closed = w.closed \intersect Referenced(w)
  BY DEF Kept, Good, Manager
<1>2. Held(v) /\ Fresh(v) /\ Settled(v) /\ Waits(v)
  BY <1>1 DEF Sane, Sound, Held, Fresh, Settled, Waits, Kept
<1>3. Mutual(v) /\ Reports(v) /\ Asleep(v)
  BY <1>1 DEF Sane, Sound, Mutual, Reports, Asleep, Over, Kept
<1>4. ASSUME v.raced = {} PROVE Orderly(v)
  <2>1. Orderly(w)
    BY <1>1, <1>4 DEF Sane, Kept
  <2>2. /\ w.pc \in v.closed <=> w.pc \in w.closed
        /\ \A s \in Sessions : w.ses[s].pc \in v.closed <=> w.ses[s].pc \in w.closed
    BY <1>1 DEF Referenced
  <2>3. Only(v) /\ Tokens(v) /\ NoRenewal(v) /\ Negotiated(v) /\ InVain(v)
    BY <1>1, <2>1 DEF Orderly, Only, Tokens, NoRenewal, Negotiated, InVain, Kept,
                      Persistent, Over
  <2>4. OnTheManagers(v) /\ TalksOpen(v)
    BY <1>1, <2>1, <2>2 DEF Orderly, OnTheManagers, TalksOpen
  <2>5. IdleIsKept(v) /\ PendingIsHeld(v) /\ Together(v)
    BY <1>1, <2>1, <2>2 DEF Orderly, IdleIsKept, PendingIsHeld, Together, Kept, Persistent
  <2> QED
    BY <2>3, <2>4, <2>5 DEF Orderly
<1> QED
  BY <1>1, <1>2, <1>3, <1>4 DEF Sane, Sound, Kept

\* An action whose handler keeps the invariants keeps the inductive one.
LEMMA BecomesInv ==
  ASSUME NEW F, NEW w, Good(w, F), F # {} \/ WaitsRight(w), Sane(w), Becomes(w)
  PROVE  IInv'
<1>1. TypeOK' /\ Bound(m') /\ m'.closed \subseteq Referenced(m')
  BY BecomesTyped
<1>2. PICK n \in Pcs : Good(Resume(w), F \ {n})
  BY ResumeGood
<1>3. Sane(Resume(w)) /\ WaitsRight(Resume(w))
  BY ResumeSane
<1> DEFINE r == Resume(w)
           v == Tidy(r)
<1>4. Good(v, F \ {n})
  BY <1>2, TidyGood
<1>5. m' = [v EXCEPT !.closed = v.closed \intersect Referenced(v)]
  BY DEF Becomes
<1> HIDE DEF r
<1>6. /\ Sane(v) /\ v.waiting = r.waiting
      /\ r.waiting # 0 => v.ses[r.waiting].promise = r.ses[r.waiting].promise
  BY <1>2, <1>3, TidySane DEF r
<1> HIDE DEF v
<1>7. Sane(m') /\ m'.waiting = v.waiting /\ m'.ses = v.ses
  BY <1>4, <1>5, <1>6, ReferencedSane
<1>8. m'.waiting # 0 => m'.ses[m'.waiting].promise = "pending"
  BY <1>3, <1>6, <1>7 DEF WaitsRight, r
<1> QED
  BY <1>1, <1>7, <1>8 DEF IInv

-----------------------------------------------------------------------------
(* The application's steps.                                                *)

\* A contact arrives.
LEMMA NewCallInv ==
  ASSUME IInv, NEW s \in Sessions, NewCall(s)
  PROVE  IInv'
<1>1. PICK p, q \in Pcs : p # q /\ Good(m, {p, q})
  BY RoomForTwo DEF IInv, TypeOK
<1>2. Sane(m) /\ m.ses[s].state = "none" /\ m.waiting = 0
  BY DEF IInv, NewCall, Free
<1>3. PICK cleanup \in BOOLEAN : Becomes(Connect(CreateSession(m, s, s, cleanup)))
  BY DEF NewCall
<1> DEFINE x == CreateSession(m, s, s, cleanup)
           v == Connect(x)
<1>4. Good(x, {p, q})
  BY <1>1, CreateSessionGood
<1>5. x = CreateSession(m, s, s, cleanup)
  OBVIOUS
<1> HIDE DEF x
<1>6. s \in {0, s}
  OBVIOUS
<1>7. Sane(x) /\ x.current = s /\ x.ses[s].state = "created" /\ x.waiting = 0
  BY <1>1, <1>2, <1>5, <1>6, CreateSessionSane
<1>8. Ready(x) /\ x.current # 0
  BY <1>7, Numbers DEF Ready
<1>9. Sane(v) /\ WaitsRight(v)
  BY <1>4, <1>7, <1>8, ConnectSane
<1>10. PICK n \in Pcs : Good(v, {p, q} \ {n})
  BY <1>4, ConnectGood
<1> QED
  BY <1>3, <1>5, <1>9, <1>10, BecomesInv

\* A contact ends.
LEMMA EndCallInv ==
  ASSUME IInv, EndCall
  PROVE  IInv'
<1>1. PICK p, q \in Pcs : p # q /\ Good(m, {p, q})
  BY RoomForTwo DEF IInv, TypeOK
<1>2. PICK sick \in BOOLEAN : Becomes(LetGo(Hangup(m, sick)))
  BY DEF EndCall
<1>3. Good(Hangup(m, sick), {p, q}) /\ Sane(Hangup(m, sick)) /\ Hangup(m, sick).current = 0
  BY <1>1, HangupGood, HangupSane DEF IInv
<1>4. Good(LetGo(Hangup(m, sick)), {p, q}) /\ Sane(LetGo(Hangup(m, sick)))
  BY <1>3, LetGoGood, LetGoSane
<1> QED
  BY <1>2, <1>4, BecomesInv

\* The persistent mode is switched on.
LEMMA ToggleOnInv ==
  ASSUME IInv, NEW s \in Sessions, ToggleOn(s)
  PROVE  IInv'
<1>1. PICK p, q \in Pcs : p # q /\ Good(m, {p, q})
  BY RoomForTwo DEF IInv, TypeOK
<1> DEFINE x  == [m EXCEPT !.enabled = TRUE]
           on == CloseEarlyMedia(x)
<1>2. /\ Sane(m) /\ m.ses[s].state = "none" /\ m.waiting = 0 /\ m.current = 0
      /\ ~m.enabled /\ m.allowed
  BY DEF IInv, ToggleOn, Free
<1>3. \/ Becomes(Request(on, "activate"))
      \/ Becomes(Activate(on, s))
      \/ Becomes(Forget(on))
  BY DEF ToggleOn
<1>4. /\ x \in Manager
      /\ Switches(m, x) /\ x.enabled /\ x.allowed = m.allowed /\ x.raced = m.raced
      /\ x.requests = m.requests
  BY <1>1 DEF Switches, Good, Manager
<1> HIDE DEF x
<1>5. Good(x, {p, q})
  BY <1>1, <1>4, GoodRest DEF Switches
<1>6. Good(on, {p, q})
  BY <1>5, CloseEarlyMediaGood
<1>7. /\ Switches(x, on) /\ on.enabled = x.enabled /\ on.allowed = x.allowed
      /\ on.standby = FALSE /\ on.raced = x.raced /\ on.requests = x.requests
  BY <1>4 DEF CloseEarlyMedia, Switches, Manager
<1> HIDE DEF on
<1>8. Switches(m, on) /\ on.raced = m.raced /\ on.requests = m.requests
  BY <1>4, <1>7 DEF Switches
<1>9. m.agent
  BY <1>2 DEF Sane, Sound, Asleep
<1>10. Orderly(m) => NoRenewal(on)
  BY <1>7, <1>8 DEF Orderly, NoRenewal
<1>11. Orderly(m) /\ m.channel # 0 => m.chan[m.channel].state # "Idle"
  BY <1>2 DEF Orderly, IdleIsKept, Persistent
<1>12. Sane(on)
  BY <1>2, <1>8, <1>9, <1>10, <1>11, SwitchesSane
<1>13. on.waiting = 0 /\ on.ses = m.ses
  BY <1>2, <1>8 DEF Switches
<1>14. on.agent
  BY <1>8, <1>9 DEF Switches
<1>15. CASE Becomes(Request(on, "activate"))
  <2>1. Good(Request(on, "activate"), {p, q})
    BY <1>6, RequestGood
  <2>2. Sane(Request(on, "activate"))
    BY <1>6, <1>12, RequestSane
  <2> QED
    BY <1>15, <2>1, <2>2, BecomesInv
<1>16. CASE Becomes(Activate(on, s))
  <2>1. PICK n \in Pcs : Good(Activate(on, s), {p, q} \ {n})
    BY <1>6, ActivateGood
  <2>2. Sane(Activate(on, s)) /\ WaitsRight(Activate(on, s))
    BY <1>2, <1>6, <1>12, <1>13, <1>14, ActivateSane
  <2> QED
    BY <1>16, <2>1, <2>2, BecomesInv
<1>17. CASE Becomes(Forget(on))
  <2>1. Good(Forget(on), {p, q})
    BY <1>6, ForgetGood
  <2>2. on.current = 0
    BY <1>2, <1>8 DEF Switches
  <2>3. Sane(Forget(on))
    BY <1>6, <1>12, <2>2, ForgetSane
  <2> QED
    BY <1>17, <2>1, <2>3, BecomesInv
<1> QED
  BY <1>3, <1>15, <1>16, <1>17

\* The persistent mode is switched off.
LEMMA ToggleOffInv ==
  ASSUME IInv, ToggleOff
  PROVE  IInv'
<1>1. PICK p, q \in Pcs : p # q /\ Good(m, {p, q})
  BY RoomForTwo DEF IInv, TypeOK
<1> DEFINE x == [m EXCEPT !.enabled = FALSE]
           y == Destroy(x, FALSE)
           v == Request(y, "refresh")
<1>2. Sane(m) /\ m.current = 0 /\ Becomes(v)
  BY DEF IInv, ToggleOff
<1>3. /\ x \in Manager /\ Switches(m, x) /\ x.enabled = FALSE /\ x.allowed = m.allowed
      /\ x.raced = m.raced /\ x.requests = m.requests
  BY <1>1 DEF Switches, Good, Manager
<1> HIDE DEF x
<1>4. Good(x, {p, q})
  BY <1>1, <1>3, GoodRest DEF Switches
<1>5. Held(x) /\ Fresh(x) /\ Settled(x) /\ Waits(x)
  BY <1>2, <1>3 DEF Switches, Sane, Sound, Held, Fresh, Settled, Waits
<1>6. Mutual(x) /\ Reports(x) /\ Asleep(x)
  BY <1>2, <1>3 DEF Switches, Sane, Sound, Mutual, Reports, Asleep, Over
<1>7. ASSUME x.raced = {} PROVE OrderlyButIdle(x)
  <2>1. Orderly(m)
    BY <1>2, <1>3, <1>7 DEF Sane
  <2>2. Only(x) /\ Tokens(x) /\ OnTheManagers(x) /\ Negotiated(x)
    BY <1>3, <2>1 DEF Switches, Orderly, Only, Tokens, OnTheManagers, Negotiated
  <2>3. TalksOpen(x) /\ PendingIsHeld(x) /\ Together(x) /\ InVain(x)
    BY <1>3, <2>1 DEF Switches, Orderly, TalksOpen, PendingIsHeld, Together, InVain, Over
  <2>4. NoRenewal(x)
    BY <1>3, <2>1 DEF Orderly, NoRenewal, Persistent
  <2> QED
    BY <2>2, <2>3, <2>4 DEF OrderlyButIdle
<1>8. ~InUse(x)
  BY <1>2, <1>3 DEF InUse, Switches
<1>9. /\ TornDown(x, y) /\ Kept(x, y) /\ y.ses = x.ses /\ y.current = x.current
      /\ y.token = x.token /\ Good(y, {p, q})
  BY <1>4, <1>8, DestroyEffect, DestroyGood
<1> HIDE DEF y
<1>10. Sane(y)
  BY <1>4, <1>5, <1>6, <1>7, <1>8, <1>9, TornDownSane DEF Sound
<1>11. ~Persistent(y)
  BY <1>3, <1>9 DEF Persistent, Kept
<1>12. Good(v, {p, q}) /\ Sane(v)
  BY <1>9, <1>10, <1>11, RequestGood, RequestSane
<1> QED
  BY <1>2, <1>12, BecomesInv

\* The manager is closed.
LEMMA CloseManagerInv ==
  ASSUME IInv, CloseManager
  PROVE  IInv'
<1>1. PICK p, q \in Pcs : p # q /\ Good(m, {p, q})
  BY RoomForTwo DEF IInv, TypeOK
<1>2. Becomes(Destroy(m, FALSE)) \/ Becomes(CloseEarlyMedia(m))
  BY DEF CloseManager
<1>3. Good(Destroy(m, FALSE), {p, q}) /\ Sane(Destroy(m, FALSE))
  BY <1>1, DestroyGood, DestroySane DEF IInv
<1>4. Good(CloseEarlyMedia(m), {p, q}) /\ Sane(CloseEarlyMedia(m))
  BY <1>1, CloseEarlyMediaGood, CloseEarlyMediaSane DEF IInv
<1> QED
  BY <1>2, <1>3, <1>4, BecomesInv

-----------------------------------------------------------------------------
(* The manager's answers and timers.                                       *)

\* A standby connection arrives, or is refused.
LEMMA IdleReadyInv ==
  ASSUME IInv, IdleReady
  PROVE  IInv'
<1>1. PICK p, q \in Pcs : p # q /\ Good(m, {p, q})
  BY RoomForTwo DEF IInv, TypeOK
<1> DEFINE r == IF Persistent(m) THEN m.raced \union {"standby"} ELSE m.raced
           x == [m EXCEPT !.inFlight = FALSE]
           y == [m EXCEPT !.inFlight = FALSE, !.standby = TRUE, !.raced = r]
<1>2. Becomes(x) \/ Becomes(y)
  <2>1. y = [m EXCEPT !.inFlight = FALSE, !.standby = TRUE,
                      !.raced = IF Persistent(m) THEN @ \union {"standby"} ELSE @]
    BY <1>1 DEF Good, Manager
  <2> QED
    BY <2>1 DEF IdleReady
<1>3. r \in Overlaps /\ m.raced \subseteq r /\ (r = {} => ~Persistent(m))
  BY <1>1 DEF Good, Manager, Overlaps
<1> HIDE DEF r
<1>4. /\ x \in Manager /\ ButPromises(m, x) /\ x.pending = m.pending
      /\ x.waiting = m.waiting /\ x.suspended = m.suspended
  BY <1>1 DEF ButPromises, Good, Manager
<1>5. /\ y \in Manager /\ Switches(m, y) /\ y.enabled = m.enabled /\ y.allowed = m.allowed
      /\ y.requests = m.requests /\ y.raced = r
  BY <1>1, <1>3 DEF Switches, Good, Manager
<1> HIDE DEF x, y
<1>6. Good(x, {p, q}) /\ Sane(x)
  BY <1>1, <1>4, GoodRest, SameSane DEF ButPromises, IInv
<1>7. ~m.agent => ~y.allowed /\ y.requests = {}
  BY <1>5 DEF IInv, Sane, Sound, Asleep
<1>8. y.raced = {} /\ Orderly(m) => NoRenewal(y)
  BY <1>3, <1>5 DEF Orderly, NoRenewal, Persistent
<1>9. Orderly(m) /\ m.channel # 0 /\ m.chan[m.channel].state = "Idle" => Persistent(y)
  BY <1>5 DEF Orderly, IdleIsKept, Persistent
<1>10. Good(y, {p, q}) /\ Sane(y)
  BY <1>1, <1>5, <1>7, <1>8, <1>9, GoodRest, SwitchesSane DEF Switches, IInv
<1> QED
  BY <1>2, <1>6, <1>10, BecomesInv

\* A persistent connection arrives.
LEMMA PersistentReadyInv ==
  ASSUME IInv, PersistentReady
  PROVE  IInv'
<1>1. PICK p, q \in Pcs : p # q /\ Good(m, {p, q})
  BY RoomForTwo DEF IInv, TypeOK
<1>2. PICK why \in m.requests : Becomes(PersistentPc(m, why))
  BY DEF PersistentReady
<1>3. PICK n \in Pcs : Good(PersistentPc(m, why), {p, q} \ {n})
  BY <1>1, PersistentPcGood
<1>4. /\ Sane(PersistentPc(m, why)) /\ PersistentPc(m, why).waiting = m.waiting
      /\ PersistentPc(m, why).ses = m.ses
  BY <1>1, PersistentPcSane DEF IInv
<1>5. WaitsRight(PersistentPc(m, why))
  BY <1>4 DEF WaitsRight, IInv
<1> QED
  BY <1>2, <1>3, <1>4, <1>5, BecomesInv

\* A persistent connection arrives, with a session to set it up.
LEMMA ActivatedInv ==
  ASSUME IInv, NEW s \in Sessions, Activated(s)
  PROVE  IInv'
<1>1. PICK p, q \in Pcs : p # q /\ Good(m, {p, q})
  BY RoomForTwo DEF IInv, TypeOK
<1> DEFINE x == PersistentPc(m, "activate")
<1>2. Becomes(Activate(x, s))
  BY DEF Activated
<1>3. m.ses[s].state = "none" /\ m.waiting = 0 /\ "activate" \in m.requests
  BY DEF Activated, Free
<1>4. m.agent
  BY <1>3 DEF IInv, Sane, Sound, Asleep
<1>5. PICK n \in Pcs : Good(x, {p, q} \ {n})
  BY <1>1, PersistentPcGood
<1>6. /\ Sane(x) /\ x.waiting = m.waiting /\ x.ses = m.ses /\ x.agent = m.agent
  BY <1>1, <1>3, PersistentPcSane DEF IInv
<1> HIDE DEF x
<1> DEFINE G == {p, q} \ {n}
<1>7. G # {} /\ Good(x, G)
  BY <1>1, <1>5
<1>9. x.agent
  BY <1>4, <1>6
<1> HIDE DEF G
<1>8. PICK l \in Pcs : Good(Activate(x, s), G \ {l})
  BY <1>7, ActivateGood
<1>10. Sane(Activate(x, s)) /\ WaitsRight(Activate(x, s))
  BY <1>3, <1>6, <1>7, <1>9, ActivateSane
<1> QED
  BY <1>2, <1>8, <1>10, BecomesInv

\* An activation after a cleanup undoes itself.
LEMMA ActivatedInVainInv ==
  ASSUME IInv, ActivatedInVain
  PROVE  IInv'
<1>1. PICK p, q \in Pcs : p # q /\ Good(m, {p, q})
  BY RoomForTwo DEF IInv, TypeOK
<1> DEFINE x == PersistentPc(m, "activate")
           v == Forget(x)
<1>2. "activate" \in m.requests /\ Becomes(v)
  BY DEF ActivatedInVain
<1>3. PICK n \in Pcs : Good(x, {p, q} \ {n})
  BY <1>1, PersistentPcGood
<1>4. /\ Sane(x) /\ x.waiting = m.waiting /\ x.ses = m.ses
      /\ x.raced = {} => x.current = 0
  BY <1>1, <1>2, PersistentPcSane DEF IInv
<1> HIDE DEF x
<1>5. Good(v, {p, q} \ {n}) /\ Sane(v) /\ v.waiting = m.waiting /\ v.ses = m.ses
  BY <1>3, <1>4, ForgetGood, ForgetSane
<1>6. WaitsRight(v)
  BY <1>5 DEF WaitsRight, IInv
<1> QED
  BY <1>2, <1>5, <1>6, BecomesInv

\* The standby connection is renewed.
LEMMA RefreshTimerInv ==
  ASSUME IInv, RefreshTimer
  PROVE  IInv'
<1>1. PICK p, q \in Pcs : p # q /\ Good(m, {p, q})
  BY RoomForTwo DEF IInv, TypeOK
<1> DEFINE x == CloseEarlyMedia(m)
<1>2. m.standby /\ Becomes(Request(x, "refresh"))
  BY DEF RefreshTimer, CloseEarlyMedia
<1>3. Good(x, {p, q}) /\ Sane(x)
  BY <1>1, CloseEarlyMediaGood, CloseEarlyMediaSane DEF IInv
<1>4. x.raced = m.raced /\ x.enabled = m.enabled /\ x.allowed = m.allowed
  BY <1>1 DEF CloseEarlyMedia, Good, Manager
<1>5. x.raced = {} => ~Persistent(x)
  BY <1>2, <1>4 DEF IInv, Sane, Orderly, NoRenewal, Persistent
<1> HIDE DEF x
<1>6. Good(Request(x, "refresh"), {p, q}) /\ Sane(Request(x, "refresh"))
  BY <1>3, <1>5, RequestGood, RequestSane
<1> QED
  BY <1>2, <1>6, BecomesInv

\* The persistent connection has been idle for too long.
LEMMA InactivityTimerInv ==
  ASSUME IInv, InactivityTimer
  PROVE  IInv'
<1>1. PICK p, q \in Pcs : p # q /\ Good(m, {p, q})
  BY RoomForTwo DEF IInv, TypeOK
<1> DEFINE x == [m EXCEPT !.inactive = FALSE]
<1>2. Becomes(Destroy(x, FALSE))
  BY DEF InactivityTimer
<1>3. /\ x \in Manager /\ ButPromises(m, x) /\ x.pending = m.pending
      /\ x.waiting = m.waiting /\ x.suspended = m.suspended
  BY <1>1 DEF ButPromises, Good, Manager
<1> HIDE DEF x
<1>4. Good(x, {p, q}) /\ Sane(x)
  BY <1>1, <1>3, GoodRest, SameSane DEF ButPromises, IInv
<1>5. Good(Destroy(x, FALSE), {p, q}) /\ Sane(Destroy(x, FALSE))
  BY <1>4, DestroyGood, DestroySane
<1> QED
  BY <1>2, <1>5, BecomesInv

\* The agent's data arrive, and connect() goes on.
LEMMA AgentDataInv ==
  ASSUME IInv, AgentData
  PROVE  IInv'
<1>1. PICK p, q \in Pcs : p # q /\ Good(m, {p, q})
  BY RoomForTwo DEF IInv, TypeOK
<1> DEFINE x == [m EXCEPT !.suspended = 0, !.agent = TRUE]
           v == Begin(x)
<1>2. m.suspended # 0 /\ Becomes(v)
  BY DEF AgentData
<1>3. ~m.agent
  BY <1>2 DEF IInv, Sane, Sound, Waits
<1>4. /\ x \in Manager
      /\ x.ses = m.ses /\ x.chan = m.chan /\ x.pc = m.pc /\ x.channel = m.channel
      /\ x.closed = m.closed /\ x.current = m.current /\ x.token = m.token
      /\ x.enabled = m.enabled /\ x.allowed = m.allowed /\ x.agent = TRUE
      /\ x.standby = m.standby /\ x.requests = m.requests /\ x.raced = m.raced
      /\ x.pending = m.pending /\ x.waiting = m.waiting /\ x.suspended = 0
  BY <1>1, Numbers DEF Good, Manager
<1> HIDE DEF x
<1>5. Good(x, {p, q})
  BY <1>1, <1>4, GoodRest
<1>6. Held(x) /\ Fresh(x) /\ Settled(x) /\ Waits(x) /\ Asleep(x)
  BY <1>4 DEF IInv, Sane, Sound, Held, Fresh, Settled, Waits, Asleep
<1>7. Mutual(x) /\ Reports(x)
  BY <1>4 DEF IInv, Sane, Sound, Mutual, Reports, Over
<1>8. ASSUME x.raced = {} PROVE Orderly(x)
  <2>1. Orderly(m)
    BY <1>4, <1>8 DEF IInv, Sane
  <2>2. Only(x) /\ Tokens(x) /\ NoRenewal(x) /\ OnTheManagers(x) /\ Negotiated(x)
    BY <1>4, <2>1 DEF Orderly, Only, Tokens, NoRenewal, OnTheManagers, Negotiated, Persistent
  <2>3. TalksOpen(x) /\ IdleIsKept(x) /\ PendingIsHeld(x) /\ Together(x) /\ InVain(x)
    BY <1>4, <2>1 DEF Orderly, TalksOpen, IdleIsKept, PendingIsHeld, Together, InVain,
                      Persistent, Over
  <2> QED
    BY <2>2, <2>3 DEF Orderly
<1>9. Sane(x)
  BY <1>6, <1>7, <1>8 DEF Sane, Sound
<1>10. Ready(x)
  <2>1. x.waiting = 0 /\ \A s \in Sessions : x.ses[s].state \notin Active
    BY <1>3, <1>4 DEF IInv, Sane, Sound, Asleep
  <2>2. x.current # 0 => x.current \in Sessions
    BY <1>5, GoodParts, Numbers
  <2> QED
    BY <1>6, <2>1, <2>2 DEF Ready, Held
<1>11. x.agent
  BY <1>4
<1>12. Sane(v) /\ v.waiting = 0
  BY <1>5, <1>9, <1>10, <1>11, BeginSane
<1>13. PICK n \in Pcs : Good(v, {p, q} \ {n})
  BY <1>5, BeginGood
<1> QED
  BY <1>2, <1>12, <1>13, BecomesInv DEF WaitsRight

-----------------------------------------------------------------------------
(* The setup of a session.                                                 *)

\* A session that has its local description gets a channel.
LEMMA LocalDescriptionSetInv ==
  ASSUME IInv, NEW s \in Sessions, LocalDescriptionSet(s)
  PROVE  IInv'
<1>1. PICK p, q \in Pcs : p # q /\ Good(m, {p, q})
  BY RoomForTwo DEF IInv, TypeOK
<1> DEFINE c == IF m.channel = 0 THEN s ELSE m.channel
           x == [m EXCEPT !.ses[s].state = "signaling"]
           y == [x EXCEPT !.ses[s].sig = c]
           z == [y EXCEPT !.channel = c]
           r == [NoChannel EXCEPT !.state = "PendingConnect", !.bound = s]
           u == [z EXCEPT !.chan[c] = r]
           k == [z EXCEPT !.chan[c].bound = s]
           v == IF m.channel = 0 THEN u ELSE k
<1>2. m.ses[s].state = "setup" /\ Open(s) /\ Becomes(v)
  BY DEF LocalDescriptionSet
<1>3. c \in Sessions /\ c \in 0..MaxSessions
  BY <1>1, GoodParts, Numbers
<1>4. m.channel = 0 => c = s
  OBVIOUS
<1>5. m.channel # 0 => c = m.channel
  OBVIOUS
<1> HIDE DEF c
<1>6. Good(x, {p, q})
  BY <1>1, GoodStates DEF SessionStates
<1>7. /\ Rest(m, x) /\ x.chan = m.chan
      /\ \A t \in Sessions \ {s} : x.ses[t] = m.ses[t]
      /\ x.ses[s].state = "signaling" /\ x.ses[s].pc = m.ses[s].pc
      /\ x.ses[s].token = m.ses[s].token /\ x.ses[s].ahead = m.ses[s].ahead
      /\ x.ses[s].promise = m.ses[s].promise
  BY <1>1 DEF Rest, Kept, Good, Manager, SessionRecord
<1> HIDE DEF x
<1>8. Good(y, {p, q})
  BY <1>3, <1>6, GoodFields
<1>9. /\ Rest(x, y) /\ y.chan = x.chan
      /\ \A t \in Sessions \ {s} : y.ses[t] = x.ses[t]
      /\ y.ses[s].state = x.ses[s].state /\ y.ses[s].pc = x.ses[s].pc
      /\ y.ses[s].token = x.ses[s].token /\ y.ses[s].ahead = x.ses[s].ahead
      /\ y.ses[s].promise = x.ses[s].promise /\ y.ses[s].sig = c
  BY <1>3, <1>6 DEF Rest, Kept, Good, Manager, SessionRecord
<1> HIDE DEF y
<1>10. z \in Manager /\ z.ses = y.ses /\ z.chan = y.chan /\ z.pc = y.pc /\ z.channel = c
       /\ z.closed = y.closed /\ z.current = y.current /\ z.token = y.token /\ Kept(y, z)
  BY <1>3, <1>8 DEF Kept, Good, Manager
<1> HIDE DEF z
<1>11. Good(z, {p, q})
  BY <1>8, <1>10, GoodRest
<1>12. /\ r \in ChannelRecord /\ r.state = "PendingConnect" /\ r.bound = s /\ r.pc = 0
  BY Numbers, NewRecords DEF ChannelRecord, ChannelStates
<1> HIDE DEF r
<1>13. Good(u, {p, q})
  <2>1. r.pc \notin {p, q} /\ r.bound # 0
    BY <1>12, Numbers
  <2> QED
    BY <1>3, <1>11, <1>12, <2>1, GoodChannel
<1>14. /\ Rest(z, u) /\ u.ses = z.ses /\ u.chan[c] = r
       /\ \A d \in Sessions \ {c} : u.chan[d] = z.chan[d]
  BY <1>3, <1>10 DEF Rest, Kept, Manager
<1>15. Good(k, {p, q})
  BY <1>3, <1>11, GoodFields
<1>16. /\ Rest(z, k) /\ k.ses = z.ses /\ k.chan[c].bound = s
       /\ k.chan[c].state = z.chan[c].state /\ k.chan[c].pc = z.chan[c].pc
       /\ \A d \in Sessions \ {c} : k.chan[d] = z.chan[d]
  BY <1>3, <1>10 DEF Rest, Kept, Manager, ChannelRecord
<1> HIDE DEF u, k
<1>17. Good(v, {p, q})
  BY <1>13, <1>15
<1>18. /\ v.pc = m.pc /\ v.channel = c /\ v.closed = m.closed
       /\ v.current = m.current /\ v.token = m.token
       /\ \A t \in Sessions \ {s} : v.ses[t] = m.ses[t]
       /\ v.ses[s].state = "signaling" /\ v.ses[s].pc = m.ses[s].pc /\ v.ses[s].sig = c
       /\ v.ses[s].token = m.ses[s].token /\ v.ses[s].ahead = m.ses[s].ahead
       /\ v.ses[s].promise = m.ses[s].promise
  BY <1>7, <1>9, <1>10, <1>14, <1>16 DEF Rest
<1>19. Kept(m, v)
  BY <1>7, <1>9, <1>10, <1>14, <1>16 DEF Rest, Kept
<1>20. /\ \A d \in Sessions \ {c} : v.chan[d] = m.chan[d]
       /\ v.chan[c].bound = s
       /\ m.channel = 0 => v.chan[c].state = "PendingConnect"
       /\ m.channel # 0 => v.chan[c].state = m.chan[c].state /\ v.chan[c].pc = m.chan[c].pc
  BY <1>7, <1>9, <1>10, <1>12, <1>14, <1>16
<1> HIDE DEF v
<1>21. Sound(m)
  BY DEF IInv, Sane
<1>22. /\ m.chan[s].state = "none" /\ m.channel # s
       /\ \A d \in Sessions : m.chan[d].bound # s
  BY <1>2, <1>21 DEF Sound, Fresh
<1>23. Held(v) /\ Settled(v)
  <2>1. m.current # 0 => m.current \in Sessions
    BY <1>1, GoodParts, Numbers
  <2>2. Held(v)
    BY <1>18, <1>21, <2>1 DEF Sound, Held, Active
  <2>3. Settled(v)
    BY <1>18, <1>21 DEF Sound, Settled
  <2> QED
    BY <2>2, <2>3
<1>24. Fresh(v)
  BY <1>4, <1>5, <1>18, <1>20, <1>21 DEF Sound, Fresh
<1>25. Mutual(v)
  BY <1>18, <1>20, <1>21, <1>22 DEF Sound, Mutual, Over
<1>26. Reports(v)
  BY <1>4, <1>5, <1>18, <1>20, <1>21, <1>22 DEF Sound, Reports
<1>27. m.agent
  BY <1>2, <1>21 DEF Sound, Asleep, Active
<1>28. Asleep(v)
  BY <1>19, <1>27 DEF Asleep, Kept
<1>29. Waits(v)
  <2>1. /\ m.waiting # 0 => m.waiting \in Sessions
        /\ m.pending # 0 => m.pending \in Sessions
        /\ m.current # 0 => m.current \in Sessions
    BY <1>1, GoodParts, Numbers
  <2> QED
    BY <1>2, <1>18, <1>19, <1>21, <2>1 DEF Sound, Waits, Kept
<1>30. ASSUME v.raced = {} PROVE Orderly(v)
  <2>1. Orderly(m) /\ m.current = s
    BY <1>2, <1>19, <1>30 DEF IInv, Sane, Orderly, Only, Kept, Active
  <2>2. \A t \in Sessions \ {s} : v.ses[t].state \notin Active
    BY <1>18, <2>1 DEF Orderly, Only
  <2>3. m.ses[s].pc = m.pc /\ m.pc # 0 /\ m.pc \notin m.closed /\ c # 0
    BY <1>2, <1>3, <2>1, Numbers DEF Orderly, OnTheManagers, Open, Active
  <2>4. Only(v) /\ Tokens(v) /\ NoRenewal(v)
    BY <1>18, <1>19, <2>1, <2>2, Numbers DEF Orderly, Only, Tokens, NoRenewal, Kept, Persistent
  <2>5. OnTheManagers(v) /\ Negotiated(v) /\ TalksOpen(v)
    BY <1>18, <1>20, <2>2, <2>3 DEF OnTheManagers, Negotiated, TalksOpen, Active
  <2>6. IdleIsKept(v)
    BY <1>5, <1>18, <1>19, <1>20, <2>1 DEF Orderly, IdleIsKept, Kept, Persistent
  <2>7. PendingIsHeld(v)
    <3>1. CASE m.channel = 0
      BY <1>18, <1>20, <2>1, <2>3, <3>1, Numbers DEF PendingIsHeld
    <3>2. CASE m.channel # 0
      <4>1. v.chan[c].state \notin {"PendingConnect", "PendingInvite", "PendingAnswer"}
        BY <1>2, <1>5, <1>20, <2>1, <3>2 DEF Orderly, PendingIsHeld
      <4> QED
        BY <1>18, <4>1 DEF PendingIsHeld
    <3> QED
      BY <3>1, <3>2
  <2>8. Together(v)
    BY <1>18, <2>3 DEF Together
  <2>9. InVain(v)
    <3>1. m.waiting # 0 => m.waiting \in Sessions \ {s}
      BY <1>1, <1>2, <2>1, GoodParts, Numbers DEF Orderly, InVain, Over, Ended
    <3> QED
      BY <1>18, <1>19, <2>1, <3>1 DEF Orderly, InVain, Kept, Over
  <2> QED
    BY <2>4, <2>5, <2>6, <2>7, <2>8, <2>9 DEF Orderly
<1>31. Sane(v)
  BY <1>23, <1>24, <1>25, <1>26, <1>28, <1>29, <1>30 DEF Sane, Sound
<1> QED
  BY <1>2, <1>17, <1>31, BecomesInv DEF v

\* The setup of a session fails.
LEMMA SetupFailsInv ==
  ASSUME IInv, NEW s \in Sessions, SetupFails(s)
  PROVE  IInv'
<1>1. PICK p, q \in Pcs : p # q /\ Good(m, {p, q})
  BY RoomForTwo DEF IInv, TypeOK
<1>2. m.ses[s].state \in Active /\ Becomes(Fail(m, s))
  BY DEF SetupFails, Active
<1>3. Good(Fail(m, s), {p, q}) /\ Sane(Fail(m, s))
  BY <1>1, <1>2, FailGood, SaneEnding, FailSane DEF IInv
<1> QED
  BY <1>2, <1>3, BecomesInv

\* A session moves on along its channel.
Advances(w, s, v) ==
  /\ Rest(w, v)
  /\ \A t \in Sessions \ {s} : v.ses[t] = w.ses[t]
  /\ v.ses[s].pc = w.ses[s].pc /\ v.ses[s].sig = w.ses[s].sig
  /\ v.ses[s].token = w.ses[s].token /\ v.ses[s].ahead = w.ses[s].ahead
  /\ v.ses[s].promise = w.ses[s].promise

\* A new state is all that a session needs to move on.
LEMMA StateAdvances ==
  ASSUME NEW F, NEW w, Good(w, F), NEW s \in Sessions, NEW st \in SessionStates,
         NEW v, v = [w EXCEPT !.ses[s].state = st]
  PROVE  Good(v, F) /\ Advances(w, s, v) /\ v.chan = w.chan /\ v.ses[s].state = st
<1>1. Good(v, F)
  BY GoodStates
<1>2. Advances(w, s, v) /\ v.chan = w.chan /\ v.ses[s].state = st
  BY DEF Advances, Rest, Kept, Good, Manager, SessionRecord
<1> QED
  BY <1>1, <1>2

\* The session whose channel is about to be answered is invited.
LEMMA SignalingUpInv ==
  ASSUME IInv, NEW c \in Sessions, SignalingUp(c)
  PROVE  IInv'
<1>1. PICK p, q \in Pcs : p # q /\ Good(m, {p, q})
  BY RoomForTwo DEF IInv, TypeOK
<1> DEFINE b == m.chan[c].bound
           x == [m EXCEPT !.chan[c].state = "PendingAnswer"]
           y == [x EXCEPT !.chan[c].pc = m.ses[b].pc]
           v == [y EXCEPT !.ses[b].state = "invited"]
           i == [m EXCEPT !.chan[c].state = "PendingInvite"]
<1>2. /\ m.chan[c].state = "PendingConnect"
      /\ Becomes(IF m.ses[b].state = "signaling" THEN v ELSE i)
  BY DEF SignalingUp
<1>3. b \in Sessions /\ b # 0
  BY <1>1, <1>2, GoodParts, Numbers
<1>4. Sound(m) /\ Sane(m)
  BY DEF IInv, Sane
<1>5. CASE m.ses[b].state # "signaling"
  <2>1. Good(i, {p, q})
    BY <1>1, <1>3, GoodStates DEF ChannelStates
  <2>2. Moves(m, i, c) /\ i.chan[c].state = "PendingInvite"
    BY <1>1, <1>2 DEF Moves, Good, Manager, ChannelRecord
  <2> HIDE DEF i
  <2>3. m.ses[c].sig = c /\ m.chan[c].bound = c
          => m.ses[c].state \notin {"signaling", "invited"}
    BY <1>2, <1>4, <1>5 DEF Sound, Reports
  <2>4. m.channel = c => i.raced # {}
    <3>1. SUFFICES ASSUME m.channel = c, i.raced = {} PROVE FALSE
      OBVIOUS
    <3>2. Orderly(m)
      BY <1>4, <2>2, <3>1 DEF Moves, Sane
    <3> QED
      BY <1>2, <1>5, <3>1, <3>2, Numbers DEF Orderly, PendingIsHeld
  <2>5. Sane(i)
    BY <1>1, <1>4, <2>2, <2>3, <2>4, MovesSane
  <2> QED
    BY <1>2, <1>5, <2>1, <2>5, BecomesInv
<1>6. CASE m.ses[b].state = "signaling"
  <2>1. m.ses[b].pc \in 0..MaxPcs \ {p, q}
    BY <1>1, <1>3, GoodParts
  <2>2. Good(x, {p, q})
    BY <1>1, <1>3, GoodStates DEF ChannelStates
  <2>3. /\ Rest(m, x) /\ x.ses = m.ses
        /\ x.chan[c].state = "PendingAnswer" /\ x.chan[c].bound = b
        /\ \A d \in Sessions \ {c} : x.chan[d] = m.chan[d]
    BY <1>1 DEF Rest, Kept, Good, Manager, ChannelRecord
  <2> HIDE DEF x
  <2>4. Good(y, {p, q})
    BY <2>1, <2>2, GoodFields
  <2>5. /\ Rest(x, y) /\ y.ses = x.ses /\ y.chan[c].pc = m.ses[b].pc
        /\ y.chan[c].state = x.chan[c].state /\ y.chan[c].bound = x.chan[c].bound
        /\ \A d \in Sessions \ {c} : y.chan[d] = x.chan[d]
    BY <2>2 DEF Rest, Kept, Good, Manager, ChannelRecord
  <2> HIDE DEF y, b
  <2>6. /\ Good(v, {p, q}) /\ Advances(y, b, v) /\ v.chan = y.chan
        /\ v.ses[b].state = "invited"
    BY <1>3, <2>4, StateAdvances DEF SessionStates
  <2> HIDE DEF v
  <2>7. /\ Advances(m, b, v) /\ v.ses[b].state = "invited"
        /\ v.chan[c].state = "PendingAnswer" /\ v.chan[c].bound = b
        /\ v.chan[c].pc = m.ses[b].pc
        /\ \A d \in Sessions \ {c} : v.chan[d] = m.chan[d]
    BY <2>3, <2>5, <2>6 DEF Advances, Rest, Kept
  <2>8. m.ses[b].sig = c /\ m.chan[c].bound = b
    BY <1>3, <1>4, <1>6 DEF b, Sound, Mutual, Over, Ended
  <2>9. \A d \in Sessions : m.chan[d].bound = b => d = c
    BY <1>3, <1>4, <1>6, <2>8 DEF Sound, Mutual, Over, Ended
  <2>10. /\ m.waiting # 0 => m.waiting \in Sessions
         /\ m.pending # 0 => m.pending \in Sessions
         /\ m.current # 0 => m.current \in Sessions
         /\ m.channel # 0 => m.channel \in Sessions
    BY <1>1, GoodParts, Numbers
  <2>11. Held(v) /\ Settled(v)
    BY <1>4, <2>7, <2>10 DEF Sound, Held, Settled, Advances, Rest, Active
  <2>12. Fresh(v)
    BY <1>2, <1>4, <2>7, <2>8 DEF Sound, Fresh, Advances, Rest
  <2>13. Mutual(v)
    BY <1>4, <2>7, <2>8, <2>9 DEF Sound, Mutual, Advances, Over
  <2>14. Reports(v)
    BY <1>4, <2>7, <2>8 DEF Sound, Reports, Advances
  <2>15. Asleep(v)
    <3>1. m.agent
      BY <1>3, <1>4, <1>6 DEF Sound, Asleep, Active
    <3> QED
      BY <2>7, <3>1 DEF Asleep, Advances, Rest, Kept
  <2>16. Waits(v)
    BY <1>4, <1>6, <2>7, <2>10 DEF Sound, Waits, Advances, Rest, Kept
  <2>17. ASSUME v.raced = {} PROVE Orderly(v)
    <3>1. Orderly(m) /\ m.current = b
      BY <1>3, <1>4, <1>6, <2>7, <2>17
         DEF Sane, Orderly, Only, Advances, Rest, Kept, Active
    <3>2. \A t \in Sessions \ {b} : v.ses[t].state \notin Active
      BY <2>7, <3>1 DEF Orderly, Only, Advances
    <3>3. Only(v) /\ Tokens(v) /\ NoRenewal(v)
      BY <2>7, <3>1, <3>2, <1>3
         DEF Orderly, Only, Tokens, NoRenewal, Advances, Rest, Kept, Persistent
    <3>4. OnTheManagers(v)
      <4>1. /\ m.ses[b].pc # 0
            /\ m.ses[b].pc \notin m.closed =>
                 /\ m.ses[b].pc = m.pc
                 /\ m.channel # 0 /\ m.ses[b].sig = m.channel
                 /\ m.chan[m.channel].bound = b
        BY <1>3, <1>6, <3>1 DEF Orderly, OnTheManagers, Active
      <4> QED
        BY <2>7, <2>8, <3>2, <4>1 DEF OnTheManagers, Advances, Rest
    <3>5. Negotiated(v) /\ TalksOpen(v)
      <4>1. c # 0
        BY Numbers
      <4> QED
        BY <2>7, <2>8, <3>2, <4>1 DEF Negotiated, TalksOpen, Advances, Active
    <3>6. IdleIsKept(v)
      BY <2>7, <2>10, <3>1 DEF Orderly, IdleIsKept, Advances, Rest, Kept, Persistent
    <3>7. PendingIsHeld(v)
      BY <1>2, <1>6, <2>7, <2>9, <2>10, <3>1 DEF Orderly, PendingIsHeld, Advances, Rest
    <3>8. Together(v)
      BY <2>7, <3>1 DEF Orderly, Together, Advances, Rest
    <3>9. InVain(v)
      BY <1>6, <2>7, <2>10, <3>1 DEF Orderly, InVain, Advances, Rest, Kept, Over, Ended
    <3> QED
      BY <3>3, <3>4, <3>5, <3>6, <3>7, <3>8, <3>9 DEF Orderly
  <2>18. Sane(v)
    BY <2>11, <2>12, <2>13, <2>14, <2>15, <2>16, <2>17 DEF Sane, Sound
  <2>19. Becomes(v)
    BY <1>2, <1>6 DEF v, b
  <2> QED
    BY <2>6, <2>18, <2>19, BecomesInv
<1> QED
  BY <1>5, <1>6

\* A session whose remote description does not do is stopped and fails.
LEMMA StopFailSane ==
  ASSUME NEW F, NEW w, Good(w, F), Sane(w), NEW s \in Sessions,
         w.ses[s].state \in {"invited", "accepted"},
         NEW u, u = StopSession(w, s), NEW v, v = Fail(u, s)
  PROVE  Good(v, F) /\ Sane(v) /\ Ends(u, s, v) /\ Kept(w, u) /\ u.chan = w.chan
         /\ u.pc = w.pc /\ u.channel = w.channel
<1>1. Good(u, F) /\ Good(v, F)
  BY StopSessionGood, FailGood
<1>2. /\ Kept(w, u) /\ u.chan = w.chan /\ u.pc = w.pc /\ u.channel = w.channel
      /\ u.current = w.current /\ u.token = w.token
      /\ \A t \in Sessions \ {s} : u.ses[t] = w.ses[t]
      /\ u.ses[s].state = w.ses[s].state /\ u.ses[s].promise = w.ses[s].promise
      /\ u.ses[s].sig = w.ses[s].sig
      /\ Persistent(w) => u.closed = w.closed
      /\ ~Persistent(w) => u.closed = w.closed \union ({w.ses[s].pc} \ {0})
  BY StopSessionEffect
<1>3. Ending(w, s)
  BY SaneEnding DEF Active
<1>4. /\ w.waiting # 0 => w.waiting \in Sessions
      /\ w.pending # 0 => w.pending \in Sessions
      /\ w.current # 0 => w.current \in Sessions
  BY GoodParts, Numbers
<1>5. Fresh(u)
  BY <1>2, <1>3 DEF Ending, Fresh
<1>6. Mutual(u) /\ Settled(u)
  BY <1>2, <1>3 DEF Ending, Mutual, Settled, Over
<1>7. Asleep(u)
  <2>1. w.agent
    BY <1>3 DEF Ending, Asleep, Active
  <2> QED
    BY <1>2, <2>1 DEF Asleep, Kept
<1>8. Waits(u)
  BY <1>2, <1>3, <1>4 DEF Ending, Waits, Kept
<1>9. /\ ~Over(u, s) /\ u.ses[s].state # "none"
      /\ \A t \in Sessions \ {s} : u.ses[t].sig = t /\ u.chan[t].bound = t =>
           /\ u.ses[t].state = "signaling" => u.chan[t].state = "PendingConnect"
           /\ u.ses[t].state = "invited" => u.chan[t].state = "PendingAnswer"
  BY <1>2, <1>3 DEF Ending, Over
<1>10. ASSUME u.raced = {}
       PROVE  /\ \A t \in Sessions \ {s} : u.ses[t].state \notin Active
              /\ NoRenewal(u) /\ Together(u) /\ InVain(u)
  <2>1. Orderly(w)
    BY <1>2, <1>10 DEF Sane, Kept
  <2>2. /\ \A t \in Sessions \ {s} : w.ses[t].state \notin Active
        /\ NoRenewal(w) /\ InVain(w)
    BY <1>2, <1>3, <1>10 DEF Ending, Kept
  <2>3. NoRenewal(u)
    BY <1>2, <2>2 DEF NoRenewal, Kept, Persistent
  <2>4. InVain(u)
    BY <1>2, <1>4, <2>2 DEF InVain, Kept, Over
  <2>5. Together(u)
    <3>1. w.ses[s].pc \notin w.closed => w.channel # 0
      BY <2>1 DEF Orderly, OnTheManagers, Active
    <3>2. w.channel # 0 => w.pc # 0
      BY <2>1 DEF Orderly, Together
    <3>3. w.pc \in w.closed => w.channel # 0
      BY <2>1 DEF Orderly, Together
    <3> QED
      BY <1>2, <3>1, <3>2, <3>3 DEF Together
  <2> QED
    BY <1>2, <2>2, <2>3, <2>4, <2>5
<1>11. Ending(u, s)
  BY <1>5, <1>6, <1>7, <1>8, <1>9, <1>10 DEF Ending
<1> QED
  BY <1>1, <1>2, <1>11, FailEffect, FailSane

\* The channel of a session that has accepted, or has not been told of the answer,
\* is idle or talks.
LEMMA AcceptedSane ==
  ASSUME NEW F, NEW w, Good(w, F), Sane(w), NEW c \in Sessions, NEW b \in Sessions,
         w.chan[c].state = "PendingAnswer", w.chan[c].bound = b,
         w.ses[b].state = "invited",
         NEW v, Rest(w, v), \A t \in Sessions \ {b} : v.ses[t] = w.ses[t],
         v.ses[b].pc = w.ses[b].pc, v.ses[b].sig = w.ses[b].sig,
         v.ses[b].token = w.ses[b].token, v.ses[b].ahead = w.ses[b].ahead,
         v.ses[b].state \in {"accepted", "forsaken"},
         v.ses[b].state = "accepted" => v.ses[b].promise # "pending",
         v.chan[c].state \in {"Idle", "Talking"},
         v.chan[c].state = "Idle" => Persistent(w),
         v.chan[c].bound = b, v.chan[c].pc = w.chan[c].pc,
         \A d \in Sessions \ {c} : v.chan[d] = w.chan[d]
  PROVE  Sane(v)
<1>1. Sound(w)
  BY DEF Sane
<1>2. w.ses[b].sig = c
  BY <1>1 DEF Sound, Mutual, Over, Ended
<1>3. \A d \in Sessions : w.chan[d].bound = b => d = c
  BY <1>1, <1>2 DEF Sound, Mutual, Over, Ended
<1>4. /\ w.waiting # 0 => w.waiting \in Sessions
      /\ w.pending # 0 => w.pending \in Sessions
      /\ w.current # 0 => w.current \in Sessions
      /\ w.channel # 0 => w.channel \in Sessions
  BY GoodParts, Numbers
<1>5. Held(v)
  BY <1>1, <1>4 DEF Sound, Held, Rest, Active
<1>6. Settled(v)
  BY <1>1 DEF Sound, Settled
<1>7. Fresh(v)
  BY <1>1, <1>2 DEF Sound, Fresh, Rest
<1>8. Mutual(v)
  BY <1>1, <1>2, <1>3 DEF Sound, Mutual, Over
<1>9. Reports(v)
  BY <1>1, <1>2 DEF Sound, Reports
<1>10. Asleep(v)
  <2>1. w.agent
    BY <1>1 DEF Sound, Asleep, Active
  <2> QED
    BY <2>1 DEF Asleep, Rest, Kept
<1>11. Waits(v)
  BY <1>1, <1>4 DEF Sound, Waits, Rest, Kept
<1>12. ASSUME v.raced = {} PROVE Orderly(v)
  <2>1. Orderly(w) /\ w.current = b
    BY <1>12 DEF Sane, Orderly, Only, Rest, Kept, Active
  <2>2. \A t \in Sessions \ {b} : v.ses[t].state \notin Active
    BY <2>1 DEF Orderly, Only
  <2>3. Only(v)
    BY <2>1, <2>2 DEF Only, Rest
  <2>4. Tokens(v)
    BY <2>1 DEF Orderly, Tokens, Rest
  <2>5. NoRenewal(v)
    BY <2>1 DEF Orderly, NoRenewal, Rest, Kept, Persistent
  <2>6. OnTheManagers(v)
    <3>1. /\ w.ses[b].pc # 0
          /\ w.ses[b].pc \notin w.closed =>
               /\ w.ses[b].pc = w.pc
               /\ w.channel # 0 /\ w.ses[b].sig = w.channel
               /\ w.chan[w.channel].bound = b
      BY <2>1 DEF Orderly, OnTheManagers, Active
    <3> QED
      BY <1>2, <2>2, <3>1 DEF OnTheManagers, Rest
  <2>7. Negotiated(v)
    <3>1. c # 0 /\ w.chan[c].pc = w.ses[b].pc
      BY <1>2, <2>1, Numbers DEF Orderly, Negotiated
    <3> QED
      BY <1>2, <2>2, <3>1 DEF Negotiated, Active
  <2>8. TalksOpen(v)
    BY <2>2 DEF TalksOpen, Active
  <2>9. ASSUME w.channel = c PROVE w.chan[c].pc = w.pc /\ w.pc \notin w.closed
    BY <2>1, <2>9, Numbers DEF Orderly, PendingIsHeld
  <2>10. IdleIsKept(v)
    <3>1. CASE w.channel = c
      BY <2>9, <3>1 DEF IdleIsKept, Rest, Kept, Persistent
    <3>2. CASE w.channel # c
      BY <1>4, <2>1, <3>2 DEF Orderly, IdleIsKept, Rest, Kept, Persistent
    <3> QED
      BY <3>1, <3>2
  <2>11. PendingIsHeld(v)
    <3>1. CASE w.channel = c
      BY <3>1 DEF PendingIsHeld, Rest
    <3>2. CASE w.channel # c
      <4>1. w.channel # 0 => w.chan[w.channel].state \notin
              {"PendingConnect", "PendingInvite", "PendingAnswer"}
        BY <1>3, <1>4, <2>1, <3>2 DEF Orderly, PendingIsHeld
      <4> QED
        BY <1>4, <3>2, <4>1 DEF PendingIsHeld, Rest
    <3> QED
      BY <3>1, <3>2
  <2>12. Together(v)
    BY <2>1 DEF Orderly, Together, Rest
  <2>13. InVain(v)
    BY <1>4, <2>1 DEF Orderly, InVain, Rest, Kept, Over, Ended
  <2> QED
    BY <2>3, <2>4, <2>5, <2>6, <2>7, <2>8, <2>10, <2>11, <2>12, <2>13 DEF Orderly
<1> QED
  BY <1>5, <1>6, <1>7, <1>8, <1>9, <1>10, <1>11, <1>12 DEF Sane, Sound

\* The channel has sent ACCEPT: it idles if there is no contact.
Accepting(w, c) ==
  IF Persistent(w) /\ w.token = 0
    THEN [w EXCEPT !.chan[c].state = "Idle", !.inactive = TRUE]
    ELSE [w EXCEPT !.chan[c].state = "Talking"]

\* Sending ACCEPT moves the channel on and nothing else.
LEMMA AcceptMoves ==
  ASSUME NEW F, NEW w, Good(w, F), NEW c \in Sessions, w.chan[c].state = "PendingAnswer",
         NEW v, v = Accepting(w, c)
  PROVE  /\ Good(v, F) /\ Moves(w, v, c) /\ Kept(w, v)
         /\ v.chan[c].state \in {"Idle", "Talking"}
         /\ v.chan[c].state = "Idle" => Persistent(w)
<1> DEFINE i == [w EXCEPT !.chan[c].state = "Idle"]
           j == [i EXCEPT !.inactive = TRUE]
           t == [w EXCEPT !.chan[c].state = "Talking"]
<1>1. {"Idle", "Talking"} \subseteq ChannelStates \ {"none"} /\ w.chan[c].bound # 0
  BY GoodParts, Numbers DEF ChannelStates
<1>2. v = IF Persistent(w) /\ w.token = 0 THEN j ELSE t
  BY DEF Accepting
<1>3. Good(i, F) /\ Good(t, F)
  BY <1>1, GoodStates
<1>4. Moves(w, i, c) /\ Kept(w, i) /\ i.chan[c].state = "Idle"
  BY DEF Moves, Kept, Good, Manager, ChannelRecord
<1>5. Moves(w, t, c) /\ Kept(w, t) /\ t.chan[c].state = "Talking"
  BY DEF Moves, Kept, Good, Manager, ChannelRecord
<1> HIDE DEF i, t
<1>6. /\ j \in Manager /\ j.ses = i.ses /\ j.chan = i.chan /\ j.pc = i.pc
      /\ j.closed = i.closed
  BY <1>3 DEF Good, Manager
<1>7. Moves(w, j, c) /\ Kept(w, j) /\ j.chan[c].state = "Idle"
  BY <1>3, <1>4 DEF Moves, Kept, Good, Manager
<1> HIDE DEF j
<1>8. Good(j, F)
  BY <1>3, <1>6, GoodRest
<1> QED
  BY <1>2, <1>3, <1>5, <1>7, <1>8

\* A promise that has settled stays as it is; one that has not is the only thing
\* that changes.
LEMMA SettleEffect ==
  ASSUME NEW F, NEW w, Good(w, F), NEW s \in Sessions, NEW v,
         v = Settle(w, s, "resolved")
  PROVE  /\ Good(v, F) /\ Rest(w, v) /\ v.chan = w.chan
         /\ \A t \in Sessions \ {s} : v.ses[t] = w.ses[t]
         /\ v.ses[s].pc = w.ses[s].pc /\ v.ses[s].sig = w.ses[s].sig
         /\ v.ses[s].token = w.ses[s].token /\ v.ses[s].ahead = w.ses[s].ahead
         /\ v.ses[s].state = w.ses[s].state /\ v.ses[s].promise # "pending"
<1>1. Good(v, F)
  BY SettleGood
<1>2. CASE w.ses[s].promise # "pending"
  <2>1. v = w
    BY <1>2 DEF Settle
  <2> QED
    BY <1>1, <1>2, <2>1 DEF Rest, Kept
<1>3. CASE w.ses[s].promise = "pending"
  <2>1. v = [w EXCEPT !.ses[s].promise = "resolved"]
    BY <1>3, Numbers DEF Settle
  <2>2. /\ Rest(w, v) /\ v.chan = w.chan
        /\ \A t \in Sessions \ {s} : v.ses[t] = w.ses[t]
    BY <2>1 DEF Rest, Kept, Good, Manager
  <2>3. v.ses[s] = [w.ses[s] EXCEPT !.promise = "resolved"]
    BY <2>1 DEF Good, Manager
  <2>4. /\ v.ses[s].pc = w.ses[s].pc /\ v.ses[s].sig = w.ses[s].sig
        /\ v.ses[s].token = w.ses[s].token /\ v.ses[s].ahead = w.ses[s].ahead
        /\ v.ses[s].state = w.ses[s].state /\ v.ses[s].promise = "resolved"
    BY <2>3, GoodParts DEF SessionRecord
  <2> QED
    BY <1>1, <2>2, <2>4
<1> QED
  BY <1>2, <1>3

\* The answer to the INVITE, in the four ways the bound session can take it or
\* miss it.
LEMMA AnsweredInv ==
  ASSUME IInv, NEW c \in Sessions, Answered(c)
  PROVE  IInv'
<1>1. PICK p, q \in Pcs : p # q /\ Good(m, {p, q})
  BY RoomForTwo DEF IInv, TypeOK
<1>2. Sane(m) /\ m.chan[c].state = "PendingAnswer"
  BY DEF IInv, Answered
<1> DEFINE b == m.chan[c].bound
           Moved(h) ==
             IF Persistent(h) /\ h.token = 0
               THEN [h EXCEPT !.chan[c].state = "Idle", !.inactive = TRUE]
               ELSE [h EXCEPT !.chan[c].state = "Talking"]
           Final(x) == IF x.ses[b].state = "accepted" THEN Settle(x, b, "resolved") ELSE x
<1>3. PICK ok \in BOOLEAN, answer \in Answers :
        Becomes(Final(Moved(NotifyAnswered(m, c, answer, ok))))
  BY DEF Answered
<1> DEFINE known == Allowlist(m, c, ok)
           heard == NotifyAnswered(m, c, answer, ok)
           moved == Moved(heard)
           v     == Final(moved)
<1>4. b \in Sessions
  BY <1>1, <1>2, GoodParts
<1>5. Sane(known) /\ Switches(m, known) /\ Good(known, {p, q})
  BY <1>1, <1>2, AllowlistSane
<1>6. known.ses = m.ses /\ known.chan = m.chan
  BY <1>5 DEF Switches
<1>7. Becomes(v)
  BY <1>3
<1>8. SUFFICES Good(v, {p, q}) /\ Sane(v)
  BY <1>7, BecomesInv
<1>9. moved = Accepting(heard, c) /\ b = m.chan[c].bound
  BY DEF Accepting
<1>10. v = IF moved.ses[b].state = "accepted" THEN Settle(moved, b, "resolved") ELSE moved
  OBVIOUS
<1>11. heard = IF m.ses[b].state # "invited"
                 THEN IF answer = "withoutSdp" THEN m ELSE known
               ELSE IF answer = "withoutSdp" THEN [m EXCEPT !.ses[b].state = "forsaken"]
               ELSE IF answer = "usable" THEN [known EXCEPT !.ses[b].state = "accepted"]
               ELSE Fail(StopSession(known, b), b)
  BY DEF NotifyAnswered
<1> HIDE DEF b, known, heard, moved, v, Moved, Final
<1>12. CASE m.ses[b].state # "invited"
  <2>1. /\ Sane(heard) /\ Good(heard, {p, q})
        /\ heard.ses = m.ses /\ heard.chan = m.chan
    BY <1>1, <1>2, <1>5, <1>6, <1>11, <1>12
  <2>2. /\ Good(moved, {p, q}) /\ Moves(heard, moved, c) /\ Kept(heard, moved)
        /\ moved.chan[c].state \in {"Idle", "Talking"}
        /\ moved.chan[c].state = "Idle" => Persistent(heard)
    BY <1>2, <1>9, <2>1, AcceptMoves
  <2>3. heard.ses[c].sig = c /\ heard.chan[c].bound = c
          => heard.ses[c].state \notin {"signaling", "invited"}
    BY <1>2, <1>9, <1>12, <2>1 DEF Sane, Sound, Reports
  <2>4. heard.raced = {} => heard.channel # c
    BY <1>2, <1>9, <1>12, <2>1, Numbers DEF Sane, Orderly, PendingIsHeld
  <2>5. Persistent(heard) => Persistent(moved)
    BY <2>2 DEF Kept, Persistent
  <2>6. moved.raced = heard.raced
    BY <2>2 DEF Kept
  <2>7. Sane(moved)
    BY <2>1, <2>2, <2>3, <2>4, <2>5, <2>6, MovesSane
  <2>8. v = moved
    <3>1. moved.ses[b].state = "accepted" => moved.ses[b].promise # "pending"
      BY <1>4, <2>7 DEF Sane, Sound, Settled
    <3> QED
      BY <1>10, <3>1 DEF Settle
  <2> QED
    BY <2>2, <2>7, <2>8
<1>13. CASE m.ses[b].state = "invited" /\ answer = "usable"
  <2>1. /\ Good(heard, {p, q}) /\ Advances(known, b, heard) /\ heard.chan = known.chan
        /\ heard.ses[b].state = "accepted"
    BY <1>4, <1>5, <1>11, <1>13, StateAdvances DEF SessionStates
  <2>2. /\ Good(moved, {p, q}) /\ Moves(heard, moved, c) /\ Kept(heard, moved)
        /\ moved.chan[c].state \in {"Idle", "Talking"}
        /\ moved.chan[c].state = "Idle" => Persistent(heard)
    <3>1. heard.chan[c].state = "PendingAnswer"
      BY <1>2, <1>6, <2>1
    <3>2. Good(heard, {p, q}) /\ moved = Accepting(heard, c)
      BY <1>9, <2>1
    <3> QED
      BY <3>1, <3>2, AcceptMoves
  <2>3. v = Settle(moved, b, "resolved")
    BY <1>10, <2>1, <2>2 DEF Moves
  <2>4. /\ Good(v, {p, q}) /\ Rest(moved, v) /\ v.chan = moved.chan
        /\ \A t \in Sessions \ {b} : v.ses[t] = moved.ses[t]
        /\ v.ses[b].pc = moved.ses[b].pc /\ v.ses[b].sig = moved.ses[b].sig
        /\ v.ses[b].token = moved.ses[b].token /\ v.ses[b].ahead = moved.ses[b].ahead
        /\ v.ses[b].state = moved.ses[b].state /\ v.ses[b].promise # "pending"
    <3>1. Good(moved, {p, q})
      BY <2>2
    <3> HIDE DEF v
    <3>2. b \in Sessions /\ v = Settle(moved, b, "resolved")
      BY <1>4, <2>3
    <3>3. Good(v, {p, q})
      BY <3>1, <3>2, SettleGood
    <3>4. Rest(moved, v) /\ v.chan = moved.chan
      BY <3>1, <3>2, SettleEffect
    <3>5. /\ \A t \in Sessions \ {b} : v.ses[t] = moved.ses[t]
          /\ v.ses[b].pc = moved.ses[b].pc /\ v.ses[b].sig = moved.ses[b].sig
          /\ v.ses[b].token = moved.ses[b].token /\ v.ses[b].ahead = moved.ses[b].ahead
          /\ v.ses[b].state = moved.ses[b].state /\ v.ses[b].promise # "pending"
      BY <3>1, <3>2, SettleEffect
    <3> QED
      BY <3>3, <3>4, <3>5
  <2>5. Rest(heard, moved) /\ moved.ses = heard.ses
    BY <2>2 DEF Moves, Rest
  <2>6. Rest(known, v)
    BY <2>1, <2>4, <2>5 DEF Advances, Rest, Kept
  <2>7. /\ \A t \in Sessions \ {b} : v.ses[t] = known.ses[t]
        /\ v.ses[b].pc = known.ses[b].pc /\ v.ses[b].sig = known.ses[b].sig
        /\ v.ses[b].token = known.ses[b].token /\ v.ses[b].ahead = known.ses[b].ahead
        /\ v.ses[b].state = "accepted"
    BY <2>1, <2>4, <2>5 DEF Advances
  <2>8. /\ v.chan[c].state \in {"Idle", "Talking"}
        /\ v.chan[c].bound = b /\ v.chan[c].pc = known.chan[c].pc
        /\ \A d \in Sessions \ {c} : v.chan[d] = known.chan[d]
    <3>1. heard.chan[c].bound = b /\ heard.chan = known.chan
      BY <1>6, <1>9, <2>1
    <3>2. /\ moved.chan[c].bound = heard.chan[c].bound
          /\ moved.chan[c].pc = heard.chan[c].pc
          /\ \A d \in Sessions \ {c} : moved.chan[d] = heard.chan[d]
      BY <2>2 DEF Moves
    <3> QED
      BY <2>2, <2>4, <3>1, <3>2
  <2>9. v.chan[c].state = "Idle" => Persistent(known)
    BY <2>1, <2>2, <2>4 DEF Advances, Rest, Kept, Persistent
  <2>10. known.chan[c].state = "PendingAnswer" /\ known.chan[c].bound = b
         /\ known.ses[b].state = "invited"
    BY <1>2, <1>6, <1>9, <1>13
  <2>11. Sane(v)
    BY <1>4, <1>5, <2>4, <2>6, <2>7, <2>8, <2>9, <2>10, AcceptedSane
  <2> QED
    BY <2>4, <2>11
<1>14. CASE m.ses[b].state = "invited" /\ answer \notin {"usable", "withoutSdp"}
  <2> DEFINE u == StopSession(known, b)
  <2>1. heard = Fail(u, b) /\ u = StopSession(known, b)
    BY <1>11, <1>14
  <2> HIDE DEF u
  <2>2. known.ses[b].state \in {"invited", "accepted"}
    BY <1>6, <1>14
  <2>3. /\ Good(heard, {p, q}) /\ Sane(heard) /\ Ends(u, b, heard) /\ Kept(known, u)
        /\ u.chan = known.chan /\ u.pc = known.pc /\ u.channel = known.channel
    BY <1>4, <1>5, <2>1, <2>2, StopFailSane
  <2>4. heard.chan[c] = known.chan[c]
    BY <1>2, <1>6, <2>3 DEF Ends, Silenced
  <2>5. /\ Good(moved, {p, q}) /\ Moves(heard, moved, c) /\ Kept(heard, moved)
        /\ moved.chan[c].state \in {"Idle", "Talking"}
        /\ moved.chan[c].state = "Idle" => Persistent(heard)
    <3>1. heard.chan[c].state = "PendingAnswer"
      BY <1>2, <1>6, <2>4
    <3>2. Good(heard, {p, q}) /\ moved = Accepting(heard, c)
      BY <1>9, <2>3
    <3> QED
      BY <3>1, <3>2, AcceptMoves
  <2>6. Over(heard, b)
    BY <2>3 DEF Ends
  <2>7. heard.ses[c].sig = c /\ heard.chan[c].bound = c
          => heard.ses[c].state \notin {"signaling", "invited"}
    BY <1>6, <1>9, <2>4, <2>6 DEF Over, Ended
  <2>8. heard.raced = {} => heard.channel # c
    <3>1. heard.raced = known.raced
      BY <2>3 DEF Ends, Kept
    <3>2. known.raced = {} /\ known.channel # 0 => known.pc # 0
      BY <1>5 DEF Sane, Orderly, Together
    <3>3. c # 0
      BY Numbers
    <3> QED
      BY <2>3, <3>1, <3>2, <3>3 DEF Ends
  <2>9. Persistent(heard) => Persistent(moved)
    BY <2>5 DEF Kept, Persistent
  <2>10. moved.raced = heard.raced
    BY <2>5 DEF Kept
  <2>11. Sane(moved)
    BY <2>3, <2>5, <2>7, <2>8, <2>9, <2>10, MovesSane
  <2>12. v = moved
    <3>1. moved.ses[b].state \in Ended
      BY <2>5, <2>6 DEF Moves, Over
    <3> QED
      BY <1>10, <3>1 DEF Ended
  <2> QED
    BY <2>5, <2>11, <2>12
<1>15. CASE m.ses[b].state = "invited" /\ answer = "withoutSdp"
  <2>1. /\ Good(heard, {p, q}) /\ Advances(m, b, heard) /\ heard.chan = m.chan
        /\ heard.ses[b].state = "forsaken"
    BY <1>1, <1>4, <1>11, <1>15, StateAdvances DEF SessionStates
  <2>2. /\ Good(moved, {p, q}) /\ Moves(heard, moved, c) /\ Kept(heard, moved)
        /\ moved.chan[c].state \in {"Idle", "Talking"}
        /\ moved.chan[c].state = "Idle" => Persistent(heard)
    BY <1>2, <1>9, <2>1, AcceptMoves
  <2>3. v = moved
    BY <1>10, <2>1, <2>2 DEF Moves
  <2>4. Rest(heard, moved) /\ moved.ses = heard.ses
    BY <2>2 DEF Moves, Rest
  <2>5. Rest(m, v)
    BY <2>1, <2>3, <2>4 DEF Advances, Rest, Kept
  <2>6. /\ \A t \in Sessions \ {b} : v.ses[t] = m.ses[t]
        /\ v.ses[b].pc = m.ses[b].pc /\ v.ses[b].sig = m.ses[b].sig
        /\ v.ses[b].token = m.ses[b].token /\ v.ses[b].ahead = m.ses[b].ahead
        /\ v.ses[b].state = "forsaken"
    BY <2>1, <2>3, <2>4 DEF Advances
  <2>7. /\ v.chan[c].state \in {"Idle", "Talking"}
        /\ v.chan[c].bound = b /\ v.chan[c].pc = m.chan[c].pc
        /\ \A d \in Sessions \ {c} : v.chan[d] = m.chan[d]
    BY <1>9, <2>1, <2>2, <2>3 DEF Moves
  <2>8. v.chan[c].state = "Idle" => Persistent(m)
    BY <2>1, <2>2, <2>3 DEF Advances, Rest, Kept, Persistent
  <2>9. Sane(v)
    BY <1>1, <1>2, <1>4, <1>9, <1>15, <2>5, <2>6, <2>7, <2>8, AcceptedSane
  <2> QED
    BY <2>2, <2>3, <2>9
<1> QED
  BY <1>12, <1>13, <1>14, <1>15

\* The remote description is set: the call is a conversation, or the session that
\* set the connection up has done its work.
LEMMA RemoteDescriptionSetInv ==
  ASSUME IInv, NEW s \in Sessions, RemoteDescriptionSet(s)
  PROVE  IInv'
<1>1. PICK p, q \in Pcs : p # q /\ Good(m, {p, q})
  BY RoomForTwo DEF IInv, TypeOK
<1>2. Sane(m) /\ Sound(m) /\ m.ses[s].state = "accepted" /\ Open(s)
  BY DEF IInv, Sane, RemoteDescriptionSet
<1>3. CASE m.ses[s].token = 0
  <2> DEFINE w == [m EXCEPT !.current = 0]
             v == Disconnect(w, s, FALSE)
  <2>1. Becomes(v)
    BY <1>3 DEF RemoteDescriptionSet
  <2>2. /\ w \in Manager /\ Kept(m, w) /\ w.ses = m.ses /\ w.chan = m.chan /\ w.pc = m.pc
        /\ w.channel = m.channel /\ w.closed = m.closed /\ w.token = m.token
        /\ w.current = 0
    BY <1>1, Numbers DEF Kept, Good, Manager
  <2> HIDE DEF w
  <2>3. Good(w, {p, q})
    BY <1>1, <2>2, GoodRest
  <2>4. Good(v, {p, q})
    BY <2>3, DisconnectGood
  <2>5. Ceases(w, s, v)
    BY <1>2, <2>2, <2>3, DisconnectEffect
  <2> HIDE DEF v
  <2>6. Persistent(w) <=> Persistent(m)
    BY <2>2 DEF Kept, Persistent
  <2>7. /\ Kept(m, v) /\ v.chan = m.chan /\ v.pc = m.pc /\ v.channel = m.channel
        /\ v.current = 0 /\ v.token = m.token /\ Over(v, s)
        /\ \A t \in Sessions \ {s} : v.ses[t] = m.ses[t]
        /\ Persistent(m) => v.closed = m.closed
        /\ ~Persistent(m) => v.closed = m.closed \union ({m.ses[s].pc} \ {0})
    BY <2>2, <2>5, <2>6 DEF Ceases, Kept
  <2>8. v.raced = {} => v.token = 0
    <3>1. SUFFICES ASSUME v.raced = {} PROVE v.token = 0
      OBVIOUS
    <3>2. Orderly(m) /\ s # 0
      BY <1>2, <2>7, <3>1, Numbers DEF Sane, Kept
    <3>3. m.current = s
      BY <1>2, <3>2 DEF Orderly, Only, Active
    <3> QED
      BY <1>3, <2>7, <3>2, <3>3 DEF Orderly, Tokens
  <2>9. v.closed \subseteq Pcs
    BY <2>4, GoodParts
  <2>10. Sane(v)
    BY <1>1, <1>2, <2>7, <2>8, <2>9, CeasesSane
  <2> QED
    BY <2>1, <2>4, <2>10, BecomesInv
<1>4. CASE m.ses[s].token # 0
  <2> DEFINE v == [m EXCEPT !.ses[s].state = "talking"]
  <2>1. Becomes(v)
    BY <1>4 DEF RemoteDescriptionSet
  <2>2. v = [m EXCEPT !.ses[s].state = "talking"]
    OBVIOUS
  <2> HIDE DEF v
  <2>3. /\ Good(v, {p, q}) /\ Advances(m, s, v) /\ v.chan = m.chan
        /\ v.ses[s].state = "talking"
    BY <1>1, <2>2, StateAdvances DEF SessionStates
  <2>4. /\ m.waiting # 0 => m.waiting \in Sessions
        /\ m.pending # 0 => m.pending \in Sessions
        /\ m.current # 0 => m.current \in Sessions
        /\ m.channel # 0 => m.channel \in Sessions
    BY <1>1, GoodParts, Numbers
  <2>5. Held(v)
    BY <1>2, <2>3, <2>4 DEF Sound, Held, Advances, Rest, Active
  <2>6. Settled(v)
    BY <1>2, <2>3 DEF Sound, Settled, Advances
  <2>7. Fresh(v)
    BY <1>2, <2>3 DEF Sound, Fresh, Advances, Rest
  <2>8. Mutual(v)
    BY <1>2, <2>3 DEF Sound, Mutual, Advances, Over, Ended
  <2>9. Reports(v)
    BY <1>2, <2>3 DEF Sound, Reports, Advances
  <2>10. Asleep(v)
    <3>1. m.agent
      BY <1>2 DEF Sound, Asleep, Active
    <3> QED
      BY <2>3, <3>1 DEF Asleep, Advances, Rest, Kept
  <2>11. Waits(v)
    BY <1>2, <2>3, <2>4 DEF Sound, Waits, Advances, Rest, Kept
  <2>12. ASSUME v.raced = {} PROVE Orderly(v)
    <3>1. Orderly(m) /\ m.current = s
      BY <1>2, <2>3, <2>12 DEF Sane, Orderly, Only, Advances, Rest, Kept, Active
    <3>2. \A t \in Sessions \ {s} : v.ses[t].state \notin Active
      BY <2>3, <3>1 DEF Orderly, Only, Advances
    <3>3. Only(v)
      BY <2>3, <3>1, <3>2 DEF Only, Advances, Rest
    <3>4. Tokens(v)
      BY <2>3, <3>1 DEF Orderly, Tokens, Advances, Rest
    <3>5. NoRenewal(v)
      BY <2>3, <3>1 DEF Orderly, NoRenewal, Advances, Rest, Kept, Persistent
    <3>6. OnTheManagers(v)
      <4>1. /\ m.ses[s].pc # 0
            /\ m.ses[s].pc \notin m.closed =>
                 /\ m.ses[s].pc = m.pc
                 /\ m.channel # 0 /\ m.ses[s].sig = m.channel
                 /\ m.chan[m.channel].bound = s
        BY <1>2, <3>1 DEF Orderly, OnTheManagers, Active
      <4> QED
        BY <2>3, <3>2, <4>1 DEF OnTheManagers, Advances, Rest
    <3>7. Negotiated(v)
      <4>1. /\ m.ses[s].sig # 0
            /\ m.chan[m.ses[s].sig].bound = s
            /\ m.chan[m.ses[s].sig].pc = m.ses[s].pc
        BY <1>2, <3>1 DEF Orderly, Negotiated
      <4> QED
        BY <2>3, <3>2, <4>1 DEF Negotiated, Advances, Active
    <3>8. TalksOpen(v)
      BY <1>2, <2>3, <3>2 DEF TalksOpen, Open, Advances, Rest, Active
    <3>9. IdleIsKept(v)
      BY <2>3, <3>1 DEF Orderly, IdleIsKept, Advances, Rest, Kept, Persistent
    <3>10. PendingIsHeld(v)
      BY <1>2, <2>3, <3>1 DEF Orderly, PendingIsHeld, Advances, Rest
    <3>11. Together(v)
      BY <2>3, <3>1 DEF Orderly, Together, Advances, Rest
    <3>12. InVain(v)
      BY <1>2, <2>3, <2>4, <3>1 DEF Orderly, InVain, Advances, Rest, Kept, Over, Ended
    <3> QED
      BY <3>3, <3>4, <3>5, <3>6, <3>7, <3>8, <3>9, <3>10, <3>11, <3>12 DEF Orderly
  <2>13. Sane(v)
    BY <2>5, <2>6, <2>7, <2>8, <2>9, <2>10, <2>11, <2>12 DEF Sane, Sound
  <2> QED
    BY <2>1, <2>3, <2>13, BecomesInv
<1> QED
  BY <1>3, <1>4

\* The remote description does not do.
LEMMA RemoteDescriptionRejectedInv ==
  ASSUME IInv, NEW s \in Sessions, RemoteDescriptionRejected(s)
  PROVE  IInv'
<1>1. PICK p, q \in Pcs : p # q /\ Good(m, {p, q})
  BY RoomForTwo DEF IInv, TypeOK
<1>2. Sane(m) /\ m.ses[s].state \in {"invited", "accepted"}
  BY DEF IInv, RemoteDescriptionRejected
<1> DEFINE u == StopSession(m, s)
           v == Fail(u, s)
<1>3. Becomes(v)
  BY DEF RemoteDescriptionRejected
<1>4. u = StopSession(m, s) /\ v = Fail(u, s)
  OBVIOUS
<1> HIDE DEF u, v
<1>5. Good(v, {p, q}) /\ Sane(v)
  BY <1>1, <1>2, <1>4, StopFailSane
<1> QED
  BY <1>3, <1>5, BecomesInv

-----------------------------------------------------------------------------
(* The steps of the channel and the server.                                *)

\* FailedState of a channel.
LEMMA FailsInv ==
  ASSUME IInv, NEW c \in Sessions, m.chan[c].state # "none", NEW denied \in BOOLEAN,
         Becomes(FailChannel(m, c, denied))
  PROVE  IInv'
<1>1. PICK p, q \in Pcs : p # q /\ Good(m, {p, q})
  BY RoomForTwo DEF IInv, TypeOK
<1>2. Good(FailChannel(m, c, denied), {p, q})
  BY <1>1, FailChannelGood
<1>3. Sane(FailChannel(m, c, denied))
  BY <1>1, FailChannelSane DEF IInv
<1> QED
  BY <1>2, <1>3, BecomesInv

\* The INVITE is refused.
LEMMA InviteRefusedInv ==
  ASSUME IInv, NEW c \in Sessions, InviteRefused(c)
  PROVE  IInv'
BY FailsInv DEF InviteRefused

\* A channel waits too long.
LEMMA ChannelTimeoutInv ==
  ASSUME IInv, NEW c \in Sessions, ChannelTimeout(c)
  PROVE  IInv'
BY FailsInv DEF ChannelTimeout

\* An error in reply to a request of the channel.
LEMMA ReplyFailsInv ==
  ASSUME IInv, NEW c \in Sessions, ReplyFails(c)
  PROVE  IInv'
<1>1. PICK p, q \in Pcs : p # q /\ Good(m, {p, q})
  BY RoomForTwo DEF IInv, TypeOK
<1>2. CASE \E denied \in BOOLEAN : Becomes(FailChannel(m, c, denied))
  <2>1. m.chan[c].state # "none"
    BY DEF ReplyFails
  <2> QED
    BY <1>2, <2>1, FailsInv
<1>3. CASE Becomes(Destroy(m, FALSE))
  <2>1. Good(Destroy(m, FALSE), {p, q}) /\ Sane(Destroy(m, FALSE))
    BY <1>1, DestroyGood, DestroySane DEF IInv
  <2> QED
    BY <1>3, <2>1, BecomesInv
<1> QED
  BY <1>2, <1>3 DEF ReplyFails

\* A channel that is neither being set up nor answered becomes one that does
\* nothing more.
LEMMA QuietSane ==
  ASSUME NEW F, NEW w, Good(w, F), Sane(w), NEW c \in Sessions,
         w.chan[c].state \in {"Idle", "Talking", "PendingRemoteHangup"},
         NEW st \in {"PendingLocalHangup", "Disconnected"},
         NEW v, v = [w EXCEPT !.chan[c].state = st]
  PROVE  Good(v, F) /\ Sane(v)
<1>1. st \in ChannelStates \ {"none"} /\ w.chan[c].bound # 0
  BY GoodParts, Numbers DEF ChannelStates
<1>2. Good(v, F)
  BY <1>1, GoodStates
<1>3. Moves(w, v, c) /\ v.chan[c].state = st
  BY DEF Moves, Good, Manager, ChannelRecord
<1>4. w.ses[c].sig = c /\ w.chan[c].bound = c
        => w.ses[c].state \notin {"signaling", "invited"}
  BY DEF Sane, Sound, Reports
<1>5. st \notin {"none", "Idle", "PendingConnect", "PendingInvite", "PendingAnswer"}
  OBVIOUS
<1>6. Sane(v)
  BY <1>3, <1>4, <1>5, MovesSane
<1> QED
  BY <1>2, <1>6

\* BYE
LEMMA ServerByeInv ==
  ASSUME IInv, NEW c \in Sessions, ServerBye(c)
  PROVE  IInv'
<1>1. PICK p, q \in Pcs : p # q /\ Good(m, {p, q})
  BY RoomForTwo DEF IInv, TypeOK
<1> DEFINE v == [m EXCEPT !.chan[c].state = "PendingLocalHangup"]
<1>2. PICK sick \in BOOLEAN : Becomes(Hangup(v, sick))
  BY DEF ServerBye
<1>3. m.chan[c].state \in {"Idle", "Talking", "PendingRemoteHangup"} /\ Sane(m)
  BY DEF ServerBye, IInv
<1>4. v = [m EXCEPT !.chan[c].state = "PendingLocalHangup"]
  OBVIOUS
<1> HIDE DEF v
<1>5. Good(v, {p, q}) /\ Sane(v)
  BY <1>1, <1>3, <1>4, QuietSane
<1>6. Good(Hangup(v, sick), {p, q}) /\ Sane(Hangup(v, sick))
  BY <1>5, HangupGood, HangupSane
<1> QED
  BY <1>2, <1>6, BecomesInv

\* The reply to BYE
LEMMA ByeAnsweredInv ==
  ASSUME IInv, NEW c \in Sessions, ByeAnswered(c)
  PROVE  IInv'
<1>1. PICK p, q \in Pcs : p # q /\ Good(m, {p, q})
  BY RoomForTwo DEF IInv, TypeOK
<1> DEFINE v == [m EXCEPT !.chan[c].state = "Disconnected"]
<1>2. m.chan[c].state \in {"Idle", "Talking", "PendingRemoteHangup"} /\ Sane(m) /\ Becomes(v)
  BY DEF ByeAnswered, IInv
<1>3. v = [m EXCEPT !.chan[c].state = "Disconnected"]
  OBVIOUS
<1> HIDE DEF v
<1>4. Good(v, {p, q}) /\ Sane(v)
  BY <1>1, <1>2, <1>3, QuietSane
<1> QED
  BY <1>2, <1>4, BecomesInv

\* PC_BYE
LEMMA ServerPcByeInv ==
  ASSUME IInv, NEW c \in Sessions, ServerPcBye(c)
  PROVE  IInv'
<1>1. PICK p, q \in Pcs : p # q /\ Good(m, {p, q})
  BY RoomForTwo DEF IInv, TypeOK
<1> DEFINE w == Destroy(m, TRUE)
           v == [w EXCEPT !.chan[c].state = "Disconnected"]
<1>2. m.chan[c].state = "Idle" /\ Sane(m) /\ Becomes(v)
  BY DEF ServerPcBye, IInv
<1>3. Good(w, {p, q}) /\ Sane(w)
  BY <1>1, <1>2, DestroyGood, DestroySane
<1>4. w.chan[c].state \in {"Idle", "Talking", "PendingRemoteHangup"}
  <2>1. w = m \/ TornDown(m, w)
    BY <1>1, DestroyEffect
  <2>2. TornDown(m, w) => w.chan = m.chan \/ Silenced(m, w)
    BY DEF TornDown
  <2>3. Silenced(m, w) => w.chan[c] = m.chan[c] \/ w.chan[c].state = "PendingRemoteHangup"
    BY DEF Silenced
  <2> HIDE DEF w
  <2> QED
    BY <1>2, <2>1, <2>2, <2>3
<1>5. v = [w EXCEPT !.chan[c].state = "Disconnected"]
  OBVIOUS
<1> HIDE DEF w, v
<1>6. Good(v, {p, q}) /\ Sane(v)
  BY <1>3, <1>4, <1>5, QuietSane
<1> QED
  BY <1>2, <1>6, BecomesInv

-----------------------------------------------------------------------------
(* The invariant and what follows from it.                                 *)

\* A manager between two calls.
LEMMA InitInv ==
  ASSUME Init
  PROVE  IInv
<1>1. PICK isPPCEnabled, isAllowed, agent, inFlight, standby \in BOOLEAN :
        /\ ~(isPPCEnabled /\ isAllowed) /\ ~(inFlight /\ standby)
        /\ ~agent => inFlight /\ ~isAllowed
        /\ m = [enabled |-> isPPCEnabled, allowed |-> isAllowed, agent |-> agent,
                standby |-> standby, inFlight |-> inFlight, raced |-> {},
                requests |-> {}, inactive |-> FALSE,
                pc |-> 0, closed |-> {}, current |-> 0, token |-> 0, channel |-> 0,
                pending |-> 0, waiting |-> 0, suspended |-> 0,
                ses |-> [s \in Sessions |-> NoSession],
                chan |-> [s \in Sessions |-> NoChannel]]
  BY DEF Init
<1>2. TypeOK
  BY <1>1, Numbers, NewRecords DEF TypeOK, Manager, Overlaps
<1>3. /\ m.closed = {} /\ m.current = 0 /\ m.token = 0 /\ m.channel = 0 /\ m.pc = 0
      /\ m.pending = 0 /\ m.waiting = 0 /\ m.suspended = 0 /\ m.requests = {}
      /\ ~Persistent(m)
      /\ ~m.agent => ~m.allowed
  BY <1>1 DEF Persistent
<1>4. \A s \in Sessions :
        /\ m.ses[s].state = "none" /\ m.ses[s].sig = 0
        /\ m.chan[s].state = "none" /\ m.chan[s].bound = 0
        /\ s # 0
  BY <1>1, NewRecords, Numbers
<1> HIDE DEF Init
<1>5. Held(m) /\ Fresh(m) /\ Mutual(m) /\ Reports(m) /\ Settled(m)
  BY <1>3, <1>4 DEF Held, Fresh, Mutual, Reports, Settled
<1>6. Asleep(m) /\ Waits(m)
  BY <1>3, <1>4 DEF Asleep, Waits, Active
<1>7. Only(m) /\ Tokens(m) /\ NoRenewal(m) /\ OnTheManagers(m) /\ Negotiated(m)
  BY <1>3, <1>4 DEF Only, Tokens, NoRenewal, OnTheManagers, Negotiated, Active
<1>8. TalksOpen(m) /\ IdleIsKept(m) /\ PendingIsHeld(m) /\ Together(m) /\ InVain(m)
  BY <1>3, <1>4 DEF TalksOpen, IdleIsKept, PendingIsHeld, Together, InVain
<1>9. Bound(m)
  BY <1>4 DEF Bound
<1> QED
  BY <1>2, <1>3, <1>5, <1>6, <1>7, <1>8, <1>9 DEF IInv, Sane, Sound, Orderly

\* Whatever happens next.
LEMMA NextInv ==
  ASSUME IInv, [Next]_m
  PROVE  IInv'
<1>1. CASE Application
  BY <1>1, NewCallInv, ToggleOnInv, EndCallInv, ToggleOffInv, CloseManagerInv
     DEF Application
<1>2. CASE Background
  BY <1>2, IdleReadyInv, PersistentReadyInv, ActivatedInv, ActivatedInVainInv, RefreshTimerInv,
     InactivityTimerInv, AgentDataInv DEF Background
<1>3. ASSUME NEW s \in Sessions, Setup(s) PROVE IInv'
  BY <1>3, LocalDescriptionSetInv, SetupFailsInv, SignalingUpInv,
     RemoteDescriptionSetInv, RemoteDescriptionRejectedInv DEF Setup
<1>4. ASSUME NEW c \in Sessions, Server(c) PROVE IInv'
  BY <1>4, AnsweredInv, InviteRefusedInv, ReplyFailsInv, ServerByeInv, ByeAnsweredInv,
     ServerPcByeInv DEF Server
<1>5. CASE UNCHANGED m
  BY <1>5 DEF IInv, TypeOK
<1> QED
  BY <1>1, <1>2, <1>3, <1>4, <1>5, ChannelTimeoutInv DEF Next

\* The inductive invariant holds in every state the manager reaches.
THEOREM Invariance ==
  Spec => []IInv
<1>1. Init => IInv
  BY InitInv
<1>2. IInv /\ [Next]_m => IInv'
  BY NextInv
<1> QED
  BY <1>1, <1>2, PTL DEF Spec

\* The record keeps its type; in particular nothing but a connection is closed.
THEOREM TypeCorrect ==
  Spec => []TypeOK
<1>1. IInv => TypeOK
  BY DEF IInv
<1> QED
  BY <1>1, Invariance, PTL

\* As long as nothing has overlapped, not even a change of mode, whoever talks can
\* be hung up: the manager holds the session (rtc_peer_connection_manager.js,
\* hangup() and the handlers of a failure).
THEOREM ConversationIsHeld ==
  Spec => [](m.raced = {} => \A s \in Sessions : Talks(s) => m.current = s)
<1>1. IInv => (m.raced = {} => \A s \in Sessions : Talks(s) => m.current = s)
  BY DEF IInv, Sane, Orderly, Only, Talks, Active
<1> QED
  BY <1>1, Invariance, PTL

\* As long as nothing has overlapped, whoever talks does so over the open
\* connection its INVITE was about, however often the manager's connection and
\* channel have been replaced.
THEOREM ConversationOnNegotiated ==
  Spec => []TalksOnNegotiated
<1>1. IInv => TalksOnNegotiated
  BY DEF IInv, Sane, Orderly, Negotiated, TalksOpen, TalksOnNegotiated, Talks
<1> QED
  BY <1>1, Invariance, PTL

\* A connect() that waits for the promise of an earlier session waits for an
\* answer or a timeout that is still to come, with four exceptions: that session's
\* setup failed before its signaling did, it was never told of a handshake, its
\* INVITE was answered without an SDP, or it shares its channel.
THEOREM WaitIsAwaited ==
  Spec => []WaiterIsAwaited
<1>1. ASSUME IInv, m.waiting # 0
      PROVE  LET s == m.waiting IN
             \/ m.ses[s].state = "setup"
             \/ /\ m.ses[s].state \in {"signaling", "invited"}
                /\ Shares(s) \/ m.chan[s].state \in {"PendingConnect", "PendingAnswer"}
             \/ Abandoned(s) \/ Deaf(s) \/ Forsaken(s)
  <2> DEFINE s == m.waiting
  <2>1. s \in Sessions /\ m.ses[s].state \in SessionStates
    BY <1>1, Numbers DEF IInv, TypeOK, Manager, SessionRecord
  <2>2. m.ses[s].promise = "pending" /\ m.ses[s].state \notin {"none", "created"}
    BY <1>1 DEF IInv, Sane, Sound, Waits
  <2> HIDE DEF s
  <2>3. m.ses[s].state \notin {"accepted", "contact"}
    BY <1>1, <2>1, <2>2 DEF IInv, Sane, Sound, Settled
  <2>4. m.ses[s].state = "talking" => Deaf(s)
    BY <2>2 DEF Deaf, Talks
  <2>5. m.ses[s].state \in Ended => Abandoned(s)
    BY <2>2 DEF Abandoned
  <2>6. m.ses[s].state \in {"signaling", "invited"} =>
          Shares(s) \/ m.chan[s].state \in {"PendingConnect", "PendingAnswer"}
    BY <1>1, <2>1 DEF IInv, Sane, Sound, Reports, Shares
  <2>7. m.ses[s].state \in {"setup", "signaling", "invited", "forsaken", "talking"}
                             \union Ended
    BY <2>1, <2>2, <2>3 DEF SessionStates, Ended
  <2>8. \/ m.ses[s].state = "setup"
        \/ /\ m.ses[s].state \in {"signaling", "invited"}
           /\ Shares(s) \/ m.chan[s].state \in {"PendingConnect", "PendingAnswer"}
        \/ Abandoned(s) \/ Deaf(s) \/ Forsaken(s)
    BY <2>4, <2>5, <2>6, <2>7 DEF Forsaken
  <2> QED
    BY <2>8 DEF s
<1>2. IInv => WaiterIsAwaited
  BY <1>1 DEF WaiterIsAwaited
<1> QED
  BY <1>2, Invariance, PTL
=============================================================================
