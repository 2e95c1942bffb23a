--------------------------- MODULE IceRestartProofs ---------------------------
(***************************************************************************)
(* Machine-checked proofs about IceRestart, for any bounds on restarts,    *)
(* retries and orphaned timers.                                            *)
(***************************************************************************)
EXTENDS IceRestart, TLAPS

(***************************************************************************)
(* The strengthening.  A restart is at one place at a time: one promise is *)
(* in flight for it, or the substate that collects or invites is its own.  *)
(* Until it leaves that place it has not reported, and until its INVITE it *)
(* has neither invited nor retried.                                        *)
(***************************************************************************)
Holds(r) == restart = r /\ sub \in {"Collect", "Invite"}

\* Restart r has not sent its first INVITE.
Fresh(r) ==
  \/ r > started
  \/ promise[r] \in {"offer", "setLocal"}
  \/ restart = r /\ sub = "Collect"

OnePlace ==
  /\ restart <= started
  /\ \A r \in Restarts : (r > started \/ Holds(r)) => promise[r] = "none"

FreshIsUnused ==
  \A r \in Restarts :
    Fresh(r) => invites[r] = 0 /\ retries[r] = 0 /\ retryOrphans[r] = 0

OpenIsUnreported ==
  \A r \in Restarts : (r > started \/ Holds(r) \/ promise[r] # "none") => reports[r] = 0

\* Each INVITE after the first was, or will be, caused by a counted retry.
WithinBudget(r) ==
  /\ invites[r] + retryOrphans[r] <= 1 + retries[r]
  /\ "retry" \in timers /\ restart = r => invites[r] + retryOrphans[r] <= retries[r]

InviteBudget == \A r \in Restarts : WithinBudget(r)

TimerHasOwner ==
  /\ "retry" \in timers => sub = "Invite"
  /\ "loss" \in timers => sub = "Connected"

Progress ==
  /\ PlaceType
  /\ CountType
  /\ TimerHasOwner
  /\ OnePlace
  /\ FreshIsUnused
  /\ OpenIsUnreported
  /\ OneOutcome
  /\ InviteBudget

RestartInv ==
  /\ Progress
  /\ ChannelType
  /\ IceType
  /\ InviteIsDriven

USE RestartAssumption DEF Restarts, vars, substateVars, channelVars, retryVars,
                          lossVars, Talks, SetSubState, Settled

\* The restart that is next, while there is one.
LEMMA NextRestart ==
  ASSUME PlaceType, started < MaxRestarts
  PROVE  started + 1 \in Restarts
BY DEF PlaceType

\* Counting up keeps the type of a count per restart.
LEMMA CountUp ==
  ASSUME NEW f \in [Restarts -> Nat], NEW r \in Restarts
  PROVE  [f EXCEPT ![r] = @ + 1] \in [Restarts -> Nat]
OBVIOUS

\* A restart begins.
LEMMA Starting ==
  ASSUME Progress, StartRestart,
         UNCHANGED <<invites, retries, retryOrphans, reports>>
  PROVE  Progress'
<1>1. PlaceType'
  BY NextRestart DEF Progress, PlaceType, StartRestart
<1>2. CountType'
  BY NextRestart DEF Progress, CountType, StartRestart
<1>3. TimerHasOwner'
  BY NextRestart DEF Progress, TimerHasOwner, StartRestart
<1>4. OnePlace'
  BY NextRestart DEF Progress, PlaceType, OnePlace, Holds, StartRestart
<1>5. FreshIsUnused'
  BY NextRestart DEF Progress, PlaceType, CountType, OnePlace, FreshIsUnused, Fresh,
         Holds, StartRestart
<1>6. OpenIsUnreported'
  BY NextRestart DEF Progress, PlaceType, CountType, OnePlace, OpenIsUnreported,
         Holds, StartRestart
<1>7. OneOutcome'
  BY NextRestart DEF Progress, CountType, PlaceType, OpenIsUnreported, OneOutcome,
         Holds, StartRestart
<1>8. InviteBudget'
  BY NextRestart DEF Progress, PlaceType, CountType, OnePlace, FreshIsUnused, Fresh,
         TimerHasOwner, InviteBudget, WithinBudget, Holds, StartRestart
<1> QED
  BY <1>1, <1>2, <1>3, <1>4, <1>5, <1>6, <1>7, <1>8 DEF Progress

\* The session goes back to ConnectedSubstate, or ends.
LEMMA Idling ==
  ASSUME Progress, SetSubState("Connected", 0),
         UNCHANGED <<started, promise>>,
         UNCHANGED <<invites, retries, retryOrphans, reports>>
  PROVE  Progress'
<1>1. PlaceType'
  BY DEF Progress, PlaceType
<1>2. CountType'
  BY DEF Progress, CountType
<1>3. TimerHasOwner'
  BY DEF Progress, TimerHasOwner
<1>4. OnePlace'
  BY DEF Progress, PlaceType, OnePlace, Holds
<1>5. FreshIsUnused'
  BY DEF Progress, PlaceType, CountType, OnePlace, FreshIsUnused, Fresh, Holds
<1>6. OpenIsUnreported'
  BY DEF Progress, PlaceType, CountType, OnePlace, OpenIsUnreported, Holds
<1>7. OneOutcome'
  BY DEF Progress, CountType, PlaceType, OpenIsUnreported, OneOutcome, Holds
<1>8. InviteBudget'
  BY DEF Progress, PlaceType, CountType, OnePlace, FreshIsUnused, Fresh,
         TimerHasOwner, InviteBudget, WithinBudget, Holds
<1> QED
  BY <1>1, <1>2, <1>3, <1>4, <1>5, <1>6, <1>7, <1>8 DEF Progress

\* The timer of ConnectedSubstate is set, or found useless.
LEMMA Waiting ==
  ASSUME Progress, "retry" \notin timers',
         timers' \subseteq {"loss"}, sub = "Connected",
         UNCHANGED <<sub, restart, started, promise>>,
         UNCHANGED <<invites, retries, retryOrphans, reports>>
  PROVE  Progress'
<1>1. PlaceType'
  BY DEF Progress, PlaceType
<1>2. CountType'
  BY DEF Progress, CountType
<1>3. TimerHasOwner'
  BY DEF Progress, TimerHasOwner
<1>4. OnePlace'
  BY DEF Progress, PlaceType, OnePlace, Holds
<1>5. FreshIsUnused'
  BY DEF Progress, PlaceType, CountType, OnePlace, FreshIsUnused, Fresh, Holds
<1>6. OpenIsUnreported'
  BY DEF Progress, PlaceType, CountType, OnePlace, OpenIsUnreported, Holds
<1>7. OneOutcome'
  BY DEF Progress, CountType, PlaceType, OpenIsUnreported, OneOutcome, Holds
<1>8. InviteBudget'
  BY DEF Progress, PlaceType, CountType, OnePlace, FreshIsUnused, Fresh,
         TimerHasOwner, InviteBudget, WithinBudget, Holds
<1> QED
  BY <1>1, <1>2, <1>3, <1>4, <1>5, <1>6, <1>7, <1>8 DEF Progress

\* A promise fails or is the last one: its restart reports.
LEMMA Settling ==
  ASSUME Progress, NEW r \in Restarts,
         promise[r] # "none",
         Settled(r),
         Report(r),
         \/ SetSubState("Connected", 0)
         \/ UNCHANGED <<sub, restart, timers>>,
         UNCHANGED <<started, invites, retries, retryOrphans>>
  PROVE  Progress'
<1>1. PlaceType'
  <2>1. PlaceType
    BY DEF Progress
  <2>2. CASE SetSubState("Connected", 0)
    BY <2>1, <2>2 DEF PlaceType
  <2>3. CASE UNCHANGED <<sub, restart, timers>>
    BY <2>1, <2>3 DEF PlaceType
  <2> QED
    BY <2>2, <2>3
<1>2. CountType'
  BY CountUp DEF Progress, CountType, Report
<1>3. TimerHasOwner'
  BY DEF Progress, TimerHasOwner, Report
<1>4. OnePlace'
  BY DEF Progress, PlaceType, OnePlace, Holds, Report
<1>5. FreshIsUnused'
  BY DEF Progress, PlaceType, CountType, OnePlace, FreshIsUnused, Fresh, Holds, Report
<1>6. OpenIsUnreported'
  BY DEF Progress, PlaceType, CountType, OnePlace, OpenIsUnreported, Holds, Report
<1>7. OneOutcome'
  <2>1. CountType /\ OneOutcome /\ reports[r] = 0
    BY DEF Progress, OpenIsUnreported
  <2> QED
    BY <2>1 DEF CountType, OneOutcome, Report
<1>8. InviteBudget'
  BY DEF Progress, PlaceType, CountType, OnePlace, FreshIsUnused, Fresh,
         TimerHasOwner, InviteBudget, WithinBudget, Holds, Report
<1> QED
  BY <1>1, <1>2, <1>3, <1>4, <1>5, <1>6, <1>7, <1>8 DEF Progress

\* The substate itself reports.
LEMMA GivingUp ==
  ASSUME Progress, Holds(restart),
         Report(restart),
         SetSubState("Connected", 0),
         UNCHANGED <<started, promise, invites, retries, retryOrphans>>
  PROVE  Progress'
<1>1. PlaceType'
  BY DEF Progress, PlaceType, Report
<1>2. CountType'
  BY CountUp DEF Progress, CountType, Report
<1>3. TimerHasOwner'
  BY DEF Progress, TimerHasOwner, Report
<1>4. OnePlace'
  BY DEF Progress, PlaceType, OnePlace, Holds, Report
<1>5. FreshIsUnused'
  BY DEF Progress, PlaceType, CountType, OnePlace, FreshIsUnused, Fresh, Holds, Report
<1>6. OpenIsUnreported'
  BY DEF Progress, PlaceType, CountType, OnePlace, OpenIsUnreported, Holds, Report
<1>7. OneOutcome'
  BY DEF Progress, CountType, PlaceType, OpenIsUnreported, OneOutcome, Holds, Report
<1>8. InviteBudget'
  BY DEF Progress, PlaceType, CountType, OnePlace, FreshIsUnused, Fresh,
         TimerHasOwner, InviteBudget, WithinBudget, Holds, Report
<1> QED
  BY <1>1, <1>2, <1>3, <1>4, <1>5, <1>6, <1>7, <1>8 DEF Progress

\* The offer becomes the local description.
LEMMA Offering ==
  ASSUME Progress, NEW r \in Restarts,
         promise[r] = "offer",
         promise' = [promise EXCEPT ![r] = "setLocal"],
         SetSubState("SetLocal", r),
         UNCHANGED started,
         UNCHANGED <<invites, retries, retryOrphans, reports>>
  PROVE  Progress'
<1>1. PlaceType'
  BY DEF Progress, PlaceType
<1>2. CountType'
  BY DEF Progress, CountType
<1>3. TimerHasOwner'
  BY DEF Progress, TimerHasOwner
<1>4. OnePlace'
  BY DEF Progress, PlaceType, OnePlace, Holds
<1>5. FreshIsUnused'
  BY DEF Progress, PlaceType, CountType, OnePlace, FreshIsUnused, Fresh, Holds
<1>6. OpenIsUnreported'
  BY DEF Progress, PlaceType, CountType, OnePlace, OpenIsUnreported, Holds
<1>7. OneOutcome'
  BY DEF Progress, CountType, PlaceType, OpenIsUnreported, OneOutcome, Holds
<1>8. InviteBudget'
  BY DEF Progress, PlaceType, CountType, OnePlace, FreshIsUnused, Fresh,
         TimerHasOwner, InviteBudget, WithinBudget, Holds
<1> QED
  BY <1>1, <1>2, <1>3, <1>4, <1>5, <1>6, <1>7, <1>8 DEF Progress

\* Candidates are collected.
LEMMA Collecting ==
  ASSUME Progress, NEW r \in Restarts,
         promise[r] = "setLocal",
         Settled(r),
         SetSubState("Collect", r),
         UNCHANGED started,
         UNCHANGED <<invites, retries, retryOrphans, reports>>
  PROVE  Progress'
<1>1. PlaceType'
  BY DEF Progress, PlaceType
<1>2. CountType'
  BY DEF Progress, CountType
<1>3. TimerHasOwner'
  BY DEF Progress, TimerHasOwner
<1>4. OnePlace'
  BY DEF Progress, PlaceType, OnePlace, Holds
<1>5. FreshIsUnused'
  BY DEF Progress, PlaceType, CountType, OnePlace, FreshIsUnused, Fresh, Holds
<1>6. OpenIsUnreported'
  BY DEF Progress, PlaceType, CountType, OnePlace, OpenIsUnreported, Holds
<1>7. OneOutcome'
  BY DEF Progress, CountType, PlaceType, OpenIsUnreported, OneOutcome, Holds
<1>8. InviteBudget'
  BY DEF Progress, PlaceType, CountType, OnePlace, FreshIsUnused, Fresh,
         TimerHasOwner, InviteBudget, WithinBudget, Holds
<1> QED
  BY <1>1, <1>2, <1>3, <1>4, <1>5, <1>6, <1>7, <1>8 DEF Progress

\* The first INVITE is sent.
LEMMA Inviting ==
  ASSUME Progress, sub = "Collect",
         SetSubState("Invite", restart),
         invites' = [invites EXCEPT ![restart] = @ + 1],
         UNCHANGED <<started, promise, retries, retryOrphans, reports>>
  PROVE  Progress'
<1>1. PlaceType'
  BY DEF Progress, PlaceType
<1>2. CountType'
  BY CountUp DEF Progress, CountType
<1>3. TimerHasOwner'
  BY DEF Progress, TimerHasOwner
<1>4. OnePlace'
  BY DEF Progress, PlaceType, OnePlace, Holds
<1>5. FreshIsUnused'
  BY DEF Progress, PlaceType, CountType, OnePlace, FreshIsUnused, Fresh, Holds
<1>6. OpenIsUnreported'
  BY DEF Progress, PlaceType, CountType, OnePlace, OpenIsUnreported, Holds
<1>7. OneOutcome'
  BY DEF Progress, CountType, PlaceType, OpenIsUnreported, OneOutcome, Holds
<1>8. InviteBudget'
  <2>1. PlaceType /\ CountType /\ InviteBudget /\ FreshIsUnused
    BY DEF Progress
  <2>2. restart \in Restarts
    BY <2>1 DEF PlaceType, Progress, TimerHasOwner
  <2>3. WithinBudget(restart)'
    BY <2>1, <2>2 DEF PlaceType, CountType, InviteBudget, WithinBudget,
           FreshIsUnused, Fresh
  <2>4. ASSUME NEW s \in Restarts, s # restart
        PROVE  WithinBudget(s)'
    BY <2>1, <2>2, <2>4 DEF PlaceType, CountType, InviteBudget, WithinBudget
  <2> QED
    BY <2>3, <2>4 DEF InviteBudget
<1> QED
  BY <1>1, <1>2, <1>3, <1>4, <1>5, <1>6, <1>7, <1>8 DEF Progress

\* The answer becomes the remote description.
LEMMA Accepting ==
  ASSUME Progress, sub = "Invite",
         SetSubState("Accept", restart),
         promise' = [promise EXCEPT ![restart] = "setRemote"],
         UNCHANGED started,
         UNCHANGED <<invites, retries, retryOrphans, reports>>
  PROVE  Progress'
<1>1. PlaceType'
  BY DEF Progress, PlaceType
<1>2. CountType'
  BY DEF Progress, CountType
<1>3. TimerHasOwner'
  BY DEF Progress, TimerHasOwner
<1>4. OnePlace'
  BY DEF Progress, PlaceType, OnePlace, Holds
<1>5. FreshIsUnused'
  BY DEF Progress, PlaceType, CountType, OnePlace, FreshIsUnused, Fresh, Holds
<1>6. OpenIsUnreported'
  BY DEF Progress, PlaceType, CountType, OnePlace, OpenIsUnreported, Holds
<1>7. OneOutcome'
  BY DEF Progress, CountType, PlaceType, OpenIsUnreported, OneOutcome, Holds
<1>8. InviteBudget'
  BY DEF Progress, PlaceType, CountType, OnePlace, FreshIsUnused, Fresh,
         TimerHasOwner, InviteBudget, WithinBudget, Holds
<1> QED
  BY <1>1, <1>2, <1>3, <1>4, <1>5, <1>6, <1>7, <1>8 DEF Progress

\* A retry is counted and its timer set, or set and cleared with the substate.
LEMMA Retrying ==
  ASSUME Progress, sub = "Invite",
         retries[restart] < MaxRetries,
         retries' = [retries EXCEPT ![restart] = @ + 1],
         retryOrphans' = [retryOrphans EXCEPT
                           ![restart] = IF "retry" \in timers THEN @ + 1 ELSE @],
         \/ UNCHANGED <<sub, restart>> /\ timers' = timers \union {"retry"}
         \/ SetSubState("Connected", 0),
         UNCHANGED <<started, promise, invites, reports>>
  PROVE  Progress'
<1>1. PlaceType'
  <2>1. PlaceType
    BY DEF Progress
  <2>2. CASE UNCHANGED <<sub, restart>> /\ timers' = timers \union {"retry"}
    BY <2>1, <2>2 DEF PlaceType
  <2>3. CASE SetSubState("Connected", 0)
    BY <2>1, <2>3 DEF PlaceType
  <2> QED
    BY <2>2, <2>3
<1>2. CountType'
  <2>1. PlaceType /\ CountType
    BY DEF Progress
  <2>2. restart \in Restarts /\ retries[restart] + 1 \in 0..MaxRetries
    BY <2>1 DEF PlaceType, CountType
  <2>3. (retries \in [Restarts -> 0..MaxRetries])'
    BY <2>1, <2>2 DEF CountType
  <2>4. CASE "retry" \in timers
    BY <2>1, <2>2, <2>3, <2>4, CountUp DEF CountType
  <2>5. CASE "retry" \notin timers
    <3>1. retryOrphans' = retryOrphans
      BY <2>1, <2>5 DEF CountType
    <3> QED
      BY <2>1, <2>3, <3>1 DEF CountType
  <2> QED
    BY <2>4, <2>5
<1>3. TimerHasOwner'
  BY DEF Progress, TimerHasOwner
<1>4. OnePlace'
  BY DEF Progress, PlaceType, OnePlace, Holds
<1>5. FreshIsUnused'
  <2>1. PlaceType /\ CountType
    BY DEF Progress
  <2>2. PICK r \in Restarts : r = restart
    BY <2>1 DEF PlaceType
  <2>3. ~Fresh(r)
    BY <2>1, <2>2 DEF PlaceType, Progress, OnePlace, Holds, Fresh
  <2>4. ASSUME NEW s \in Restarts, Fresh(s)'
        PROVE  s # r /\ Fresh(s)
    BY <2>1, <2>2, <2>3, <2>4 DEF Fresh
  <2> QED
    BY <2>1, <2>2, <2>3, <2>4 DEF Progress, CountType, FreshIsUnused
<1>6. OpenIsUnreported'
  BY DEF Progress, PlaceType, CountType, OnePlace, OpenIsUnreported, Holds
<1>7. OneOutcome'
  BY DEF Progress, CountType, PlaceType, OpenIsUnreported, OneOutcome, Holds
<1>8. InviteBudget'
  <2>1. PlaceType /\ CountType /\ InviteBudget
    BY DEF Progress
  <2>2. PICK r \in Restarts : r = restart
    BY <2>1 DEF PlaceType
  <2>3. WithinBudget(r)'
    <3>0. invites[r] \in Nat /\ retryOrphans[r] \in Nat /\ retries[r] \in Nat
      BY <2>1 DEF CountType
    <3>1. WithinBudget(r) /\ retries'[r] = retries[r] + 1 /\ invites'[r] = invites[r]
      BY <2>1, <2>2 DEF CountType, InviteBudget
    <3>2. CASE "retry" \in timers
      <4>1. retryOrphans'[r] = retryOrphans[r] + 1
        BY <2>1, <2>2, <3>2 DEF CountType
      <4> QED
        BY <2>2, <3>0, <3>1, <3>2, <4>1 DEF WithinBudget
    <3>3. CASE "retry" \notin timers
      <4>1. retryOrphans'[r] = retryOrphans[r]
        BY <2>1, <2>2, <3>3 DEF CountType
      <4> QED
        BY <2>2, <3>0, <3>1, <3>3, <4>1 DEF WithinBudget
    <3> QED
      BY <3>2, <3>3
  <2>4. ASSUME NEW s \in Restarts, s # r
        PROVE  WithinBudget(s)'
    BY <2>1, <2>2, <2>4 DEF PlaceType, CountType, InviteBudget, WithinBudget
  <2> QED
    BY <2>3, <2>4 DEF InviteBudget
<1> QED
  BY <1>1, <1>2, <1>3, <1>4, <1>5, <1>6, <1>7, <1>8 DEF Progress

\* The timer of a retry fires.
LEMMA Reinviting ==
  ASSUME Progress, "retry" \in timers,
         timers' = {},
         invites' = [invites EXCEPT ![restart] = @ + 1],
         UNCHANGED <<sub, restart, started, promise, retries, retryOrphans, reports>>
  PROVE  Progress'
<1>1. PlaceType'
  BY DEF Progress, PlaceType
<1>2. CountType'
  BY CountUp DEF Progress, CountType
<1>3. TimerHasOwner'
  BY DEF Progress, TimerHasOwner
<1>4. OnePlace'
  BY DEF Progress, PlaceType, OnePlace, Holds
<1>5. FreshIsUnused'
  <2>1. PlaceType /\ CountType /\ sub = "Invite"
    BY DEF Progress, TimerHasOwner
  <2>2. restart \in Restarts /\ ~Fresh(restart)
    BY <2>1 DEF PlaceType, Progress, OnePlace, Holds, Fresh
  <2>3. ASSUME NEW s \in Restarts, Fresh(s)'
        PROVE  s # restart /\ Fresh(s)
    BY <2>1, <2>2, <2>3 DEF Fresh
  <2> QED
    BY <2>1, <2>2, <2>3 DEF Progress, CountType, FreshIsUnused
<1>6. OpenIsUnreported'
  BY DEF Progress, PlaceType, CountType, OnePlace, OpenIsUnreported, Holds
<1>7. OneOutcome'
  BY DEF Progress, CountType, PlaceType, OpenIsUnreported, OneOutcome, Holds
<1>8. InviteBudget'
  <2>1. PlaceType /\ CountType /\ InviteBudget
    BY DEF Progress
  <2>2. restart \in Restarts
    BY <2>1 DEF PlaceType, Progress, TimerHasOwner
  <2>3. WithinBudget(restart)'
    BY <2>1, <2>2 DEF PlaceType, CountType, InviteBudget, WithinBudget
  <2>4. ASSUME NEW s \in Restarts, s # restart
        PROVE  WithinBudget(s)'
    BY <2>1, <2>2, <2>4 DEF PlaceType, CountType, InviteBudget, WithinBudget
  <2> QED
    BY <2>3, <2>4 DEF InviteBudget
<1> QED
  BY <1>1, <1>2, <1>3, <1>4, <1>5, <1>6, <1>7, <1>8 DEF Progress

\* A retry timer without an id fires.
LEMMA ReinvitingLate ==
  ASSUME Progress, NEW r \in Restarts,
         retryOrphans[r] > 0,
         retryOrphans' = [retryOrphans EXCEPT ![r] = @ - 1],
         invites' = [invites EXCEPT ![r] = @ + 1],
         UNCHANGED <<sub, restart, timers, started, promise, retries, reports>>
  PROVE  Progress'
<1>1. PlaceType'
  BY DEF Progress, PlaceType
<1>2. CountType'
  <2>1. CountType
    BY DEF Progress
  <2>2. retryOrphans[r] - 1 \in Nat
    BY <2>1 DEF CountType
  <2>3. (retryOrphans \in [Restarts -> Nat])'
    BY <2>1, <2>2 DEF CountType
  <2> QED
    BY <2>1, <2>3, CountUp DEF CountType
<1>3. TimerHasOwner'
  BY DEF Progress, TimerHasOwner
<1>4. OnePlace'
  BY DEF Progress, PlaceType, OnePlace, Holds
<1>5. FreshIsUnused'
  BY DEF Progress, PlaceType, CountType, OnePlace, FreshIsUnused, Fresh, Holds
<1>6. OpenIsUnreported'
  BY DEF Progress, PlaceType, CountType, OnePlace, OpenIsUnreported, Holds
<1>7. OneOutcome'
  BY DEF Progress, CountType, PlaceType, OpenIsUnreported, OneOutcome, Holds
<1>8. InviteBudget'
  <2>1. PlaceType /\ CountType /\ InviteBudget
    BY DEF Progress
  <2>2. r \in Restarts
    BY <2>1 DEF PlaceType
  <2>3. WithinBudget(r)'
    <3>0. invites[r] \in Nat /\ retryOrphans[r] \in Nat /\ retries[r] \in Nat
      BY <2>1 DEF CountType
    <3>1. invites'[r] = invites[r] + 1 /\ retryOrphans'[r] = retryOrphans[r] - 1
      BY <2>1 DEF CountType
    <3> QED
      BY <2>1, <3>0, <3>1 DEF InviteBudget, WithinBudget
  <2>4. ASSUME NEW s \in Restarts, s # r
        PROVE  WithinBudget(s)'
    BY <2>1, <2>2, <2>4 DEF PlaceType, CountType, InviteBudget, WithinBudget
  <2> QED
    BY <2>3, <2>4 DEF InviteBudget
<1> QED
  BY <1>1, <1>2, <1>3, <1>4, <1>5, <1>6, <1>7, <1>8 DEF Progress

\* Nothing that concerns a restart happens.
LEMMA Still ==
  ASSUME Progress,
         UNCHANGED <<sub, restart, timers, started, promise, invites, retries,
                     retryOrphans, reports>>
  PROVE  Progress'
BY DEF Progress, PlaceType, CountType, TimerHasOwner, OnePlace, FreshIsUnused, Fresh,
       OpenIsUnreported, OneOutcome, InviteBudget, WithinBudget, Holds

-----------------------------------------------------------------------------
(* One lemma for each action: its kind of progress, and the channels.     *)

LEMMA IceLostKeeps ==
  ASSUME RestartInv, IceLost
  PROVE  RestartInv'
<1>1. Progress'
  <2>1. CASE sub = "Connected"
    BY <2>1, Waiting DEF RestartInv, IceLost, Progress, TimerHasOwner
  <2>2. CASE sub # "Connected"
    BY <2>2, Still DEF RestartInv, IceLost, Progress, TimerHasOwner
  <2> QED
    BY <2>1, <2>2
<1>2. ChannelType'
  BY DEF RestartInv, ChannelType, IceLost
<1>3. IceType'
  BY DEF RestartInv, IceType, IceLost
<1>4. InviteIsDriven'
  BY DEF RestartInv, InviteIsDriven, Forsaken, IceLost
<1> QED
  BY <1>1, <1>2, <1>3, <1>4 DEF RestartInv

LEMMA IceRecoversKeeps ==
  ASSUME RestartInv, IceRecovers
  PROVE  RestartInv'
<1>1. Progress'
  BY Still DEF RestartInv, IceRecovers
<1>2. ChannelType'
  BY DEF RestartInv, ChannelType, IceRecovers
<1>3. IceType'
  BY DEF RestartInv, IceType, IceRecovers
<1>4. InviteIsDriven'
  BY DEF RestartInv, InviteIsDriven, Forsaken, IceRecovers
<1> QED
  BY <1>1, <1>2, <1>3, <1>4 DEF RestartInv

LEMMA LossTimerFiresKeeps ==
  ASSUME RestartInv, LossTimerFires
  PROVE  RestartInv'
<1>1. Progress'
  <2>1. CASE Talks /\ iceLost
    BY <2>1, Starting DEF RestartInv, LossTimerFires, LossChecked, Progress,
           TimerHasOwner
  <2>2. CASE ~(Talks /\ iceLost)
    BY <2>2, Waiting DEF RestartInv, LossTimerFires, LossChecked, Progress,
           TimerHasOwner
  <2> QED
    BY <2>1, <2>2
<1>2. ChannelType'
  BY DEF RestartInv, ChannelType, LossTimerFires, LossChecked
<1>3. IceType'
  BY DEF RestartInv, IceType, LossTimerFires
<1>4. InviteIsDriven'
  BY DEF RestartInv, InviteIsDriven, LossTimerFires, LossChecked, StartRestart,
         Progress, TimerHasOwner
<1> QED
  BY <1>1, <1>2, <1>3, <1>4 DEF RestartInv

LEMMA LossOrphanFiresKeeps ==
  ASSUME RestartInv, LossOrphanFires
  PROVE  RestartInv'
<1>1. Progress'
  <2>1. CASE Talks /\ iceLost
    BY <2>1, Starting DEF RestartInv, LossOrphanFires
  <2>2. CASE ~(Talks /\ iceLost)
    BY <2>2, Still DEF RestartInv, LossOrphanFires
  <2> QED
    BY <2>1, <2>2
<1>2. ChannelType'
  BY DEF RestartInv, ChannelType, LossOrphanFires
<1>3. IceType'
  BY DEF RestartInv, IceType, LossOrphanFires
<1>4. InviteIsDriven'
  BY DEF RestartInv, InviteIsDriven, Forsaken, LossOrphanFires, StartRestart
<1> QED
  BY <1>1, <1>2, <1>3, <1>4 DEF RestartInv

LEMMA OfferCreatedKeeps ==
  ASSUME RestartInv, NEW r \in Restarts, OfferCreated(r)
  PROVE  RestartInv'
<1>1. Progress'
  BY Offering DEF RestartInv, OfferCreated
<1>2. ChannelType'
  BY DEF RestartInv, ChannelType, OfferCreated
<1>3. IceType'
  BY DEF RestartInv, IceType, OfferCreated
<1>4. InviteIsDriven'
  BY DEF RestartInv, InviteIsDriven, OfferCreated
<1> QED
  BY <1>1, <1>2, <1>3, <1>4 DEF RestartInv

LEMMA OfferFailsKeeps ==
  ASSUME RestartInv, NEW r \in Restarts, OfferFails(r)
  PROVE  RestartInv'
<1>1. Progress'
  BY Settling DEF RestartInv, OfferFails, Finish
<1>2. ChannelType'
  BY DEF RestartInv, ChannelType, OfferFails, Finish
<1>3. IceType'
  BY DEF RestartInv, IceType, OfferFails
<1>4. InviteIsDriven'
  BY DEF RestartInv, InviteIsDriven, OfferFails, Finish
<1> QED
  BY <1>1, <1>2, <1>3, <1>4 DEF RestartInv

LEMMA LocalDescriptionSetKeeps ==
  ASSUME RestartInv, NEW r \in Restarts, LocalDescriptionSet(r)
  PROVE  RestartInv'
<1>1. Progress'
  BY Collecting DEF RestartInv, LocalDescriptionSet
<1>2. ChannelType'
  BY DEF RestartInv, ChannelType, LocalDescriptionSet
<1>3. IceType'
  BY DEF RestartInv, IceType, LocalDescriptionSet
<1>4. InviteIsDriven'
  BY DEF RestartInv, InviteIsDriven, LocalDescriptionSet
<1> QED
  BY <1>1, <1>2, <1>3, <1>4 DEF RestartInv

LEMMA DescriptionFailsKeeps ==
  ASSUME RestartInv, NEW kind \in {"setLocal", "setRemote"},
         NEW r \in Restarts, DescriptionFails(kind, r)
  PROVE  RestartInv'
<1>1. Progress'
  BY Settling DEF RestartInv, DescriptionFails, Finish
<1>2. ChannelType'
  BY DEF RestartInv, ChannelType, DescriptionFails, Finish
<1>3. IceType'
  BY DEF RestartInv, IceType, DescriptionFails
<1>4. InviteIsDriven'
  BY DEF RestartInv, InviteIsDriven, DescriptionFails, Finish
<1> QED
  BY <1>1, <1>2, <1>3, <1>4 DEF RestartInv

LEMMA RemoteDescriptionSetKeeps ==
  ASSUME RestartInv, NEW r \in Restarts, RemoteDescriptionSet(r)
  PROVE  RestartInv'
<1>1. Progress'
  BY Settling DEF RestartInv, RemoteDescriptionSet, Finish
<1>2. ChannelType'
  BY DEF RestartInv, ChannelType, RemoteDescriptionSet, Finish
<1>3. IceType'
  BY DEF RestartInv, IceType, RemoteDescriptionSet
<1>4. InviteIsDriven'
  BY DEF RestartInv, InviteIsDriven, RemoteDescriptionSet, Finish
<1> QED
  BY <1>1, <1>2, <1>3, <1>4 DEF RestartInv

\* A new channel takes the listener over.
LEMMA InvitingChannel ==
  ASSUME ChannelType, NEW r, AttemptInvite(r), UNCHANGED <<session, goodbye>>
  PROVE  ChannelType'
<1>1. (sdpless \in BOOLEAN)'
  BY Zenon DEF AttemptInvite
<1> QED
  BY <1>1 DEF ChannelType, AttemptInvite

LEMMA IceCandidateKeeps ==
  ASSUME RestartInv, NEW yes \in BOOLEAN, IceCandidate(yes)
  PROVE  RestartInv'
<1>1. Progress'
  <2>1. CASE yes
    BY <2>1, Inviting DEF RestartInv, IceCandidate, EnterInvite, AttemptInvite
  <2>2. CASE ~yes
    BY <2>2, Still DEF RestartInv, IceCandidate, EnterInvite, AttemptInvite
  <2> QED
    BY <2>1, <2>2
<1>2. ChannelType'
  BY InvitingChannel DEF RestartInv, ChannelType, IceCandidate, EnterInvite
<1>3. IceType'
  BY DEF RestartInv, IceType, IceCandidate
<1>4. InviteIsDriven'
  BY DEF RestartInv, InviteIsDriven, IceCandidate, EnterInvite, AttemptInvite
<1> QED
  BY <1>1, <1>2, <1>3, <1>4 DEF RestartInv

LEMMA CollectionEndsKeeps ==
  ASSUME RestartInv, CollectionEnds
  PROVE  RestartInv'
<1>1. Progress'
  <2>1. CASE hasCandidate
    BY <2>1, Inviting DEF RestartInv, CollectionEnds, EnterInvite, AttemptInvite,
           Finish, Holds
  <2>2. CASE ~hasCandidate
    BY <2>2, GivingUp DEF RestartInv, CollectionEnds, EnterInvite, AttemptInvite,
           Finish, Holds
  <2> QED
    BY <2>1, <2>2
<1>2. ChannelType'
  BY InvitingChannel DEF RestartInv, ChannelType, CollectionEnds, EnterInvite, Finish
<1>3. IceType'
  BY DEF RestartInv, IceType, CollectionEnds
<1>4. InviteIsDriven'
  BY DEF RestartInv, InviteIsDriven, CollectionEnds, EnterInvite, AttemptInvite, Finish
<1> QED
  BY <1>1, <1>2, <1>3, <1>4 DEF RestartInv

LEMMA RetryTimerFiresKeeps ==
  ASSUME RestartInv, RetryTimerFires
  PROVE  RestartInv'
<1>1. Progress'
  BY Reinviting DEF RestartInv, RetryTimerFires, AttemptInvite
<1>2. ChannelType'
  BY InvitingChannel DEF RestartInv, RetryTimerFires
<1>3. IceType'
  BY DEF RestartInv, IceType, RetryTimerFires
<1>4. InviteIsDriven'
  BY DEF RestartInv, InviteIsDriven, RetryTimerFires, AttemptInvite
<1> QED
  BY <1>1, <1>2, <1>3, <1>4 DEF RestartInv

LEMMA RetryOrphanFiresKeeps ==
  ASSUME RestartInv, NEW r \in Restarts, RetryOrphanFires(r)
  PROVE  RestartInv'
<1>1. Progress'
  BY ReinvitingLate DEF RestartInv, RetryOrphanFires, AttemptInvite
<1>2. ChannelType'
  BY InvitingChannel DEF RestartInv, RetryOrphanFires
<1>3. IceType'
  BY DEF RestartInv, IceType, RetryOrphanFires
<1>4. InviteIsDriven'
  BY DEF RestartInv, InviteIsDriven, RetryOrphanFires, AttemptInvite
<1> QED
  BY <1>1, <1>2, <1>3, <1>4 DEF RestartInv

LEMMA InviteAnsweredKeeps ==
  ASSUME RestartInv, NEW answer \in Answers, InviteAnswered(answer)
  PROVE  RestartInv'
<1>1. Progress'
  <2>1. CASE Talks /\ sub = "Invite" /\ answer = "usable"
    BY <2>1, Accepting DEF RestartInv, InviteAnswered, Finish, Holds
  <2>2. CASE Talks /\ sub = "Invite" /\ answer = "unusable"
    BY <2>2, GivingUp DEF RestartInv, InviteAnswered, Finish, Holds
  <2>3. CASE ~(Talks /\ sub = "Invite") \/ answer = "withoutSdp"
    BY <2>3, Still DEF RestartInv, InviteAnswered, Finish, Holds
  <2> QED
    BY <2>1, <2>2, <2>3 DEF Answers
<1>2. ChannelType'
  <2>1. (sdpless \in BOOLEAN)'
    BY Zenon DEF InviteAnswered
  <2> QED
    BY <2>1 DEF RestartInv, ChannelType, InviteAnswered, Finish
<1>3. IceType'
  BY DEF RestartInv, IceType, InviteAnswered
<1>4. InviteIsDriven'
  <2>1. CASE answer = "withoutSdp"
    BY <2>1 DEF InviteIsDriven, Forsaken, InviteAnswered
  <2>2. CASE answer # "withoutSdp"
    BY <2>2 DEF Answers, InviteIsDriven, InviteAnswered, Finish
  <2> QED
    BY <2>1, <2>2
<1> QED
  BY <1>1, <1>2, <1>3, <1>4 DEF RestartInv

LEMMA ServerByeKeeps ==
  ASSUME RestartInv, ServerBye
  PROVE  RestartInv'
<1>1. Progress'
  BY Idling DEF RestartInv, ServerBye, End
<1>2. ChannelType'
  BY DEF RestartInv, ChannelType, ServerBye, End
<1>3. IceType'
  BY DEF RestartInv, IceType, ServerBye
<1>4. InviteIsDriven'
  BY DEF RestartInv, InviteIsDriven, ServerBye, End
<1> QED
  BY <1>1, <1>2, <1>3, <1>4 DEF RestartInv

\* A failure that the end of the session causes.
LEMMA LastFailureKeeps ==
  ASSUME Progress, LastFailure, SetSubState("Connected", 0),
         UNCHANGED <<started, promise, invites>>
  PROVE  Progress'
<1>1. CASE sub = "Invite" /\ retries[restart] < MaxRetries
  BY <1>1, Retrying DEF LastFailure
<1>2. CASE sub = "Invite" /\ retries[restart] = MaxRetries
  BY <1>2, GivingUp DEF LastFailure, Holds
<1>3. CASE sub # "Invite"
  BY <1>3, Idling DEF LastFailure
<1>4. sub = "Invite" => retries[restart] < MaxRetries \/ retries[restart] = MaxRetries
  BY DEF Progress, PlaceType, CountType
<1> QED
  BY <1>1, <1>2, <1>3, <1>4

LEMMA RetryKeeps ==
  ASSUME Progress, sub = "Invite", Retry, UNCHANGED <<started, promise, invites>>
  PROVE  Progress'
<1>1. CASE retries[restart] < MaxRetries
  BY <1>1, Retrying DEF Retry
<1>2. CASE ~(retries[restart] < MaxRetries)
  BY <1>2, GivingUp DEF Retry, Finish, Holds
<1> QED
  BY <1>1, <1>2

\* What a failed request or a timer means to the session, whichever channel it
\* comes from.
LEMMA SignalingFailedKeeps ==
  ASSUME RestartInv, NEW e \in Errors, SignalingFailed(e),
         listener' \in {"PendingAnswer", "Talking", "Failed", "Disconnected"},
         waiting' \in Nat,
         UNCHANGED <<iceLost, lossOrphans, hasCandidate, sdpless, invites, goodbye>>
  PROVE  RestartInv'
<1>0. (sdpless \in BOOLEAN)'
  BY Zenon DEF RestartInv, ChannelType
<1>1. CASE ~Talks
  <2>1. NothingFails /\ UNCHANGED session
    BY <1>1 DEF SignalingFailed
  <2>2. Progress'
    BY <2>1, Still DEF RestartInv, NothingFails
  <2> QED
    BY <1>0, <1>1, <2>1, <2>2 DEF RestartInv, ChannelType, IceType, InviteIsDriven
<1>2. CASE Talks /\ e = "denied"
  <2>1. LastFailure /\ End("Failed") /\ UNCHANGED <<started, promise>>
    BY <1>2 DEF SignalingFailed
  <2>2. Progress'
    BY <2>1, LastFailureKeeps DEF RestartInv, End
  <2> QED
    BY <1>0, <2>1, <2>2 DEF RestartInv, ChannelType, IceType, InviteIsDriven, End
<1>3. CASE Talks /\ e # "denied"
  <2>1. SubSignalingFailed(e) /\ UNCHANGED session
    BY <1>3 DEF SignalingFailed
  <2>2. ChannelType' /\ IceType'
    BY <1>0, <2>1 DEF RestartInv, ChannelType, IceType
  <2>3. CASE sub = "Connected" /\ e = "stale"
    <3>1. StartRestart /\ UNCHANGED <<reports, retries, retryOrphans>>
      BY <2>1, <2>3 DEF SubSignalingFailed
    <3> QED
      BY <2>2, <3>1, Starting DEF RestartInv, StartRestart, InviteIsDriven
  <2>4. CASE sub = "Invite" /\ e = "giveUp"
    <3>1. Finish(restart) /\ UNCHANGED <<started, promise, retries, retryOrphans>>
      BY <2>1, <2>4 DEF SubSignalingFailed
    <3> QED
      BY <2>2, <2>4, <3>1, GivingUp DEF RestartInv, Finish, Holds, InviteIsDriven
  <2>5. CASE sub = "Invite" /\ e # "giveUp"
    <3>1. Retry /\ UNCHANGED <<started, promise>>
      BY <2>1, <2>5 DEF SubSignalingFailed
    <3>2. Progress'
      BY <2>5, <3>1, RetryKeeps DEF RestartInv
    <3>3. InviteIsDriven'
      BY <3>1 DEF Retry, Finish, InviteIsDriven
    <3> QED
      BY <2>2, <3>2, <3>3 DEF RestartInv
  <2>6. CASE sub # "Invite" /\ ~(sub = "Connected" /\ e = "stale")
    <3>1. NothingFails
      BY <2>1, <2>6 DEF SubSignalingFailed
    <3> QED
      BY <2>2, <2>6, <3>1, Still DEF RestartInv, NothingFails, InviteIsDriven
  <2> QED
    BY <2>3, <2>4, <2>5, <2>6
<1> QED
  BY <1>1, <1>2, <1>3

LEMMA HangupKeeps ==
  ASSUME RestartInv, NEW by \in {"client", "server"}, Hangup(by)
  PROVE  RestartInv'
<1>1. Progress'
  <2>1. CASE listener = "PendingAnswer"
    BY <2>1, LastFailureKeeps DEF RestartInv, Hangup, End
  <2>2. CASE listener # "PendingAnswer"
    BY <2>2, Idling DEF RestartInv, Hangup, End
  <2> QED
    BY <2>1, <2>2
<1>2. ChannelType'
  <2>1. goodbye' \in {"none", "bye", "server"}
    BY DEF Hangup
  <2> QED
    BY <2>1 DEF RestartInv, ChannelType, Hangup, End
<1>3. IceType' /\ InviteIsDriven'
  BY DEF RestartInv, IceType, InviteIsDriven, Hangup, End
<1> QED
  BY <1>1, <1>2, <1>3 DEF RestartInv

-----------------------------------------------------------------------------
(* The invariant and what follows from it.                                 *)

LEMMA RestartInvInit == Init => RestartInv
<1> SUFFICES ASSUME Init
             PROVE  RestartInv
  OBVIOUS
<1>1. PlaceType
  BY DEF Init, PlaceType
<1>2. CountType
  BY DEF Init, CountType
<1>3. ChannelType /\ IceType
  <2>1. ChannelType
    BY DEF Init, ChannelType
  <2>2. iceLost \in BOOLEAN /\ hasCandidate \in BOOLEAN
    BY Zenon DEF Init
  <2>3. lossOrphans \in 0..MaxOrphans
    BY DEF Init
  <2> QED
    BY <2>1, <2>2, <2>3 DEF IceType
<1>4. TimerHasOwner /\ OnePlace
  BY DEF Init, TimerHasOwner, OnePlace, Holds
<1>5. FreshIsUnused /\ OpenIsUnreported /\ OneOutcome
  BY DEF Init, FreshIsUnused, OpenIsUnreported, OneOutcome
<1>6. InviteBudget /\ InviteIsDriven
  BY DEF Init, InviteBudget, WithinBudget, InviteIsDriven
<1> QED
  BY <1>1, <1>2, <1>3, <1>4, <1>5, <1>6 DEF RestartInv, Progress

LEMMA RestartInvNext == RestartInv /\ [Next]_vars => RestartInv'
<1> SUFFICES ASSUME RestartInv, [Next]_vars
             PROVE  RestartInv'
  OBVIOUS
<1>1. CASE IceLost
  BY <1>1, IceLostKeeps
<1>2. CASE IceRecovers
  BY <1>2, IceRecoversKeeps
<1>3. CASE LossTimerFires
  BY <1>3, LossTimerFiresKeeps
<1>4. CASE LossOrphanFires
  BY <1>4, LossOrphanFiresKeeps
<1>5. ASSUME NEW r \in Restarts, OfferCreated(r) \/ OfferFails(r) \/ DescriptionSettles(r)
      PROVE  RestartInv'
  BY <1>5, OfferCreatedKeeps, OfferFailsKeeps, LocalDescriptionSetKeeps,
     DescriptionFailsKeeps, RemoteDescriptionSetKeeps DEF DescriptionSettles
<1>6. ASSUME NEW r \in Restarts, RetryOrphanFires(r)
      PROVE  RestartInv'
  BY <1>6, RetryOrphanFiresKeeps
<1>7. ASSUME NEW yes \in BOOLEAN, IceCandidate(yes)
      PROVE  RestartInv'
  BY <1>7, IceCandidateKeeps
<1>8. ASSUME NEW answer \in Answers, InviteAnswered(answer)
      PROVE  RestartInv'
  BY <1>8, InviteAnsweredKeeps
<1>9. CASE CollectionEnds
  BY <1>9, CollectionEndsKeeps
<1>10. CASE RetryTimerFires
  BY <1>10, RetryTimerFiresKeeps
<1>11. ASSUME NEW e \in Errors, RequestRejected(e)
       PROVE  RestartInv'
  BY <1>11, SignalingFailedKeeps DEF RequestRejected, RestartInv, ChannelType
<1>12. CASE InviteTimeout
  BY <1>12, SignalingFailedKeeps DEF InviteTimeout, Errors, RestartInv, ChannelType
<1>13. CASE OldInviteTimeout
  BY <1>13, SignalingFailedKeeps DEF OldInviteTimeout, Errors, RestartInv, ChannelType
<1>14. CASE ServerBye
  BY <1>14, ServerByeKeeps
<1>15. ASSUME NEW by \in {"client", "server"}, Hangup(by)
       PROVE  RestartInv'
  BY <1>15, HangupKeeps
<1>16. CASE UNCHANGED vars
  BY <1>16, Still DEF RestartInv, ChannelType, IceType, InviteIsDriven, Forsaken
<1> QED
  BY <1>1, <1>2, <1>3, <1>4, <1>5, <1>6, <1>7, <1>8, <1>9, <1>10, <1>11, <1>12, <1>13,
     <1>14, <1>15, <1>16 DEF Next

\* The strengthened invariant.
THEOREM RestartInvariant == Spec => []RestartInv
<1>1. Init => RestartInv
  BY RestartInvInit
<1>2. RestartInv /\ [Next]_vars => RestartInv'
  BY RestartInvNext
<1> QED
  BY <1>1, <1>2, PTL DEF Spec

\* Type correctness, for any number of restarts, retries and orphaned timers.
THEOREM TypeCorrect == Spec => []TypeOK
<1>1. RestartInv => TypeOK
  BY DEF RestartInv, Progress, TypeOK
<1> QED
  BY <1>1, RestartInvariant, PTL

\* A restart that waits for an answer has a channel or a retry timer that will
\* end the wait, but for an answer that had no sdp and was accepted all the same
\* (InviteAnswerSubstate, FailOnTimeoutState, PendingAnswerState).
THEOREM InvitesAreDriven == Spec => []InviteIsDriven
<1>1. RestartInv => InviteIsDriven
  BY DEF RestartInv
<1> QED
  BY <1>1, RestartInvariant, PTL

\* No restart reports two outcomes, however many of them overlap
\* (_onIceRestartComplete).
THEOREM OutcomesAreSingle == Spec => []OneOutcome
<1>1. RestartInv => OneOutcome
  BY DEF RestartInv, Progress
<1> QED
  BY <1>1, RestartInvariant, PTL

\* No restart sends more INVITEs than one and its retries, whichever timers have
\* lost their ids (retryInvite).
THEOREM InvitesAreBounded == Spec => []InvitesBounded
<1>1. ASSUME RestartInv, NEW r \in Restarts
      PROVE  invites[r] <= 1 + MaxRetries
  <2>1. /\ invites[r] \in Nat
        /\ retryOrphans[r] \in Nat
        /\ retries[r] \in 0..MaxRetries
    BY <1>1 DEF RestartInv, Progress, CountType
  <2>2. invites[r] + retryOrphans[r] <= 1 + retries[r]
    BY <1>1 DEF RestartInv, Progress, InviteBudget, WithinBudget
  <2> QED
    BY <2>1, <2>2
<1>2. RestartInv => InvitesBounded
  BY <1>1 DEF InvitesBounded
<1> QED
  BY <1>2, RestartInvariant, PTL

=============================================================================
