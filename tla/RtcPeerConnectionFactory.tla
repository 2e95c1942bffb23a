----------------------- MODULE RtcPeerConnectionFactory -----------------------
(***************************************************************************)
(* The V1 factory (src/src/rtc_peer_connection_factory.js): it keeps one   *)
(* peer connection ready, hands it out, and closes it when it grows old,   *)
(* when the server asks for it, or when the network is gone.               *)
(***************************************************************************)
EXTENDS Naturals

CONSTANT
  MaxPcs               \* bound on the connections the factory creates

VARIABLES
  supported,           \* _earlyMediaConnectionSupported
  idlePc,              \* _idlePc, or 0
  inFlight,            \* _peerConnectionRequestInFlight
  requested,           \* a promise of _requestIceAccess is pending
  timerKnown,          \* _idleRtcPeerConnectionTimerId is set
  timers,              \* refresh timers that run
  closed,              \* _closed
  pcs                  \* what became of each connection

vars == <<supported, idlePc, inFlight, requested, timerKnown, timers, closed, pcs>>

FactoryPcs == 1..MaxPcs
NoPc == 0

\* Types; clearTimeout never runs without a timer.
TypeOK ==
  /\ supported \in BOOLEAN
  /\ idlePc \in FactoryPcs \union {NoPc}
  /\ inFlight \in BOOLEAN
  /\ requested \in BOOLEAN
  /\ timerKnown \in BOOLEAN
  /\ timers \in Nat
  /\ closed \in BOOLEAN
  /\ pcs \in [FactoryPcs -> {"none", "idle", "handed", "closed"}]

\* The constructor requests the first connection.
Init ==
  /\ supported \in BOOLEAN
  /\ idlePc = NoPc
  /\ inFlight = supported
  /\ requested = supported
  /\ timerKnown = FALSE
  /\ timers = 0
  /\ closed = FALSE
  /\ pcs = [p \in FactoryPcs |-> "none"]

-----------------------------------------------------------------------------
\* Connections are created in the order of their numbers.
IsNew(p) == pcs[p] = "none" /\ \A q \in 1..(p - 1) : pcs[q] # "none"

\* _requestPeerConnection
RequestPeerConnection ==
  /\ inFlight' = (inFlight \/ supported)
  /\ requested' = (requested \/ (supported /\ ~inFlight))

\* Mutant: a timer is counted as cleared without an id.
ClearTimer_Unknown ==
  /\ timerKnown' = FALSE
  /\ timers' = timers - 1

\* clearIdleRtcPeerConnectionTimerId
ClearTimer ==
  /\ timerKnown' = FALSE
  /\ timers' = IF timerKnown THEN timers - 1 ELSE timers

\* _closeRTCPeerConnection
CloseIdle ==
  /\ pcs' = [p \in FactoryPcs |-> IF p = idlePc THEN "closed" ELSE pcs[p]]
  /\ idlePc' = NoPc

-----------------------------------------------------------------------------
\* Mutant: the connection handed out stays the idle one.
Get_Kept(p) ==
  /\ IF idlePc = NoPc THEN IsNew(p) ELSE p = idlePc
  /\ pcs' = [pcs EXCEPT ![p] = "handed"]
  /\ ClearTimer
  /\ RequestPeerConnection
  /\ UNCHANGED <<supported, closed, idlePc>>

\* get(): the idle connection, or a new one, and a request for the next.
Get(p) ==
  /\ IF idlePc = NoPc THEN IsNew(p) ELSE p = idlePc
  /\ pcs' = [pcs EXCEPT ![p] = "handed"]
  /\ idlePc' = NoPc
  /\ ClearTimer
  /\ RequestPeerConnection
  /\ UNCHANGED <<supported, closed>>

\* The ICE servers arrive.  A closed factory drops them and leaves the flag up.
AccessGranted ==
  /\ requested
  /\ requested' = FALSE
  /\ IF closed
       THEN UNCHANGED <<idlePc, inFlight, timerKnown, timers, pcs>>
       ELSE \E p \in FactoryPcs :
              /\ IsNew(p)
              /\ idlePc' = p
              /\ pcs' = [pcs EXCEPT ![p] = "idle"]
              /\ inFlight' = FALSE
              /\ timerKnown' = TRUE
              /\ timers' = timers + 1
  /\ UNCHANGED <<supported, closed>>

\* Nothing asks again before the next get() or refresh.
AccessDenied ==
  /\ requested
  /\ requested' = FALSE
  /\ inFlight' = FALSE
  /\ UNCHANGED <<supported, idlePc, timerKnown, timers, closed, pcs>>

\* _refreshRtcPeerConnection
Refresh ==
  /\ timers > 0
  /\ timers' = timers - 1
  /\ timerKnown' = FALSE
  /\ CloseIdle
  /\ IF closed THEN UNCHANGED <<inFlight, requested>> ELSE RequestPeerConnection
  /\ UNCHANGED <<supported, closed>>

\* idleConnection and quotaBreached of the server, and the interval of
\* _networkConnectivityChecker that finds the browser offline: the timer runs on.
IdleConnectionDropped ==
  /\ idlePc # NoPc
  /\ CloseIdle
  /\ UNCHANGED <<supported, inFlight, requested, timerKnown, timers, closed>>

\* close()
Close ==
  /\ ~closed
  /\ closed' = TRUE
  /\ ClearTimer
  /\ CloseIdle
  /\ UNCHANGED <<supported, inFlight, requested>>

-----------------------------------------------------------------------------
Background == AccessGranted \/ AccessDenied \/ Refresh \/ IdleConnectionDropped
                \/ Close

Next == Background \/ \E p \in FactoryPcs : Get(p)

Spec == Init /\ [][Next]_vars

=============================================================================
