-------------------------------- MODULE RtcCall --------------------------------
(***************************************************************************)
(* A V1 call: the session takes its peer connection from the factory, as   *)
(* the application does with session.connect(factory.get(iceServers)), and *)
(* the factory lives on beside it, serving other calls.                    *)
(***************************************************************************)
EXTENDS RtcSession

CONSTANT MaxPcs

ASSUME MaxPcsAssumption == MaxPcs \in Nat \ {0}

VARIABLES supported, idlePc, inFlight, requested, timerKnown, timers, closed, pcs

Factory == INSTANCE RtcPeerConnectionFactory

\* The session's connections are the factory's; both name the absence of one alike.
ASSUME CallAssumption == Pcs = Factory!FactoryPcs /\ None = Factory!NoPc

factoryVars ==
  <<supported, idlePc, inFlight, requested, timerKnown, timers, closed, pcs>>

CallInit == Init /\ Factory!Init

\* connect() with the factory's connection, or, where there is no factory, alone.
ConnectCall ==
  \/ \E p \in Pcs : Factory!Get(p) /\ Connect(p)
  \/ Connect(None) /\ UNCHANGED factoryVars

\* Another session of the application takes a connection.
OtherCall == (\E p \in Pcs : Factory!Get(p)) /\ UNCHANGED rtcVars

CallNext ==
  \/ ConnectCall
  \/ Progress /\ UNCHANGED factoryVars
  \/ OtherCall
  \/ Factory!Background /\ UNCHANGED rtcVars

callVars == <<rtcVars, factoryVars>>

CallSpec == CallInit /\ [][CallNext]_callVars /\ Fairness

-----------------------------------------------------------------------------
\* Types of the call and of its factory (constructor of
\* rtc_peer_connection_factory.js, fields of rtc_session.js).
CallTypeOK == TypeOK /\ Factory!TypeOK

\* Every connection has one holder: while the session holds one the factory
\* neither keeps it nor closes it, whatever refresh, quota message or offline
\* check comes, and the one the factory keeps is open and has exactly the one
\* refresh timer whose id is known (rtc_peer_connection_factory.js lines 65-103
\* and 123-150).
CallKeepsItsConnection ==
  /\ pc \in Pcs => pcs[pc] = "handed" /\ idlePc # pc
  /\ idlePc # None => pcs[idlePc] = "idle" /\ timerKnown /\ timers = 1
=============================================================================
