------------------------------- MODULE IceAccess -------------------------------
(***************************************************************************)
(* Where the V2 manager's peer connections get their ICE servers           *)
(* (_createPeerConnection and _getIdleOrCreatePeerConnection,              *)
(* src/src/rtc_peer_connection_manager_v2.ts): the standby connection and  *)
(* the calls that find none share one credential resolver, and each answer *)
(* of the API to one of them is what the next is compared with.            *)
(***************************************************************************)
EXTENDS StandbyPeerConnectionManager

CONSTANT Calls

VARIABLES cached, tried, told, calls

Resolver == INSTANCE CredentialResolver
resolverVars == <<cached, tried, told, calls>>

AccessInit == Init /\ Resolver!ResolverInit

\* The standby connection has no contact: its servers come from the API, and
\* the strategy may still throw when they are there.
StandbyAnswered ==
  /\ \/ RequestSucceeds /\ \E url \in Resolver!Urls : Resolver!Learn(url)
     \/ RequestFails /\ \E url \in Resolver!Urls : Resolver!Learn(url)
     \/ RequestFails /\ UNCHANGED <<cached, told>>
  /\ UNCHANGED <<tried, calls>>

\* The rest of the standby connection's life leaves the resolver alone.
StandbyElse ==
  /\ \/ RefreshTimerFires \/ OrphanTimerFires \/ FoundOffline \/ Consume
     \/ Toggle \/ Close
     \/ \E allowlisted \in BOOLEAN : Answered(allowlisted)
  /\ UNCHANGED resolverVars

\* A call that finds no standby connection asks for servers.
CallAsks(c) ==
  /\ standbyPc = None
  /\ \E contact \in Resolver!Contacts : Resolver!Ask(c, contact)
  /\ UNCHANGED vars

CallAnswered(c) == Resolver!ApiAnswers(c) /\ UNCHANGED vars

ProbeEnds(c) == Resolver!ProbeGivesUp(c) /\ UNCHANGED vars

AccessNext ==
  \/ StandbyAnswered
  \/ StandbyElse
  \/ \E c \in Calls : CallAsks(c) \/ CallAnswered(c) \/ ProbeEnds(c)

accessVars == <<vars, resolverVars>>

\* Timers fire; the API owes no answer.
AccessSpec ==
  /\ AccessInit /\ [][AccessNext]_accessVars
  /\ WF_accessVars(RefreshTimerFires /\ UNCHANGED resolverVars)
  /\ \A c \in Calls : WF_accessVars(ProbeEnds(c))

-----------------------------------------------------------------------------
\* Types of the standby manager and of the resolver.
AccessTypeOK == TypeOK /\ Resolver!ResolverTypeOK

\* The servers of a contact from another region are used only while the region
\* is unknown: by the one call whose own fetch of the URL was refused or too
\* late, whatever the API has told the others, or before it has told a URL to
\* anybody, a refresh of the standby connection included, or after it answered
\* without one.  A call whose own fetch was answered with the agent's URL is
\* caught like any other (credential_resolver.ts lines 75-108, 131-134).
ForeignIsCaught ==
  \A c \in Calls :
    calls[c].contact = "foreign" /\ calls[c].servers = "contact" =>
      calls[c].probe = "failed" \/ calls[c].told # {"home"}

\* A contact with servers of the agent's region, or with servers that cannot be
\* compared, has them within the second the one-time fetch is given, even if
\* the API never answers (credential_resolver.ts lines 90-108).
OwnServersNeverWait ==
  \A c \in Calls :
    calls[c].contact \in {"home", Resolver!NoUrl} ~> calls[c].servers = "contact"
=============================================================================
