--------------------- MODULE PeerConnectionManagerV2Proofs ---------------------
(***************************************************************************)
(* The safety of the connection manager for any set of calls and page-load *)
(* setups.  The invariant is the conjunction of what the runs check and of *)
(* FreshNames, which says what is not yet known of a call or a setup that  *)
(* has not created its session: without it a new session could be given a  *)
(* name that is already live.  Each action preserves it, one lemma each.   *)
(***************************************************************************)
EXTENDS PeerConnectionManagerV2, TLAPS

\* A call or a page-load setup that has not created its session has none, and
\* the session the manager holds has been created.
FreshNames ==
  /\ \A c \in Calls : callState[c] = "none" =>
       phase[c] = "none" /\ connecting[c] = "no" /\ c \notin calls
  /\ \A k \in PageLoads : pageLoad[k] # "done" => phase[k] = "none"
  /\ sess # None => phase[sess] # "none"

\* The inductive invariant.
ManagerInv ==
  /\ TypeOK
  /\ LiveSessionIsCurrent
  /\ CallsHaveSession
  /\ SkippedContactIsInvited
  /\ IdleConnectionIsTimed
  /\ NoCallForgotten
  /\ FreshNames

USE NamesAssumption DEF Sessions, Live

\* The constructor establishes the invariant.
LEMMA InitInv == Init => ManagerInv
<1> SUFFICES ASSUME Init PROVE ManagerInv
  OBVIOUS
<1>1. TypeOK
  BY DEF Init, TypeOK
<1> QED
  BY <1>1 DEF Init, ManagerInv, LiveSessionIsCurrent, CallsHaveSession,
     SkippedContactIsInvited, IdleConnectionIsTimed, NoCallForgotten, FreshNames

\* Ending a session keeps the types of the sessions' state.
LEMMA EndedType ==
  ASSUME TypeOK, NEW s \in Sessions \union {None}
  PROVE  /\ Ended(s).phase \in [Sessions -> {"none", "new", "ended"} \union Live]
         /\ Ended(s).pc \in [Sessions -> Sessions \union {None}]
         /\ Ended(s).open \subseteq Sessions
BY DEF TypeOK, Ended, Ending

\* Ending a session ends that one, if it is live, and no other.
LEMMA EndedPhase ==
  ASSUME TypeOK, NEW s \in Sessions \union {None}
  PROVE  \A t \in Sessions :
           Ended(s).phase[t] = IF t = s /\ phase[t] \in Live THEN "ended" ELSE phase[t]
BY DEF TypeOK, Ended, Ending

\* JoinOrWait concerns one call, which it leaves waiting unless it joins or the
\* session is gone.
LEMMA JoinOrWaitEffect ==
  ASSUME TypeOK, NEW c \in Calls, JoinOrWait(c)
  PROVE  /\ callState' \in [Calls -> {"none", "Initial", "Talking", "Disconnected", "Failed"}]
         /\ connecting' \in [Calls -> {"no", "agentData", "pc", "done", "rejected"}]
         /\ \A d \in Calls \ {c} :
              callState'[d] = callState[d] /\ connecting'[d] = connecting[d]
         /\ callState'[c] = "none" <=> callState[c] = "none"
         /\ connecting'[c] = "done" => callState'[c] # "Initial" \/ sess = None
<1>1. CASE sess # None /\ phase[sess] = "talking"
  <2>1. /\ callState' = Joined({c})
        /\ connecting' = [connecting EXCEPT ![c] = "done"]
    BY <1>1 DEF JoinOrWait
  <2> QED
    BY <2>1 DEF TypeOK, Joined
<1>2. CASE sess # None /\ phase[sess] # "talking"
  <2>1. /\ callState' = callState
        /\ connecting' = [connecting EXCEPT ![c] = "pc"]
    BY <1>2 DEF JoinOrWait
  <2> QED
    BY <2>1 DEF TypeOK
<1>3. CASE sess = None
  <2>1. /\ callState' = callState
        /\ connecting' = [connecting EXCEPT ![c] = "done"]
    BY <1>3 DEF JoinOrWait
  <2> QED
    BY <2>1, <1>3 DEF TypeOK
<1> QED
  BY <1>1, <1>2, <1>3

\* A new call: it may replace an unhealthy session nobody uses.
LEMMA CreateSessionInv ==
  ASSUME ManagerInv, NEW c \in Calls, NEW ok \in BOOLEAN, CreateSession(c, ok)
  PROVE  ManagerInv'
<1> DEFINE unhealthy == sess # None /\ ~Healthy(ok)
           fresh     == sess = None \/ (unhealthy /\ calls = {})
<1>1. /\ callState[c] = "none"
      /\ callState' = [callState EXCEPT ![c] = "Initial"]
      /\ calls' = calls \union {c}
      /\ UNCHANGED <<connecting, uaKnown, pageLoad, ppc, fac, allowed, closed>>
  BY DEF CreateSession, configVars
<1>2. phase[c] = "none" /\ connecting[c] = "no" /\ c \notin calls
  BY <1>1 DEF ManagerInv, FreshNames
<1>3. ASSUME fresh
      PROVE  ManagerInv'
  <2>1. /\ phase' = [Ended(sess).phase EXCEPT ![c] = "new"]
        /\ sessPc' = Ended(sess).pc
        /\ openPcs' = Ended(sess).open
        /\ sess' = c /\ everCreated' = TRUE /\ pcId' = None
        /\ timer' \in {"none", timer} /\ orphans' = orphans
    BY <1>3 DEF CreateSession
  <2>2. calls = {} /\ sess \in Sessions \union {None}
    BY <1>3 DEF ManagerInv, TypeOK, CallsHaveSession
  <2>3. \A t \in Sessions :
          phase'[t] = IF t = c THEN "new"
                      ELSE IF t = sess /\ phase[t] \in Live THEN "ended" ELSE phase[t]
    BY <2>1, <2>2, EndedPhase, EndedType DEF ManagerInv
  <2>4. TypeOK'
    <3>1. /\ phase' \in [Sessions -> {"none", "new", "ended"} \union Live]
          /\ sessPc' \in [Sessions -> Sessions \union {None}]
          /\ openPcs' \subseteq Sessions
      BY <2>1, <2>2, EndedType DEF ManagerInv
    <3>2. /\ calls' \subseteq Calls
          /\ callState' \in [Calls -> {"none", "Initial", "Talking", "Disconnected",
                                       "Failed"}]
      BY <1>1 DEF ManagerInv, TypeOK
    <3> QED
      BY <1>1, <2>1, <3>1, <3>2 DEF ManagerInv, TypeOK
  <2>5. LiveSessionIsCurrent'
    BY <2>1, <2>3 DEF ManagerInv, LiveSessionIsCurrent
  <2>6. CallsHaveSession'
    BY <2>1 DEF CallsHaveSession
  <2>7. SkippedContactIsInvited' /\ IdleConnectionIsTimed'
    BY <1>1, <2>1, <2>2 DEF SkippedContactIsInvited, IdleConnectionIsTimed
  <2>8. NoCallForgotten'
    BY <1>1, <1>2, <2>2 DEF NoCallForgotten
  <2>9. FreshNames'
    BY <1>1, <1>2, <2>1, <2>2, <2>3 DEF ManagerInv, TypeOK, FreshNames
  <2> QED
    BY <2>4, <2>5, <2>6, <2>7, <2>8, <2>9 DEF ManagerInv
<1>4. ASSUME ~fresh
      PROVE  ManagerInv'
  <2>1. UNCHANGED <<sess, everCreated, phase, sessPc, openPcs, pcId, timer, orphans>>
    BY <1>4 DEF CreateSession, SessionUnchanged, sessionVars, timerVars
  <2>2. sess \in Sessions
    BY <1>4 DEF ManagerInv, TypeOK
  <2>3. TypeOK'
    BY <1>1, <2>1, <2>2 DEF ManagerInv, TypeOK
  <2>4. LiveSessionIsCurrent' /\ CallsHaveSession' /\ IdleConnectionIsTimed'
    BY <1>1, <2>1, <2>2
    DEF ManagerInv, LiveSessionIsCurrent, CallsHaveSession, IdleConnectionIsTimed
  <2>5. SkippedContactIsInvited'
    BY <1>1, <1>2, <2>1 DEF ManagerInv, SkippedContactIsInvited
  <2>6. NoCallForgotten'
    BY <1>1, <1>2, <2>1 DEF ManagerInv, TypeOK, NoCallForgotten
  <2>7. FreshNames'
    BY <1>1, <2>1 DEF ManagerInv, TypeOK, FreshNames
  <2> QED
    BY <2>3, <2>4, <2>5, <2>6, <2>7 DEF ManagerInv
<1> QED
  BY <1>3, <1>4

\* connect(c), up to its first await.
LEMMA ConnectInv ==
  ASSUME ManagerInv, NEW c \in Calls, Connect(c)
  PROVE  ManagerInv'
<1>1. /\ c \in calls /\ connecting[c] = "no" /\ timer' = "none"
      /\ UNCHANGED <<calls, uaKnown, pageLoad, sess, everCreated, phase, sessPc,
                     openPcs, pcId, orphans, ppc, fac, allowed,
                     closed>>
  BY DEF Connect, sessionVars, configVars
<1>2. /\ callState' \in [Calls -> {"none", "Initial", "Talking", "Disconnected",
                                   "Failed"}]
      /\ connecting' \in [Calls -> {"no", "agentData", "pc", "done", "rejected"}]
      /\ \A d \in Calls \ {c} :
           callState'[d] = callState[d] /\ connecting'[d] = connecting[d]
      /\ callState'[c] = "none" <=> callState[c] = "none"
      /\ connecting'[c] = "done" => callState'[c] # "Initial" \/ sess = None
  <2>1. CASE uaKnown
    BY <2>1, JoinOrWaitEffect DEF Connect, ManagerInv
  <2>2. CASE ~uaKnown
    <3>1. /\ connecting' = [connecting EXCEPT ![c] = "agentData"]
          /\ callState' = callState
      BY <2>2 DEF Connect
    <3> QED
      BY <3>1 DEF ManagerInv, TypeOK
  <2> QED
    BY <2>1, <2>2
<1>3. TypeOK'
  BY <1>1, <1>2 DEF ManagerInv, TypeOK
<1>4. /\ LiveSessionIsCurrent' /\ CallsHaveSession' /\ SkippedContactIsInvited'
      /\ IdleConnectionIsTimed'
  BY <1>1 DEF ManagerInv, LiveSessionIsCurrent, CallsHaveSession,
     SkippedContactIsInvited, IdleConnectionIsTimed
<1>5. NoCallForgotten'
  BY <1>1, <1>2 DEF ManagerInv, TypeOK, CallsHaveSession, NoCallForgotten
<1>6. FreshNames'
  BY <1>1, <1>2 DEF ManagerInv, FreshNames
<1> QED
  BY <1>3, <1>4, <1>5, <1>6 DEF ManagerInv

\* connect(c), once the agent data has been fetched.
LEMMA AgentDataInv ==
  ASSUME ManagerInv, NEW c \in Calls, NEW known \in BOOLEAN, AgentData(c, known)
  PROVE  ManagerInv'
<1>1. /\ connecting[c] = "agentData" /\ uaKnown' \in BOOLEAN
      /\ UNCHANGED <<calls, pageLoad, sess, everCreated, phase, sessPc, openPcs, pcId,
                     timer, orphans, ppc, fac, allowed, closed>>
  BY DEF AgentData, sessionVars, timerVars, configVars
<1>2. /\ callState' \in [Calls -> {"none", "Initial", "Talking", "Disconnected",
                                   "Failed"}]
      /\ connecting' \in [Calls -> {"no", "agentData", "pc", "done", "rejected"}]
      /\ \A d \in Calls \ {c} :
           callState'[d] = callState[d] /\ connecting'[d] = connecting[d]
      /\ callState'[c] = "none" <=> callState[c] = "none"
      /\ connecting'[c] = "done" => callState'[c] # "Initial" \/ sess = None
  BY JoinOrWaitEffect DEF AgentData, ManagerInv
<1>3. TypeOK'
  BY <1>1, <1>2 DEF ManagerInv, TypeOK
<1>4. /\ LiveSessionIsCurrent' /\ CallsHaveSession' /\ SkippedContactIsInvited'
      /\ IdleConnectionIsTimed'
  BY <1>1 DEF ManagerInv, LiveSessionIsCurrent, CallsHaveSession,
     SkippedContactIsInvited, IdleConnectionIsTimed
<1>5. NoCallForgotten'
  BY <1>1, <1>2 DEF ManagerInv, TypeOK, CallsHaveSession, NoCallForgotten
<1>6. FreshNames'
  BY <1>1, <1>2 DEF ManagerInv, FreshNames
<1> QED
  BY <1>3, <1>4, <1>5, <1>6 DEF ManagerInv

\* connect(c), once a peer connection is there.
LEMMA PcReadyInv ==
  ASSUME ManagerInv, NEW c \in Calls, PcReady(c)
  PROVE  ManagerInv'
<1> USE DEF ManagerInv, PcReady, timerVars, configVars
<1>1. TypeOK'
  BY DEF TypeOK
<1>2. LiveSessionIsCurrent'
  BY DEF TypeOK, LiveSessionIsCurrent
<1>3. CallsHaveSession'
  BY DEF TypeOK, CallsHaveSession
<1>4. SkippedContactIsInvited'
  BY DEF TypeOK, SkippedContactIsInvited
<1>5. IdleConnectionIsTimed'
  BY DEF TypeOK, IdleConnectionIsTimed
<1>6. NoCallForgotten'
  BY DEF TypeOK, NoCallForgotten, LiveSessionIsCurrent, CallsHaveSession,
     FreshNames
<1>7. FreshNames'
  BY DEF TypeOK, FreshNames, LiveSessionIsCurrent
<1> QED
  BY <1>1, <1>2, <1>3, <1>4, <1>5, <1>6, <1>7

\* connect(c), when there is no peer connection.
LEMMA PcRejectedInv ==
  ASSUME ManagerInv, NEW c \in Calls, PcRejected(c)
  PROVE  ManagerInv'
<1> USE DEF ManagerInv, PcRejected, sessionVars, timerVars, configVars
<1>1. TypeOK'
  BY DEF TypeOK
<1>2. LiveSessionIsCurrent'
  BY DEF TypeOK, LiveSessionIsCurrent
<1>3. CallsHaveSession'
  BY DEF TypeOK, CallsHaveSession
<1>4. SkippedContactIsInvited'
  BY DEF TypeOK, SkippedContactIsInvited
<1>5. IdleConnectionIsTimed'
  BY DEF TypeOK, IdleConnectionIsTimed
<1>6. NoCallForgotten'
  BY DEF TypeOK, NoCallForgotten, CallsHaveSession
<1>7. FreshNames'
  BY DEF TypeOK, FreshNames
<1> QED
  BY <1>1, <1>2, <1>3, <1>4, <1>5, <1>6, <1>7

\* hangup() of the calls in cs.
LEMMA HangupInv ==
  ASSUME ManagerInv, NEW cs \in SUBSET Calls, NEW ok \in BOOLEAN, Hangup(cs, ok)
  PROVE  ManagerInv'
<1>1. /\ calls' = calls \ cs
      /\ callState' = [c \in Calls |->
                         IF c \in calls \intersect cs /\ callState[c] = "Talking"
                           THEN "Disconnected" ELSE callState[c]]
      /\ UNCHANGED <<connecting, uaKnown, pageLoad, ppc, fac, allowed, closed>>
  BY DEF Hangup, configVars
<1>2. calls' \subseteq calls
  BY <1>1
<1>3. /\ callState' \in [Calls -> {"none", "Initial", "Talking", "Disconnected",
                                   "Failed"}]
      /\ \A c \in Calls : /\ callState'[c] = "none" <=> callState[c] = "none"
                          /\ callState'[c] = "Initial" <=> callState[c] = "Initial"
  BY <1>1 DEF ManagerInv, TypeOK
<1>4. CASE calls' # {} \/ sess = None
  <2>1. UNCHANGED <<sess, everCreated, phase, sessPc, openPcs, pcId, timer, orphans>>
    BY <1>4 DEF Hangup, SessionUnchanged, sessionVars, timerVars
  <2>2. TypeOK'
    BY <1>1, <1>2, <1>3, <2>1 DEF ManagerInv, TypeOK
  <2>3. LiveSessionIsCurrent' /\ CallsHaveSession' /\ SkippedContactIsInvited'
    BY <1>2, <2>1 DEF ManagerInv, LiveSessionIsCurrent, CallsHaveSession,
       SkippedContactIsInvited
  <2>4. IdleConnectionIsTimed'
    BY <1>1, <1>4, <2>1 DEF IdleConnectionIsTimed
  <2>5. NoCallForgotten'
    BY <1>1, <1>2, <1>3, <2>1 DEF ManagerInv, TypeOK, NoCallForgotten
  <2>6. FreshNames'
    BY <1>1, <1>2, <1>3, <2>1 DEF ManagerInv, FreshNames
  <2> QED
    BY <2>2, <2>3, <2>4, <2>5, <2>6 DEF ManagerInv
<1>5. CASE calls' = {} /\ sess # None /\ ~(Healthy(ok) /\ Persistent)
  <2>1. /\ phase' = Ended(sess).phase
        /\ sessPc' = Ended(sess).pc
        /\ openPcs' = Ended(sess).open
        /\ sess' = None /\ pcId' = None /\ timer' = "none"
        /\ UNCHANGED <<everCreated, orphans>>
    BY <1>5 DEF Hangup, Teardown, End
  <2>2. \A t \in Sessions :
          phase'[t] = IF t = sess /\ phase[t] \in Live THEN "ended" ELSE phase[t]
    BY <2>1, EndedPhase DEF ManagerInv, TypeOK
  <2>3. TypeOK'
    <3>1. /\ phase' \in [Sessions -> {"none", "new", "ended"} \union Live]
          /\ sessPc' \in [Sessions -> Sessions \union {None}]
          /\ openPcs' \subseteq Sessions
      BY <2>1, EndedType DEF ManagerInv, TypeOK
    <3> QED
      BY <1>1, <1>2, <1>3, <2>1, <3>1 DEF ManagerInv, TypeOK
  <2>4. LiveSessionIsCurrent'
    BY <2>1, <2>2 DEF ManagerInv, LiveSessionIsCurrent
  <2>5. CallsHaveSession' /\ SkippedContactIsInvited' /\ NoCallForgotten'
    BY <1>5 DEF CallsHaveSession, SkippedContactIsInvited, NoCallForgotten
  <2>6. IdleConnectionIsTimed'
    BY <2>1 DEF IdleConnectionIsTimed
  <2>7. FreshNames'
    BY <1>1, <1>2, <1>3, <2>1, <2>2 DEF ManagerInv, FreshNames
  <2> QED
    BY <2>3, <2>4, <2>5, <2>6, <2>7 DEF ManagerInv
<1>6. CASE calls' = {} /\ sess # None /\ Healthy(ok) /\ Persistent
  <2>1. /\ timer' = "running" /\ orphans' \in {orphans, orphans + 1}
        /\ UNCHANGED <<sess, everCreated, phase, sessPc, openPcs, pcId>>
    BY <1>6 DEF Hangup, StartTimer, sessionVars
  <2>2. TypeOK'
    <3>1. orphans' \in Nat
      BY <2>1 DEF ManagerInv, TypeOK
    <3> QED
      BY <1>1, <1>2, <1>3, <2>1, <3>1 DEF ManagerInv, TypeOK
  <2>3. LiveSessionIsCurrent'
    BY <2>1 DEF ManagerInv, LiveSessionIsCurrent
  <2>4. CallsHaveSession' /\ SkippedContactIsInvited' /\ NoCallForgotten'
    BY <1>6 DEF CallsHaveSession, SkippedContactIsInvited, NoCallForgotten
  <2>5. IdleConnectionIsTimed'
    BY <2>1 DEF IdleConnectionIsTimed
  <2>6. FreshNames'
    BY <1>1, <1>2, <1>3, <2>1 DEF ManagerInv, FreshNames
  <2> QED
    BY <2>2, <2>3, <2>4, <2>5, <2>6 DEF ManagerInv
<1> QED
  BY <1>4, <1>5, <1>6

\* The answer to the INVITE.
LEMMA SessionAnsweredInv ==
  ASSUME ManagerInv, NEW s \in Sessions, NEW allowlisted \in BOOLEAN, SessionAnswered(s, allowlisted)
  PROVE  ManagerInv'
<1> USE DEF ManagerInv, SessionAnswered, callVars, timerVars
<1>1. TypeOK'
  BY DEF TypeOK
<1>2. LiveSessionIsCurrent'
  BY DEF TypeOK, LiveSessionIsCurrent
<1>3. CallsHaveSession'
  BY DEF TypeOK, CallsHaveSession
<1>4. SkippedContactIsInvited'
  BY DEF TypeOK, SkippedContactIsInvited
<1>5. IdleConnectionIsTimed'
  BY DEF TypeOK, LiveSessionIsCurrent, CallsHaveSession,
     SkippedContactIsInvited, IdleConnectionIsTimed, NoCallForgotten,
     FreshNames
<1>6. NoCallForgotten'
  BY DEF TypeOK, NoCallForgotten
<1>7. FreshNames'
  BY DEF TypeOK, FreshNames
<1> QED
  BY <1>1, <1>2, <1>3, <1>4, <1>5, <1>6, <1>7

\* The media session is up; the waiting calls join.
LEMMA SessionConnectedInv ==
  ASSUME ManagerInv, NEW s \in Sessions, SessionConnected(s)
  PROVE  ManagerInv'
<1> USE DEF ManagerInv, SessionConnected, Joined, StartTimer, timerVars,
  configVars
<1>1. TypeOK'
  BY DEF TypeOK
<1>2. LiveSessionIsCurrent'
  BY DEF TypeOK, LiveSessionIsCurrent
<1>3. CallsHaveSession'
  BY DEF TypeOK, CallsHaveSession
<1>4. SkippedContactIsInvited'
  BY DEF TypeOK, SkippedContactIsInvited
<1>5. IdleConnectionIsTimed'
  BY DEF TypeOK, IdleConnectionIsTimed
<1>6. NoCallForgotten'
  BY DEF TypeOK, NoCallForgotten
<1>7. FreshNames'
  BY DEF TypeOK, FreshNames
<1> QED
  BY <1>1, <1>2, <1>3, <1>4, <1>5, <1>6, <1>7

\* The media session has failed; the calls are dropped.
LEMMA SessionFailedInv ==
  ASSUME ManagerInv, NEW s \in Sessions, SessionFailed(s)
  PROVE  ManagerInv'
<1> USE DEF ManagerInv, SessionFailed, End, Ended, Ending,
  configVars
<1>1. TypeOK'
  BY DEF TypeOK
<1>2. LiveSessionIsCurrent'
  BY DEF TypeOK, LiveSessionIsCurrent
<1>3. CallsHaveSession'
  BY DEF TypeOK, CallsHaveSession
<1>4. SkippedContactIsInvited'
  BY DEF TypeOK, SkippedContactIsInvited
<1>5. IdleConnectionIsTimed'
  BY DEF TypeOK, IdleConnectionIsTimed
<1>6. NoCallForgotten'
  BY DEF TypeOK, NoCallForgotten
<1>7. FreshNames'
  BY DEF TypeOK, FreshNames
<1> QED
  BY <1>1, <1>2, <1>3, <1>4, <1>5, <1>6, <1>7

\* The server has hung the media session up; the calls stay.
LEMMA SessionHungUpInv ==
  ASSUME ManagerInv, NEW s \in Sessions, SessionHungUp(s)
  PROVE  ManagerInv'
<1> USE DEF ManagerInv, SessionHungUp, End, Ended, Ending, callVars,
  timerVars, configVars
<1>1. TypeOK'
  BY DEF TypeOK
<1>2. LiveSessionIsCurrent'
  BY DEF TypeOK, LiveSessionIsCurrent
<1>3. CallsHaveSession'
  BY DEF TypeOK, CallsHaveSession
<1>4. SkippedContactIsInvited'
  BY DEF TypeOK, SkippedContactIsInvited
<1>5. IdleConnectionIsTimed'
  BY DEF TypeOK, IdleConnectionIsTimed
<1>6. NoCallForgotten'
  BY DEF TypeOK, NoCallForgotten, LiveSessionIsCurrent, CallsHaveSession,
     FreshNames
<1>7. FreshNames'
  BY DEF TypeOK, FreshNames
<1> QED
  BY <1>1, <1>2, <1>3, <1>4, <1>5, <1>6, <1>7

\* PC_BYE.
LEMMA PcByeInv ==
  ASSUME ManagerInv, PcBye
  PROVE  ManagerInv'
<1> USE DEF ManagerInv, PcBye, DestroyIdle, Teardown, End, Ended, Ending,
  SessionUnchanged, callVars, sessionVars, timerVars, configVars
<1>1. TypeOK'
  BY DEF TypeOK
<1>2. LiveSessionIsCurrent'
  BY DEF TypeOK, LiveSessionIsCurrent
<1>3. CallsHaveSession'
  BY DEF TypeOK, CallsHaveSession
<1>4. SkippedContactIsInvited'
  BY DEF TypeOK, SkippedContactIsInvited
<1>5. IdleConnectionIsTimed'
  BY DEF TypeOK, IdleConnectionIsTimed
<1>6. NoCallForgotten'
  BY DEF TypeOK, NoCallForgotten
<1>7. FreshNames'
  BY DEF TypeOK, FreshNames
<1> QED
  BY <1>1, <1>2, <1>3, <1>4, <1>5, <1>6, <1>7

\* The inactivity timer the manager knows of fires.
LEMMA TimerFiresInv ==
  ASSUME ManagerInv, TimerFires
  PROVE  ManagerInv'
<1> USE DEF ManagerInv, TimerFires, Teardown, End, Ended, Ending, callVars,
  sessionVars, configVars
<1>1. TypeOK'
  BY DEF TypeOK
<1>2. LiveSessionIsCurrent'
  BY DEF TypeOK, LiveSessionIsCurrent
<1>3. CallsHaveSession'
  BY DEF TypeOK, CallsHaveSession
<1>4. SkippedContactIsInvited'
  BY DEF TypeOK, SkippedContactIsInvited
<1>5. IdleConnectionIsTimed'
  BY DEF TypeOK, IdleConnectionIsTimed
<1>6. NoCallForgotten'
  BY DEF TypeOK, NoCallForgotten
<1>7. FreshNames'
  BY DEF TypeOK, FreshNames
<1> QED
  BY <1>1, <1>2, <1>3, <1>4, <1>5, <1>6, <1>7

\* A timer whose handle was overwritten fires.
LEMMA OrphanFiresInv ==
  ASSUME ManagerInv, OrphanFires
  PROVE  ManagerInv'
<1> USE DEF ManagerInv, OrphanFires, End, Ended, Ending, callVars,
  sessionVars, configVars
<1>1. TypeOK'
  BY DEF TypeOK
<1>2. LiveSessionIsCurrent'
  BY DEF TypeOK, LiveSessionIsCurrent
<1>3. CallsHaveSession'
  BY DEF TypeOK, CallsHaveSession
<1>4. SkippedContactIsInvited'
  BY DEF TypeOK, SkippedContactIsInvited
<1>5. IdleConnectionIsTimed'
  BY DEF TypeOK, IdleConnectionIsTimed
<1>6. NoCallForgotten'
  BY DEF TypeOK, NoCallForgotten
<1>7. FreshNames'
  BY DEF TypeOK, FreshNames
<1> QED
  BY <1>1, <1>2, <1>3, <1>4, <1>5, <1>6, <1>7

\* destroy() called by the application.
LEMMA DestroyInv ==
  ASSUME ManagerInv, Destroy
  PROVE  ManagerInv'
<1> USE DEF ManagerInv, Destroy, DestroyIdle, Teardown, End, Ended, Ending,
  SessionUnchanged, callVars, sessionVars, timerVars, configVars
<1>1. TypeOK'
  BY DEF TypeOK
<1>2. LiveSessionIsCurrent'
  BY DEF TypeOK, LiveSessionIsCurrent
<1>3. CallsHaveSession'
  BY DEF TypeOK, CallsHaveSession
<1>4. SkippedContactIsInvited'
  BY DEF TypeOK, SkippedContactIsInvited
<1>5. IdleConnectionIsTimed'
  BY DEF TypeOK, IdleConnectionIsTimed
<1>6. NoCallForgotten'
  BY DEF TypeOK, NoCallForgotten
<1>7. FreshNames'
  BY DEF TypeOK, FreshNames
<1> QED
  BY <1>1, <1>2, <1>3, <1>4, <1>5, <1>6, <1>7

\* The agent's persistent-connection setting is toggled.
LEMMA ToggleInv ==
  ASSUME ManagerInv, Toggle
  PROVE  ManagerInv'
<1> USE DEF ManagerInv, Toggle, DestroyIdle, Teardown, StartPageLoad, End,
  Ended, Ending, SessionUnchanged, callVars, sessionVars, timerVars
<1>1. TypeOK'
  BY DEF TypeOK
<1>2. LiveSessionIsCurrent'
  BY DEF TypeOK, LiveSessionIsCurrent
<1>3. CallsHaveSession'
  BY DEF TypeOK, CallsHaveSession
<1>4. SkippedContactIsInvited'
  BY DEF TypeOK, SkippedContactIsInvited
<1>5. IdleConnectionIsTimed'
  BY DEF TypeOK, IdleConnectionIsTimed
<1>6. NoCallForgotten'
  BY DEF TypeOK, NoCallForgotten
<1>7. FreshNames'
  BY DEF TypeOK, FreshNames
<1> QED
  BY <1>1, <1>2, <1>3, <1>4, <1>5, <1>6, <1>7

\* The feature configuration is updated.
LEMMA FacUpdateInv ==
  ASSUME ManagerInv, FacUpdate
  PROVE  ManagerInv'
<1> USE DEF ManagerInv, FacUpdate, StartPageLoad, callVars, sessionVars,
  timerVars
<1>1. TypeOK'
  BY DEF TypeOK
<1>2. LiveSessionIsCurrent'
  BY DEF TypeOK, LiveSessionIsCurrent
<1>3. CallsHaveSession'
  BY DEF TypeOK, CallsHaveSession
<1>4. SkippedContactIsInvited'
  BY DEF TypeOK, SkippedContactIsInvited
<1>5. IdleConnectionIsTimed'
  BY DEF TypeOK, IdleConnectionIsTimed
<1>6. NoCallForgotten'
  BY DEF TypeOK, NoCallForgotten
<1>7. FreshNames'
  BY DEF TypeOK, FreshNames
<1> QED
  BY <1>1, <1>2, <1>3, <1>4, <1>5, <1>6, <1>7

\* A page-load setup, once the strategy is connected.
LEMMA StrategyConnectedInv ==
  ASSUME ManagerInv, NEW k \in PageLoads, NEW ok \in BOOLEAN, StrategyConnected(k, ok)
  PROVE  ManagerInv'
<1> USE DEF ManagerInv, StrategyConnected, callVars, sessionVars, timerVars, configVars
<1>1. TypeOK'
  BY DEF TypeOK
<1>2. LiveSessionIsCurrent'
  BY DEF TypeOK, LiveSessionIsCurrent
<1>3. CallsHaveSession'
  BY DEF TypeOK, CallsHaveSession
<1>4. SkippedContactIsInvited'
  BY DEF TypeOK, SkippedContactIsInvited
<1>5. IdleConnectionIsTimed'
  BY DEF TypeOK, IdleConnectionIsTimed
<1>6. NoCallForgotten'
  BY DEF TypeOK, NoCallForgotten
<1>7. FreshNames'
  BY DEF TypeOK, FreshNames
<1> QED
  BY <1>1, <1>2, <1>3, <1>4, <1>5, <1>6, <1>7

\* A page-load setup, once a peer connection is there.
LEMMA PageLoadPcReadyInv ==
  ASSUME ManagerInv, NEW k \in PageLoads, PageLoadPcReady(k)
  PROVE  ManagerInv'
<1> USE DEF ManagerInv, PageLoadPcReady, callVars, sessionVars, timerVars, configVars
<1>1. TypeOK'
  <2>1. CASE ~closed /\ sess = None
    BY <2>1 DEF TypeOK
  <2>2. CASE ~(~closed /\ sess = None)
    BY <2>2 DEF TypeOK
  <2> QED
    BY <2>1, <2>2
<1>2. LiveSessionIsCurrent'
  BY DEF TypeOK, LiveSessionIsCurrent
<1>3. CallsHaveSession'
  BY DEF TypeOK, CallsHaveSession
<1>4. SkippedContactIsInvited'
  BY DEF TypeOK, SkippedContactIsInvited
<1>5. IdleConnectionIsTimed'
  BY DEF TypeOK, IdleConnectionIsTimed
<1>6. NoCallForgotten'
  BY DEF TypeOK, NoCallForgotten
<1>7. FreshNames'
  BY DEF TypeOK, FreshNames
<1> QED
  BY <1>1, <1>2, <1>3, <1>4, <1>5, <1>6, <1>7

\* A page-load setup, when there is none.
LEMMA PageLoadPcRejectedInv ==
  ASSUME ManagerInv, NEW k \in PageLoads, PageLoadPcRejected(k)
  PROVE  ManagerInv'
<1> USE DEF ManagerInv, PageLoadPcRejected, callVars, sessionVars, timerVars, configVars
<1>1. TypeOK'
  BY DEF TypeOK
<1>2. LiveSessionIsCurrent'
  BY DEF TypeOK, LiveSessionIsCurrent
<1>3. CallsHaveSession'
  BY DEF TypeOK, CallsHaveSession
<1>4. SkippedContactIsInvited'
  BY DEF TypeOK, SkippedContactIsInvited
<1>5. IdleConnectionIsTimed'
  BY DEF TypeOK, IdleConnectionIsTimed
<1>6. NoCallForgotten'
  BY DEF TypeOK, NoCallForgotten, CallsHaveSession
<1>7. FreshNames'
  BY DEF TypeOK, FreshNames
<1> QED
  BY <1>1, <1>2, <1>3, <1>4, <1>5, <1>6, <1>7

\* close().
LEMMA CloseInv ==
  ASSUME ManagerInv, Close
  PROVE  ManagerInv'
<1> USE DEF ManagerInv, Close, DestroyIdle, Teardown, Persistent, End, Ended,
  Ending, SessionUnchanged, callVars, sessionVars, timerVars
<1>1. TypeOK'
  BY DEF TypeOK
<1>2. LiveSessionIsCurrent'
  BY DEF TypeOK, LiveSessionIsCurrent
<1>3. CallsHaveSession'
  BY DEF TypeOK, CallsHaveSession
<1>4. SkippedContactIsInvited'
  BY DEF TypeOK, SkippedContactIsInvited
<1>5. IdleConnectionIsTimed'
  BY DEF TypeOK, IdleConnectionIsTimed
<1>6. NoCallForgotten'
  BY DEF TypeOK, NoCallForgotten
<1>7. FreshNames'
  BY DEF TypeOK, FreshNames
<1> QED
  BY <1>1, <1>2, <1>3, <1>4, <1>5, <1>6, <1>7

\* Every step of the manager, or none, preserves the invariant.
LEMMA NextInv == ManagerInv /\ [Next]_vars => ManagerInv'
<1> SUFFICES ASSUME ManagerInv, [Next]_vars
             PROVE  ManagerInv'
  OBVIOUS
<1>1. ASSUME NEW c \in Calls, Call(c)
      PROVE  ManagerInv'
  <2>1. ASSUME NEW ok \in BOOLEAN, Hangup({c}, ok)
        PROVE  ManagerInv'
    <3>1. {c} \in SUBSET Calls
      OBVIOUS
    <3> QED
      BY <2>1, <3>1, HangupInv
  <2> QED
    BY <1>1, <2>1, CreateSessionInv, ConnectInv, AgentDataInv, PcReadyInv,
       PcRejectedInv DEF Call
<1>2. ASSUME NEW ok \in BOOLEAN, Hangup(Calls, ok)
      PROVE  ManagerInv'
  BY <1>2, HangupInv
<1>3. ASSUME NEW s \in Sessions, Report(s)
      PROVE  ManagerInv'
  BY <1>3, SessionAnsweredInv, SessionConnectedInv, SessionFailedInv,
     SessionHungUpInv DEF Report
<1>4. ASSUME NEW k \in PageLoads, PageLoadStep(k)
      PROVE  ManagerInv'
  BY <1>4, StrategyConnectedInv, PageLoadPcReadyInv,
     PageLoadPcRejectedInv DEF PageLoadStep
<1>5. ASSUME UNCHANGED vars
      PROVE  ManagerInv'
  BY <1>5 DEF vars, callVars, sessionVars, timerVars, configVars, ManagerInv,
     TypeOK, LiveSessionIsCurrent, CallsHaveSession, SkippedContactIsInvited,
     IdleConnectionIsTimed, NoCallForgotten, FreshNames
<1> QED
  BY <1>1, <1>2, <1>3, <1>4, <1>5, PcByeInv, TimerFiresInv,
     OrphanFiresInv, DestroyInv, ToggleInv, FacUpdateInv, CloseInv DEF Next

\* The invariant holds in every reachable state.
LEMMA SpecInv == Spec => []ManagerInv
  BY InitInv, NextInv, PTL DEF Spec

\* Every variable of the manager keeps its type (type correctness of
\* rtc_peer_connection_manager_v2.ts).
THEOREM TypeCorrect == Spec => []TypeOK
<1>1. ManagerInv => TypeOK
  BY DEF ManagerInv
<1> QED
  BY <1>1, SpecInv, PTL

\* However page-load setup, calls, timers and failures race, the media session
\* that is set up or talks is the one the manager holds (the rechecks of
\* _setupPageLoadPersistentConnection and the guard of destroy).
THEOREM OneLiveSession == Spec => []LiveSessionIsCurrent
<1>1. ManagerInv => LiveSessionIsCurrent
  BY DEF ManagerInv
<1> QED
  BY <1>1, SpecInv, PTL

\* The manager never keeps a call without a media session for it to wait for
\* (createSession, destroy, handleSharedMediaSessionFailed).
THEOREM CallsAlwaysHaveSession == Spec => []CallsHaveSession
<1>1. ManagerInv => CallsHaveSession
  BY DEF ManagerInv
<1> QED
  BY <1>1, SpecInv, PTL

\* A call that skips connectContact because it created the session is served by
\* that session (shouldSkipConnectContact in createSession).
THEOREM SkippedContactInvited == Spec => []SkippedContactIsInvited
<1>1. ManagerInv => SkippedContactIsInvited
  BY DEF ManagerInv
<1> QED
  BY <1>1, SpecInv, PTL

\* A persistent connection that no call uses is being timed (hangup,
\* onSharedMediaSessionConnected, connect).
THEOREM IdleConnectionTimed == Spec => []IdleConnectionIsTimed
<1>1. ManagerInv => IdleConnectionIsTimed
  BY DEF ManagerInv
<1> QED
  BY <1>1, SpecInv, PTL

\* A call that is through connect() and has not joined waits for a session that
\* is still being set up (connect, _notifyAllCallSessionsOfEvent).
THEOREM CallsNotForgotten == Spec => []NoCallForgotten
<1>1. ManagerInv => NoCallForgotten
  BY DEF ManagerInv
<1> QED
  BY <1>1, SpecInv, PTL
=============================================================================
