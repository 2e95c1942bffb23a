---------------------------- MODULE IceAccessProofs ----------------------------
(***************************************************************************)
(* The safety of the standby connection and of the ICE servers, for any    *)
(* number of calls and connections.  A connection that was handed out      *)
(* stays open because it is never the standby again, which needs the       *)
(* invariant to say that the standby is one of the open connections and    *)
(* none of those given away.  With the resolver it is the same, since      *)
(* every step here is one of the manager's or leaves it alone.  That a     *)
(* contact from another region is caught rests on the remembered URL: as   *)
(* long as the API has told nothing but one URL, that is the one           *)
(* remembered.                                                             *)
(***************************************************************************)
EXTENDS IceAccess, TLAPS

-----------------------------------------------------------------------------
(* The standby connection.                                                 *)

\* Only connections that were created are open or given away, and the standby
\* is open and still the standby manager's own.
StandbyIsOwn ==
  /\ openPcs \subseteq 1..created
  /\ given \subseteq 1..created
  /\ standbyPc # None => standbyPc \in openPcs \ given

\* The inductive invariant.
StandbyInv ==
  /\ TypeOK
  /\ StandbyIsTimed
  /\ HandedOutStaysOpen
  /\ StandbyIsOwn

USE StandbyAssumption DEF None, Pcs, standbyVars, pcVars, managerVars

\* The constructor establishes the invariant.
LEMMA InitInv == Init => StandbyInv
<1> SUFFICES ASSUME Init PROVE StandbyInv
  OBVIOUS
<1>1. created \in 0..MaxPcs /\ orphans \in Nat
  BY DEF Init
<1>2. {pending, timer, checker, ppc, allowed, closed} \subseteq BOOLEAN
  BY DEF Init
<1>3. TypeOK
  BY <1>1, <1>2 DEF Init, TypeOK
<1> QED
  BY <1>3 DEF Init, StandbyInv, StandbyIsTimed, HandedOutStaysOpen, StandbyIsOwn

\* A connection is created, and stored or closed.
LEMMA RequestSucceedsInv ==
  ASSUME StandbyInv, RequestSucceeds
  PROVE  StandbyInv'
<1> USE DEF StandbyInv, RequestSucceeds, StoreStandby
<1>1. TypeOK'
  <2>1. created + 1 \in 1..MaxPcs /\ created' \in 0..MaxPcs
    BY DEF TypeOK
  <2>2. standbyPc' \in 1..MaxPcs \union {0} /\ openPcs' \subseteq 1..MaxPcs
    BY <2>1 DEF TypeOK
  <2>3. timer' \in BOOLEAN
    BY DEF TypeOK
  <2>4. orphans' \in Nat
    BY DEF TypeOK
  <2> QED
    BY <2>1, <2>2, <2>3, <2>4 DEF TypeOK
<1>2. StandbyIsTimed'
  BY DEF TypeOK, StandbyIsTimed
<1>3. StandbyIsOwn'
  <2>1. created \in Nat /\ created' = created + 1 /\ given' = given
    BY DEF TypeOK
  <2>2. 1..created \subseteq 1..created' /\ created + 1 \in 1..created'
    BY <2>1
  <2>3. created + 1 \notin given
    BY <2>1 DEF StandbyIsOwn
  <2>4. \/ standbyPc' = standbyPc /\ openPcs' = openPcs
        \/ standbyPc' = created + 1 /\ openPcs' = openPcs \union {created + 1}
    OBVIOUS
  <2> QED
    BY <2>1, <2>2, <2>3, <2>4 DEF StandbyIsOwn
<1>4. HandedOutStaysOpen'
  BY DEF TypeOK, HandedOutStaysOpen, StandbyIsOwn
<1> QED
  BY <1>1, <1>2, <1>3, <1>4

\* No connection can be created.
LEMMA RequestFailsInv ==
  ASSUME StandbyInv, RequestFails
  PROVE  StandbyInv'
<1> USE DEF StandbyInv, RequestFails
<1>1. TypeOK'
  BY DEF TypeOK, StandbyIsOwn
<1>2. StandbyIsTimed'
  BY DEF TypeOK, StandbyIsTimed
<1>3. StandbyIsOwn'
  BY DEF TypeOK, StandbyIsOwn
<1>4. HandedOutStaysOpen'
  BY DEF TypeOK, HandedOutStaysOpen, StandbyIsOwn
<1> QED
  BY <1>1, <1>2, <1>3, <1>4

\* The standby connection is refreshed.
LEMMA RefreshTimerFiresInv ==
  ASSUME StandbyInv, RefreshTimerFires
  PROVE  StandbyInv'
<1> USE DEF StandbyInv, RefreshTimerFires, Refresh, CloseStandbyPc, RequestStandby
<1>1. TypeOK'
  BY DEF TypeOK, StandbyIsOwn
<1>2. StandbyIsTimed'
  BY DEF TypeOK, StandbyIsTimed
<1>3. StandbyIsOwn'
  BY DEF TypeOK, StandbyIsOwn
<1>4. HandedOutStaysOpen'
  BY DEF TypeOK, HandedOutStaysOpen, StandbyIsOwn
<1> QED
  BY <1>1, <1>2, <1>3, <1>4

\* A timer whose id was overwritten refreshes the connection.
LEMMA OrphanTimerFiresInv ==
  ASSUME StandbyInv, OrphanTimerFires
  PROVE  StandbyInv'
<1> USE DEF StandbyInv, OrphanTimerFires, Refresh, CloseStandbyPc, RequestStandby
<1>1. TypeOK'
  <2>1. orphans' \in Nat
    BY DEF TypeOK
  <2>2. pending' \in BOOLEAN
    BY DEF TypeOK
  <2> QED
    BY <2>1, <2>2 DEF TypeOK
<1>2. StandbyIsTimed'
  BY DEF TypeOK, StandbyIsTimed
<1>3. StandbyIsOwn'
  BY DEF TypeOK, StandbyIsOwn
<1>4. HandedOutStaysOpen'
  BY DEF TypeOK, HandedOutStaysOpen, StandbyIsOwn
<1> QED
  BY <1>1, <1>2, <1>3, <1>4

\* The offline check closes the connection.
LEMMA FoundOfflineInv ==
  ASSUME StandbyInv, FoundOffline
  PROVE  StandbyInv'
<1> USE DEF StandbyInv, FoundOffline, CloseStandbyPc
<1>1. TypeOK'
  BY DEF TypeOK, StandbyIsOwn
<1>2. StandbyIsTimed'
  BY DEF TypeOK, StandbyIsTimed
<1>3. StandbyIsOwn'
  BY DEF TypeOK, StandbyIsOwn
<1>4. HandedOutStaysOpen'
  BY DEF TypeOK, HandedOutStaysOpen, StandbyIsOwn
<1> QED
  BY <1>1, <1>2, <1>3, <1>4

\* The connection is handed out.
LEMMA ConsumeInv ==
  ASSUME StandbyInv, Consume
  PROVE  StandbyInv'
<1> USE DEF StandbyInv, Consume, RequestStandby
<1>1. TypeOK'
  BY DEF TypeOK, StandbyIsOwn
<1>2. StandbyIsTimed'
  BY DEF TypeOK, StandbyIsTimed
<1>3. StandbyIsOwn'
  BY DEF TypeOK, StandbyIsOwn
<1>4. HandedOutStaysOpen'
  BY DEF TypeOK, HandedOutStaysOpen, StandbyIsOwn
<1> QED
  BY <1>1, <1>2, <1>3, <1>4

\* An answer sets the allowlisting.
LEMMA AnsweredInv ==
  ASSUME StandbyInv, NEW allowlisted \in BOOLEAN, Answered(allowlisted)
  PROVE  StandbyInv'
<1> USE DEF StandbyInv, Answered
<1>1. TypeOK'
  BY DEF TypeOK, StandbyIsOwn
<1>2. StandbyIsTimed'
  BY DEF TypeOK, StandbyIsTimed
<1>3. StandbyIsOwn'
  BY DEF TypeOK, StandbyIsOwn
<1>4. HandedOutStaysOpen'
  BY DEF TypeOK, HandedOutStaysOpen, StandbyIsOwn
<1> QED
  BY <1>1, <1>2, <1>3, <1>4

\* The agent's setting is toggled.
LEMMA ToggleInv ==
  ASSUME StandbyInv, Toggle
  PROVE  StandbyInv'
<1> USE DEF StandbyInv, Toggle, RequestStandby, CloseStandbyConnection, CloseStandbyPc
<1>1. TypeOK'
  BY DEF TypeOK, StandbyIsOwn
<1>2. StandbyIsTimed'
  BY DEF TypeOK, StandbyIsTimed
<1>3. StandbyIsOwn'
  BY DEF TypeOK, StandbyIsOwn
<1>4. HandedOutStaysOpen'
  BY DEF TypeOK, HandedOutStaysOpen, StandbyIsOwn
<1> QED
  BY <1>1, <1>2, <1>3, <1>4

\* The manager is closed.
LEMMA CloseInv ==
  ASSUME StandbyInv, Close
  PROVE  StandbyInv'
<1> USE DEF StandbyInv, Close, CloseStandbyConnection, CloseStandbyPc
<1>1. TypeOK'
  BY DEF TypeOK, StandbyIsOwn
<1>2. StandbyIsTimed'
  BY DEF TypeOK, StandbyIsTimed
<1>3. StandbyIsOwn'
  BY DEF TypeOK, StandbyIsOwn
<1>4. HandedOutStaysOpen'
  BY DEF TypeOK, HandedOutStaysOpen, StandbyIsOwn
<1> QED
  BY <1>1, <1>2, <1>3, <1>4

\* Every step preserves the invariant.
LEMMA StandbyStepInv ==
  ASSUME StandbyInv, [Next]_vars
  PROVE  StandbyInv'
<1>1. CASE UNCHANGED vars
  BY <1>1 DEF vars, StandbyInv, TypeOK, StandbyIsTimed, HandedOutStaysOpen,
     StandbyIsOwn
<1>2. CASE Next
  BY <1>2, RequestSucceedsInv, RequestFailsInv, RefreshTimerFiresInv,
     OrphanTimerFiresInv, FoundOfflineInv, ConsumeInv, AnsweredInv, ToggleInv,
     CloseInv DEF Next
<1> QED
  BY <1>1, <1>2

\* The invariant holds in every reachable state.
LEMMA SpecInv == Spec => []StandbyInv
<1>1. StandbyInv /\ [Next]_vars => StandbyInv'
  BY StandbyStepInv
<1> QED
  BY InitInv, <1>1, PTL DEF Spec

\* Every variable of the standby manager keeps its type (type correctness of
\* standby_peer_connection_manager.ts).
THEOREM TypeCorrect == Spec => []TypeOK
<1>1. StandbyInv => TypeOK
  BY DEF StandbyInv
<1> QED
  BY <1>1, SpecInv, PTL

\* A standby connection always has a refresh timer running, whichever of offline
\* check, consumption, overwritten timer or close came in between
\* (_createStandbyPeerConnection, consumeStandbyPc, _closeStandbyPc).
THEOREM StandbyTimed == Spec => []StandbyIsTimed
<1>1. StandbyInv => StandbyIsTimed
  BY DEF StandbyInv
<1> QED
  BY <1>1, SpecInv, PTL

\* The standby manager never closes a connection it has handed out
\* (consumeStandbyPc, _refreshStandbyPeerConnection, closeStandbyConnection).
THEOREM HandedOutOpen == Spec => []HandedOutStaysOpen
<1>1. StandbyInv => HandedOutStaysOpen
  BY DEF StandbyInv
<1> QED
  BY <1>1, SpecInv, PTL

-----------------------------------------------------------------------------
(* The ICE servers.                                                        *)

\* What the API has told is what a contact is compared with.
UrlIsRemembered == told = {"home"} => cached = "home"

\* The one-time fetch belongs to the one call that made the flag true, which has
\* no servers yet.
ProbeIsCounted ==
  \A c \in Calls :
    /\ calls[c].probe # "none" => tried
    /\ calls[c].stage = "probing" =>
         calls[c].probe # "none" /\ calls[c].servers = "none"

\* The inductive invariant of the resolver.
ResolverInv ==
  /\ Resolver!ResolverTypeOK
  /\ UrlIsRemembered
  /\ ProbeIsCounted
  /\ ForeignIsCaught

USE DEF Resolver!NoUrl, Resolver!Urls, Resolver!Contacts

\* A new request is a request.
LEMMA NewRequest ==
  ASSUME NEW contact \in Resolver!Contacts, NEW stage \in {"fetching", "probing"},
         NEW probe \in {"none", "asked"}
  PROVE  [Resolver!NoRequest EXCEPT !.contact = contact, !.stage = stage,
                                    !.probe = probe] \in Resolver!Request
BY DEF Resolver!NoRequest, Resolver!Request

\* Whether the API told a URL or nothing, the remembered one is up to date.
LEMMA LearnRemembers ==
  ASSUME ResolverInv,
         \/ UNCHANGED <<cached, told>>
         \/ \E url \in Resolver!Urls : Resolver!Learn(url)
  PROVE  /\ UrlIsRemembered'
         /\ cached' \in Resolver!Urls /\ told' \subseteq Resolver!Urls
<1>1. CASE UNCHANGED <<cached, told>>
  BY <1>1 DEF ResolverInv, UrlIsRemembered, Resolver!ResolverTypeOK
<1>2. ASSUME NEW url \in Resolver!Urls, Resolver!Learn(url)
      PROVE  /\ UrlIsRemembered'
             /\ cached' \in Resolver!Urls /\ told' \subseteq Resolver!Urls
  BY <1>2 DEF ResolverInv, UrlIsRemembered, Resolver!ResolverTypeOK, Resolver!Learn
<1> QED
  BY <1>1, <1>2

\* What a step that moves one call has to see to.
LEMMA CallMoves ==
  ASSUME ResolverInv, NEW c \in Calls, NEW r \in Resolver!Request,
         calls' = [calls EXCEPT ![c] = r],
         \/ UNCHANGED <<cached, told>>
         \/ \E url \in Resolver!Urls : Resolver!Learn(url),
         tried' \in BOOLEAN, tried => tried',
         r.probe # "none" => tried' /\ (calls[c].probe # "none" \/ ~tried),
         r.stage = "probing" => r.probe # "none" /\ r.servers = "none",
         r.contact = "foreign" /\ r.servers = "contact" =>
           r.probe = "failed" \/ r.told # {"home"}
  PROVE  ResolverInv'
<1>1. /\ calls \in [Calls -> Resolver!Request]
      /\ calls' \in [Calls -> Resolver!Request]
      /\ \A d \in Calls : calls'[d] = IF d = c THEN r ELSE calls[d]
  BY DEF ResolverInv, Resolver!ResolverTypeOK
<1>2. \A d, e \in Calls : calls'[d].probe # "none" /\ calls'[e].probe # "none" => d = e
  BY <1>1 DEF ResolverInv, Resolver!ResolverTypeOK, ProbeIsCounted
<1>3. Resolver!ResolverTypeOK'
  BY <1>1, <1>2, LearnRemembers DEF Resolver!ResolverTypeOK
<1>4. ProbeIsCounted'
  BY <1>1 DEF ResolverInv, ProbeIsCounted
<1>5. ForeignIsCaught'
  BY <1>1 DEF ResolverInv, ForeignIsCaught
<1> QED
  BY <1>3, <1>4, <1>5, LearnRemembers DEF ResolverInv

\* A call asks for servers.
LEMMA AskInv ==
  ASSUME ResolverInv, NEW c \in Calls, NEW contact \in Resolver!Contacts,
         Resolver!Ask(c, contact)
  PROVE  ResolverInv'
<1> DEFINE request == [Resolver!NoRequest EXCEPT !.contact = contact]
<1>1. /\ request.stage = "none" /\ request.contact = contact
      /\ request.probe = "none" /\ request.servers = "none"
  BY DEF Resolver!NoRequest
<1>2. request \in Resolver!Request
  BY DEF Resolver!NoRequest, Resolver!Request
<1>3. /\ UNCHANGED <<cached, told>> /\ tried \in BOOLEAN /\ cached \in Resolver!Urls
      /\ told \subseteq Resolver!Urls
  BY DEF Resolver!Ask, ResolverInv, Resolver!ResolverTypeOK
<1> HIDE DEF request
<1>4. CASE /\ calls' = [calls EXCEPT ![c] = [request EXCEPT !.stage = "fetching"]]
           /\ UNCHANGED tried
  <2> DEFINE r == [request EXCEPT !.stage = "fetching"]
  <2>1. /\ r \in Resolver!Request
        /\ r.stage = "fetching" /\ r.probe = "none" /\ r.servers = "none"
    BY <1>1, <1>2 DEF Resolver!Request
  <2> HIDE DEF r
  <2>2. calls' = [calls EXCEPT ![c] = r]
    BY <1>4 DEF r
  <2> QED
    BY <1>3, <1>4, <2>1, <2>2, CallMoves
<1>5. CASE /\ cached # "no url" \/ tried
           /\ calls' = [calls EXCEPT ![c] = Resolver!Decided(request, cached, told)]
           /\ UNCHANGED tried
  <2> DEFINE r == Resolver!Decided(request, cached, told)
  <2>1. r = Resolver!Decided(request, cached, told)
    OBVIOUS
  <2> HIDE DEF r
  <2>2. /\ r \in Resolver!Request
        /\ r.contact = request.contact /\ r.probe = request.probe
        /\ r.stage \in {"fetching", "done"}
        /\ \/ r.servers = request.servers
           \/ r.servers = "contact" /\ r.told = told
              /\ (request.contact = "foreign" => cached = "no url")
    BY <1>2, <1>3, <2>1 DEF Resolver!Decided, Resolver!Done, Resolver!Request
  <2>3. r.contact = "foreign" /\ r.servers = "contact" => r.told # {"home"}
    BY <1>1, <2>2 DEF ResolverInv, UrlIsRemembered
  <2>4. r.probe = "none"
    BY <1>1, <2>2
  <2>5. r.stage # "probing" /\ r \in Resolver!Request
    BY <2>2
  <2>6. calls' = [calls EXCEPT ![c] = r]
    BY <1>5 DEF r
  <2> QED
    BY <1>3, <1>5, <2>3, <2>4, <2>5, <2>6, CallMoves
<1>6. CASE /\ calls' = [calls EXCEPT ![c] =
                          [request EXCEPT !.stage = "probing", !.probe = "asked"]]
           /\ ~tried /\ tried' = TRUE
  <2> DEFINE r == [request EXCEPT !.stage = "probing", !.probe = "asked"]
  <2>1. /\ r \in Resolver!Request
        /\ r.stage = "probing" /\ r.probe = "asked" /\ r.servers = "none"
    BY <1>1, <1>2 DEF Resolver!Request
  <2> HIDE DEF r
  <2>2. calls' = [calls EXCEPT ![c] = r]
    BY <1>6 DEF r
  <2> QED
    BY <1>3, <1>6, <2>1, <2>2, CallMoves
<1> QED
  BY <1>4, <1>5, <1>6 DEF Resolver!Ask, request

\* The one-time fetch ends, with a URL or without one.
LEMMA ProbeInv ==
  ASSUME ResolverInv, NEW c \in Calls, NEW url \in Resolver!Urls,
         NEW how \in {"answered", "failed"}, NEW heard, heard \subseteq Resolver!Urls,
         how = "answered" => url \in heard,
         calls[c].stage = "probing",
         calls' = [calls EXCEPT ![c] =
                     Resolver!Decided([calls[c] EXCEPT !.probe = how], url, heard)],
         \/ UNCHANGED <<cached, told>>
         \/ \E u \in Resolver!Urls : Resolver!Learn(u),
         UNCHANGED tried
  PROVE  ResolverInv'
<1> DEFINE q == [calls[c] EXCEPT !.probe = how]
           r == Resolver!Decided(q, url, heard)
<1>1. calls[c] \in Resolver!Request /\ tried \in BOOLEAN
  BY DEF ResolverInv, Resolver!ResolverTypeOK
<1>2. calls[c].probe # "none" /\ calls[c].servers = "none" /\ tried
  BY DEF ResolverInv, ProbeIsCounted
<1>3. q \in Resolver!Request /\ q.probe = how /\ q.servers = calls[c].servers
  BY <1>1 DEF Resolver!Request
<1> HIDE DEF q
<1>4. r = Resolver!Decided(q, url, heard)
  OBVIOUS
<1> HIDE DEF r
<1>5. /\ r \in Resolver!Request /\ r.probe = how
      /\ r.contact = q.contact /\ r.stage \in {"fetching", "done"}
      /\ \/ r.servers = q.servers
         \/ r.servers = "contact" /\ r.told = heard
            /\ (q.contact = "foreign" => url = "no url")
  BY <1>3, <1>4 DEF Resolver!Decided, Resolver!Done, Resolver!Request
<1>6. calls' = [calls EXCEPT ![c] = r]
  BY DEF r, q
<1>7. r.contact = "foreign" /\ r.servers = "contact"
        => r.probe = "failed" \/ r.told # {"home"}
  BY <1>2, <1>3, <1>5
<1> QED
  BY <1>1, <1>2, <1>5, <1>6, <1>7, CallMoves

\* The fetch for one call ends, with servers of the API or with none.
LEMMA FetchInv ==
  ASSUME ResolverInv, NEW c \in Calls, NEW servers \in {"api", "null"},
         calls[c].stage = "fetching",
         calls' = [calls EXCEPT ![c] = Resolver!Done(calls[c], servers)],
         \/ UNCHANGED <<cached, told>>
         \/ \E u \in Resolver!Urls : Resolver!Learn(u),
         UNCHANGED tried
  PROVE  ResolverInv'
<1> DEFINE r == Resolver!Done(calls[c], servers)
<1>1. calls[c] \in Resolver!Request /\ tried \in BOOLEAN
  BY DEF ResolverInv, Resolver!ResolverTypeOK
<1>2. r \in Resolver!Request /\ r.probe = calls[c].probe /\ r.stage = "done"
      /\ r.servers = servers
  BY <1>1 DEF Resolver!Done, Resolver!Request
<1>3. calls[c].probe # "none" => tried
  BY DEF ResolverInv, ProbeIsCounted
<1> HIDE DEF r
<1>4. calls' = [calls EXCEPT ![c] = r]
  BY DEF r
<1> QED
  BY <1>1, <1>2, <1>3, <1>4, CallMoves

\* The API answers a call.
LEMMA ApiAnswersInv ==
  ASSUME ResolverInv, NEW c \in Calls, Resolver!ApiAnswers(c)
  PROVE  ResolverInv'
<1>1. ASSUME NEW url \in Resolver!Urls, Resolver!ProbeAnswered(c, url)
      PROVE  ResolverInv'
  <2>1. told \union {url} \subseteq Resolver!Urls /\ url \in told \union {url}
    BY DEF ResolverInv, Resolver!ResolverTypeOK
  <2> QED
    BY <1>1, <2>1, ProbeInv DEF Resolver!ProbeAnswered
<1>2. ASSUME NEW url \in Resolver!Urls, Resolver!Fetched(c, url)
      PROVE  ResolverInv'
  BY <1>2, FetchInv DEF Resolver!Fetched
<1>3. ASSUME Resolver!FetchRefused(c)
      PROVE  ResolverInv'
  BY <1>3, FetchInv DEF Resolver!FetchRefused
<1> QED
  BY <1>1, <1>2, <1>3 DEF Resolver!ApiAnswers

\* The standby connection's answer tells the resolver a URL, or nothing.
LEMMA StandbyAnsweredInv ==
  ASSUME ResolverInv, UNCHANGED <<tried, calls>>,
         \/ UNCHANGED <<cached, told>>
         \/ \E url \in Resolver!Urls : Resolver!Learn(url)
  PROVE  ResolverInv'
<1>1. Resolver!ResolverTypeOK'
  BY LearnRemembers DEF ResolverInv, Resolver!ResolverTypeOK
<1> QED
  BY <1>1, LearnRemembers DEF ResolverInv, ProbeIsCounted, ForeignIsCaught

\* A step of the whole is a step of the standby manager, or leaves it alone.
LEMMA StandbySteps == [AccessNext]_accessVars => [Next]_vars
BY DEF AccessNext, accessVars, StandbyAnswered, StandbyElse, CallAsks, CallAnswered,
   ProbeEnds, Next

\* Nobody has asked and the API has told nothing.
LEMMA ResolverInitInv == Resolver!ResolverInit => ResolverInv
<1> SUFFICES ASSUME Resolver!ResolverInit PROVE ResolverInv
  OBVIOUS
<1>1. Resolver!NoRequest \in Resolver!Request
  BY DEF Resolver!NoRequest, Resolver!Request
<1>2. \A c \in Calls : /\ calls[c].stage = "none" /\ calls[c].probe = "none"
                       /\ calls[c].servers = "none"
  BY DEF Resolver!ResolverInit, Resolver!NoRequest
<1>3. Resolver!ResolverTypeOK
  BY <1>1, <1>2 DEF Resolver!ResolverInit, Resolver!ResolverTypeOK
<1> QED
  BY <1>2, <1>3 DEF Resolver!ResolverInit, ResolverInv, UrlIsRemembered,
     ProbeIsCounted, ForeignIsCaught

\* Both invariants hold in every reachable state.
LEMMA AccessInv == AccessSpec => [](StandbyInv /\ ResolverInv)
<1>1. AccessInit => StandbyInv /\ ResolverInv
  BY InitInv, ResolverInitInv DEF AccessInit
<1>2. StandbyInv /\ ResolverInv /\ [AccessNext]_accessVars
        => StandbyInv' /\ ResolverInv'
  <2> SUFFICES ASSUME StandbyInv, ResolverInv, [AccessNext]_accessVars
               PROVE  StandbyInv' /\ ResolverInv'
    OBVIOUS
  <2>1. StandbyInv'
    BY StandbySteps, StandbyStepInv
  <2>2. ResolverInv'
    <3>1. CASE UNCHANGED resolverVars
      BY <3>1, StandbyAnsweredInv DEF resolverVars
    <3>2. CASE StandbyAnswered
      BY <3>2, StandbyAnsweredInv DEF StandbyAnswered
    <3>3. ASSUME NEW c \in Calls, CallAsks(c)
          PROVE  ResolverInv'
      BY <3>3, AskInv DEF CallAsks
    <3>4. ASSUME NEW c \in Calls, CallAnswered(c)
          PROVE  ResolverInv'
      BY <3>4, ApiAnswersInv DEF CallAnswered
    <3>5. ASSUME NEW c \in Calls, ProbeEnds(c)
          PROVE  ResolverInv'
      <4>1. told \subseteq Resolver!Urls /\ Resolver!NoUrl \in Resolver!Urls
        BY DEF ResolverInv, Resolver!ResolverTypeOK
      <4> QED
        BY <3>5, <4>1, ProbeInv DEF ProbeEnds, Resolver!ProbeGivesUp
    <3> QED
      BY <3>1, <3>2, <3>3, <3>4, <3>5 DEF AccessNext, accessVars, StandbyElse
  <2> QED
    BY <2>1, <2>2
<1> QED
  BY <1>1, <1>2, PTL DEF AccessSpec

\* Standby manager and resolver keep their types, and the one-time fetch is made
\* by one call at most (standby_peer_connection_manager.ts, _hasTriedInitialFetch
\* in credential_resolver.ts).
THEOREM AccessTypeCorrect == AccessSpec => []AccessTypeOK
<1>1. StandbyInv /\ ResolverInv => AccessTypeOK
  BY DEF StandbyInv, ResolverInv, AccessTypeOK
<1> QED
  BY <1>1, AccessInv, PTL

\* However the calls, the standby connection's refreshes and the answers of the
\* API interleave, servers of another region are used only while the region is
\* unknown, or by the call whose own fetch of the URL was refused or too late
\* (_isContactCrossRegion, _getCachedIceURL, _updateCachedURL).
THEOREM ForeignCaught == AccessSpec => []ForeignIsCaught
<1>1. ResolverInv => ForeignIsCaught
  BY DEF ResolverInv
<1> QED
  BY <1>1, AccessInv, PTL

\* Beside a resolver shared with calls the standby connection is timed as it is
\* alone (_createStandbyPeerConnection).
THEOREM AccessStandbyTimed == AccessSpec => []StandbyIsTimed
<1>1. StandbyInv => StandbyIsTimed
  BY DEF StandbyInv
<1> QED
  BY <1>1, AccessInv, PTL

\* And what was handed out stays open (consumeStandbyPc).
THEOREM AccessHandedOutOpen == AccessSpec => []HandedOutStaysOpen
<1>1. StandbyInv => HandedOutStaysOpen
  BY DEF StandbyInv
<1> QED
  BY <1>1, AccessInv, PTL
=============================================================================
