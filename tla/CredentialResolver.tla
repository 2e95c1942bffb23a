-------------------------- MODULE CredentialResolver --------------------------
(***************************************************************************)
(* The credential resolver (src/src/credential_resolver.ts): which ICE     *)
(* servers a call uses, those its contact brought or fresh ones of the     *)
(* API.  A contact from another region is recognised by comparing its URL  *)
(* with the one remembered from the API, which the first call to need it   *)
(* fetches, once, for at most a second.                                    *)
(***************************************************************************)
CONSTANT Calls

VARIABLES
  cached,              \* _cachedIceURL
  tried,               \* _hasTriedInitialFetch
  told,                \* history: the URLs the API has answered with so far
  calls                \* the requests: getIceCredentialsForCall

resolverVars == <<cached, tried, told, calls>>

NoUrl == "no url"
Urls  == {"home", NoUrl}

\* What a contact brings: no servers, servers without a URL, or a URL.
Contacts == {"nothing", NoUrl, "home", "foreign"}

\* "probing" awaits the race of _getCachedIceURL, "fetching" the API.
Request ==
  [stage   : {"none", "probing", "fetching", "done"},
   contact : Contacts,
   probe   : {"none", "asked", "answered", "failed"},  \* its fetch of the URL
   told    : SUBSET Urls,              \* history: told, when it was decided
   servers : {"none", "contact", "api", "null"}]

NoRequest == [stage |-> "none", contact |-> "nothing", probe |-> "none",
              told |-> {}, servers |-> "none"]

\* Types; the API is asked for the URL by one call at most.
ResolverTypeOK ==
  /\ cached \in Urls
  /\ tried \in BOOLEAN
  /\ told \subseteq Urls
  /\ calls \in [Calls -> Request]
  /\ \A c, d \in Calls : calls[c].probe # "none" /\ calls[d].probe # "none" => c = d

ResolverInit ==
  /\ cached = NoUrl
  /\ tried = FALSE
  /\ told = {}
  /\ calls = [c \in Calls |-> NoRequest]

-----------------------------------------------------------------------------
\* The API answers with a list whose first URL, if any, is remembered: an
\* empty list makes the resolver forget the one it had.
Learn(url) ==
  /\ cached' = url
  /\ told' = told \union {url}

Done(request, servers) ==
  [request EXCEPT !.stage = "done", !.servers = servers]

\* _isContactCrossRegion, told the remembered URL, and what follows from it;
\* heard: what the API has told by now.
Decided(request, url, heard) ==
  IF url # NoUrl /\ request.contact \notin {NoUrl, url}
    THEN [request EXCEPT !.stage = "fetching"]
    ELSE Done([request EXCEPT !.told = heard], "contact")

\* getIceCredentialsForCall up to its first await.  While the first call's
\* fetch is under way, and after it, nobody waits for another.
Ask(c, contact) ==
  LET request == [NoRequest EXCEPT !.contact = contact] IN
  /\ calls[c].stage = "none"
  /\ \/ /\ contact = "nothing"
        /\ calls' = [calls EXCEPT ![c] = [request EXCEPT !.stage = "fetching"]]
        /\ UNCHANGED tried
     \/ /\ contact # "nothing" /\ (cached # NoUrl \/ tried)
        /\ calls' = [calls EXCEPT ![c] = Decided(request, cached, told)]
        /\ UNCHANGED tried
     \/ /\ contact # "nothing" /\ cached = NoUrl /\ ~tried
        /\ calls' = [calls EXCEPT ![c] = [request EXCEPT !.stage = "probing",
                                                         !.probe = "asked"]]
        /\ tried' = TRUE
  /\ UNCHANGED <<cached, told>>

\* The API answers the one-time fetch within its second.
ProbeAnswered(c, url) ==
  /\ calls[c].stage = "probing"
  /\ Learn(url)
  /\ calls' = [calls EXCEPT ![c] =
                  Decided([@ EXCEPT !.probe = "answered"], url, told \union {url})]
  /\ UNCHANGED tried

\* Mutant: without a URL to compare with, the API is asked again.
ProbeGivesUp_Fetches(c) ==
  /\ calls[c].stage = "probing"
  /\ calls' = [calls EXCEPT ![c].stage = "fetching"]
  /\ UNCHANGED <<cached, tried, told>>

\* The API refuses, or the second is over; an answer after it is dropped.  A
\* URL that another request has brought meanwhile is not looked at.
ProbeGivesUp(c) ==
  /\ calls[c].stage = "probing"
  /\ calls' = [calls EXCEPT ![c] = Decided([@ EXCEPT !.probe = "failed"], NoUrl, told)]
  /\ UNCHANGED <<cached, tried, told>>

\* _fetchIceCredentials; nothing limits its time.
Fetched(c, url) ==
  /\ calls[c].stage = "fetching"
  /\ Learn(url)
  /\ calls' = [calls EXCEPT ![c] = Done(@, "api")]
  /\ UNCHANGED tried

\* Mutant: a refused fetch clears the remembered URL.
FetchRefused_Forgets(c) ==
  /\ calls[c].stage = "fetching"
  /\ calls' = [calls EXCEPT ![c] = Done(@, "null")]
  /\ cached' = NoUrl
  /\ UNCHANGED <<tried, told>>

FetchRefused(c) ==
  /\ calls[c].stage = "fetching"
  /\ calls' = [calls EXCEPT ![c] = Done(@, "null")]
  /\ UNCHANGED <<cached, tried, told>>

-----------------------------------------------------------------------------
ApiAnswers(c) ==
  \/ \E url \in Urls : ProbeAnswered(c, url) \/ Fetched(c, url)
  \/ FetchRefused(c)
=============================================================================
