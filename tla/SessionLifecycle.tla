--------------------------- MODULE SessionLifecycle ---------------------------
(***************************************************************************)
(* What a media session promises its connection manager                    *)
(* (RtcPeerConnectionManagerV2.registerSharedMediaSessionCallbacks): the   *)
(* order of the callbacks, each attempt having one outcome.                *)
(***************************************************************************)
EXTENDS Sequences

VARIABLES
  phase,     \* "idle", "setup", "forsaken", "connected", "ended"
  told       \* the callbacks invoked so far

Init == phase = "idle" /\ told = <<>>

Completion == IF phase = "connected" THEN <<"completed">> ELSE <<>>

\* connect(): a new attempt; a conversation it interrupts is completed first.
Start ==
  /\ phase' = "setup"
  /\ told' = told \o Completion

\* The attempt succeeds, once.
Establish ==
  /\ phase = "setup"
  /\ phase' = "connected"
  /\ told' = Append(told, "connected")

\* The server accepts the attempt in an answer the session cannot read: the
\* attempt can still end or be replaced, but it never succeeds any more.
Forsake ==
  /\ phase = "setup"
  /\ phase' = "forsaken"
  /\ UNCHANGED told

\* The attempt ends: in failure from any phase, otherwise only after a
\* conversation; the last callback is always "destroyed".
End ==
  /\ phase \in {"setup", "forsaken", "connected"}
  /\ phase' = "ended"
  /\ \/ told' = told \o Completion \o <<"failed", "destroyed">>
     \/ phase = "connected" /\ told' = told \o <<"completed", "destroyed">>

Next == Start \/ Establish \/ Forsake \/ End

vars == <<phase, told>>

\* A setup that started is not left hanging unless the server forsakes it.
Spec == Init /\ [][Next]_vars /\ WF_vars(Establish \/ Forsake \/ (phase = "setup" /\ End))
=============================================================================
