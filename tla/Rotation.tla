------------------------------ MODULE Rotation ------------------------------
(***************************************************************************)
(* What rotating a credential under create_before_destroy promises its     *)
(* consumer (README, pmcp_token): generations overlap, the consumer is     *)
(* switched over between the two legs, and the provider never retires the  *)
(* credential in use.                                                      *)
(***************************************************************************)
CONSTANTS Ids, None

VARIABLES
  issued,   \* the credentials ever issued
  live,     \* those the hub accepts
  inUse,    \* the one the consumer was given, or None
  lapsed,   \* those ended by somebody else, or by their own expiry
  unheard   \* those retired without the provider hearing that they were

vars == <<issued, live, inUse, lapsed, unheard>>

TypeOK ==
  /\ issued \subseteq Ids /\ live \subseteq issued
  /\ inUse \in issued \cup {None}
  /\ lapsed \subseteq issued /\ unheard \subseteq issued

Init ==
  /\ issued = {} /\ live = {} /\ inUse = None
  /\ lapsed = {} /\ unheard = {}

Issue(i) ==
  /\ i \notin issued
  /\ issued' = issued \cup {i} /\ live' = live \cup {i}
  /\ UNCHANGED <<inUse, lapsed, unheard>>

SwitchTo(i) ==
  /\ i \in live \cup lapsed \cup unheard
  /\ inUse' = i
  /\ UNCHANGED <<issued, live, lapsed, unheard>>

Withdraw ==
  /\ inUse' = None
  /\ UNCHANGED <<issued, live, lapsed, unheard>>

\* Never the one in use.  The provider may hear of it, or not.
Retire(i) ==
  /\ i \in issued \ {inUse}
  /\ live' = live \ {i}
  /\ unheard' \in {unheard, unheard \cup {i}}
  /\ UNCHANGED <<issued, inUse, lapsed>>

\* Revoked by hand, expired, or gone with the agent it authenticates.
Lapse(S) ==
  /\ S \subseteq live
  /\ live' = live \ S /\ lapsed' = lapsed \cup S
  /\ UNCHANGED <<issued, inUse, unheard>>

Next ==
  \/ \E i \in Ids : Issue(i) \/ SwitchTo(i) \/ Retire(i)
  \/ \E S \in SUBSET Ids : Lapse(S)
  \/ Withdraw

Spec == Init /\ [][Next]_vars

\* What the consumer is promised: the credential it has is accepted, unless
\* somebody else ended it or the provider was never told that it had.
InUseIsGood == inUse = None \/ inUse \in live \cup lapsed \cup unheard
=============================================================================
