------------------------------ MODULE Sealing ------------------------------
(***************************************************************************)
(* What a witness of a write-only secret promises its reader (README,      *)
(* headers_applied_version): the hub seals a version and never shows it    *)
(* again, so what the provider says is sealed there is only ever a version *)
(* the hub took, moves to a new one in the instant its acceptance is       *)
(* heard, and can be relied upon until something it did not hear of        *)
(* happens to the secret.                                                  *)
(***************************************************************************)
CONSTANTS Versions, Foreign, None

VARIABLES
  sealed,    \* what the hub holds: a version, somebody else's, or None
  witness,   \* the version the provider says is sealed, or None: no claim
  trusted,   \* there is a claim, and nothing was missed since it was made
  accepted   \* the versions the hub ever took

vars == <<sealed, witness, trusted, accepted>>

Init == sealed = None /\ witness = None /\ trusted = FALSE /\ accepted = {}

\* The hub takes v and the provider hears of it.
Seal(v) ==
  /\ sealed' = v /\ witness' = v /\ trusted' = TRUE
  /\ accepted' = accepted \cup {v}

\* What happens unheard leaves the claim, which then holds by chance only.
Missed == witness' = witness /\ trusted' = (trusted /\ sealed' = sealed)

\* The hub takes v, and the answer is lost.
SealUnheard(v) ==
  /\ sealed' = v /\ accepted' = accepted \cup {v}
  /\ Missed

\* The secret is wiped, or replaced by somebody else.
Meddle ==
  /\ sealed' \in {None, Foreign}
  /\ Missed
  /\ UNCHANGED accepted

\* The claim is given up: the secret may be gone, with or without its app.
Abandon ==
  /\ witness' = None /\ trusted' = FALSE
  /\ sealed' \in {sealed, None}
  /\ UNCHANGED accepted

\* The provider is killed and remembers an older claim, or that it had none.
Relapse(v) ==
  /\ witness' = v /\ trusted' = FALSE
  /\ UNCHANGED <<sealed, accepted>>

Next ==
  \/ \E v \in Versions : Seal(v) \/ SealUnheard(v)
  \/ \E v \in accepted \cup {None} : Relapse(v)
  \/ Meddle \/ Abandon

Spec == Init /\ [][Next]_vars

\* No claim is of a version the hub never took, however often it relapses, and
\* one with nothing missed since is true.
WitnessHonest ==
  /\ witness \in accepted \cup {None}
  /\ trusted => witness # None /\ sealed = witness
=============================================================================
