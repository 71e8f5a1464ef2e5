------------------------------ MODULE Identity ------------------------------
(***************************************************************************)
(* What the vDC promises the DSS about its identity, without a word about  *)
(* files: once the dSUIDs of the vDC and of its library are stored, every  *)
(* incarnation of the daemon runs under them, and none replaces them.      *)
(* Only the user, while no daemon runs, can take them away.                *)
(***************************************************************************)
CONSTANTS
  Kinds,   \* the identities a daemon needs
  Dsuids,  \* the identities there are
  None     \* no identity

VARIABLES
  stored,   \* what the next incarnation will be
  running   \* what the present one is; None for every kind if there is none

idVars == <<stored, running>>

Identities == [Kinds -> Dsuids \cup {None}]
Nobody == [k \in Kinds |-> None]

IdInit == stored \in Identities /\ running = Nobody

Completes(new, old) == \A k \in Kinds : old[k] # None => new[k] = old[k]

\* An incarnation starts: it keeps what is stored and invents the rest, which
\* gets stored with it or, when storing fails, does not.
Incarnate ==
  /\ running = Nobody
  /\ running' \in [Kinds -> Dsuids]
  /\ Completes(running', stored)
  /\ stored' \in {stored, running'}

\* What could not be stored at the start is stored later.
StoreLater ==
  /\ running # Nobody
  /\ stored' = running
  /\ UNCHANGED running

Vanish == running' = Nobody /\ UNCHANGED stored

Forget == running = Nobody /\ stored' \in Identities /\ UNCHANGED running

IdSpec == IdInit /\ [][Incarnate \/ StoreLater \/ Vanish \/ Forget]_idVars

=============================================================================
