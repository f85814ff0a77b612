--------------------------- MODULE ArtifactCatalog ---------------------------
(***************************************************************************)
(* What Tower 2's content core promises, with no temps, tasks or crashes:  *)
(* a catalog that binds each plaintext to one stored ciphertext, once and  *)
(* for ever, and references that can always be fetched.                    *)
(***************************************************************************)
CONSTANTS Inners, Keys, None

VARIABLES
  catalog,   \* inner hash -> the outer hash it is bound to, or None
  served,    \* outer hashes GET /blobs answers
  answered   \* references given to publishers

catalogVars == <<catalog, served, answered>>

Init ==
  /\ catalog = [i \in Inners |-> None]
  /\ served = {}
  /\ answered = {}

Store(o) ==
  /\ served' = served \cup {o}
  /\ UNCHANGED <<catalog, answered>>

\* Mutant of Offer: the row of an artifact that is bound is replaced.
MutOfferReplaces(i, k) ==
  /\ <<i, k>> \in served
  /\ catalog' = [catalog EXCEPT ![i] = <<i, k>>]
  /\ answered' = answered \cup {[inner |-> i, outer |-> <<i, k>>]}
  /\ UNCHANGED served

\* A stored ciphertext of i is offered: the first one offered is bound.  The
\* publisher is given the ciphertext it stored, also when another was bound.
Offer(i, k) ==
  /\ <<i, k>> \in served
  /\ catalog' = [catalog EXCEPT ![i] = IF @ = None THEN <<i, k>> ELSE @]
  /\ answered' = answered \cup {[inner |-> i, outer |-> <<i, k>>]}
  /\ UNCHANGED served

\* A plaintext that is bound is answered with its binding.
Reuse(i) ==
  /\ catalog[i] \in served
  /\ answered' = answered \cup {[inner |-> i, outer |-> catalog[i]]}
  /\ UNCHANGED <<catalog, served>>

Next ==
  \/ \E o \in Inners \X Keys : Store(o)
  \/ \E i \in Inners, k \in Keys : Offer(i, k)
  \/ \E i \in Inners : Reuse(i)

Spec == Init /\ [][Next]_catalogVars
=============================================================================
