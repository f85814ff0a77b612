----------------------------- MODULE RigUpdates -----------------------------
(***************************************************************************)
(* What updating a rig promises, with no plans, jobs, banks or operators:  *)
(* the running images change by installing components of offered           *)
(* releases, by settling them, or by going back to the settled ones.       *)
(***************************************************************************)
CONSTANTS
  Paths, Images, Releases,
  Image(_, _),      \* the image of a component in a release
  Irreversible      \* components without a bank to go back to

VARIABLES
  running,     \* the image each component runs
  settled,     \* the image it was last committed to
  offered      \* releases a channel has pointed at

updateVars == <<running, settled, offered>>

Init ==
  /\ running \in [Paths -> Images]
  /\ settled = running
  /\ offered \in {{r} : r \in Releases}

Offer(r) ==
  /\ offered' = offered \cup {r}
  /\ UNCHANGED <<running, settled>>

\* from names the components installed and the release each one is of.
Install(from) ==
  /\ running' = [p \in Paths |-> IF p \in DOMAIN from THEN Image(from[p], p) ELSE running[p]]
  /\ settled' = [p \in Paths |-> IF p \in DOMAIN from \cap Irreversible THEN Image(from[p], p)
                                 ELSE settled[p]]
  /\ UNCHANGED offered

Settle(S) ==
  /\ settled' = [p \in Paths |-> IF p \in S THEN running[p] ELSE settled[p]]
  /\ UNCHANGED <<running, offered>>

GoBack(S) ==
  /\ running' = [p \in Paths |-> IF p \in S THEN settled[p] ELSE running[p]]
  /\ UNCHANGED <<settled, offered>>

Next ==
  \/ \E r \in Releases : Offer(r)
  \/ \E S \in SUBSET Paths :
       (\E from \in [S -> offered] : Install(from)) \/ Settle(S) \/ GoBack(S)

Spec == Init /\ [][Next]_updateVars
=============================================================================
