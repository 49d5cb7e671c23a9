----------------------------- MODULE MCAdmission -----------------------------
(***************************************************************************)
(* Admission with a history variable: bypassed[k] holds the keys that were *)
(* admitted from the queue while k stood in the rotation, could be         *)
(* admitted, and was not.                                                  *)
(***************************************************************************)
EXTENDS Admission, TLC

VARIABLE bypassed

Eligible(k) == fair /\ Available(k) /\ Contains(turns, k)

Admitted == { r \in Requests : r \in active' /\ r \notin active }

InitH == Init /\ bypassed = [k \in Keys |-> {}]

NextH ==
    /\ Next
    /\ bypassed' = [k \in Keys |->
         IF Eligible(k) /\ Eligible(k)' /\ \A r \in Admitted : key'[r] # k
         THEN bypassed[k] \cup { key'[r] : r \in Admitted }
         ELSE {}]

SpecH == InitH /\ [][NextH]_<<vars, bypassed>>

\* Fair mode is a rotation: while a key waits and could be admitted, no other
\* key is admitted twice before it (remove_waiter moves an admitted key to the
\* back of turns, and the fast path of acquire yields to the queue).
BoundedBypass ==
    [][ \A r \in Admitted, k \in Keys :
          Eligible(k) /\ k # key'[r] => key'[r] \notin bypassed[k] ]_<<vars, bypassed>>

\* Nobody is overtaken unfairly, around the queue (NoBarging) or inside it
\* (BoundedBypass): the fast path of acquire and the rotation of remove_waiter.
FairTurns == NoBarging /\ BoundedBypass

Symmetry == Permutations(Requests) \cup Permutations(Keys)
==============================================================================
