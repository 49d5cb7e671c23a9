---------------------------- MODULE MCQuotaLedger ----------------------------
(* QuotaLedger for TLC: request ids are interchangeable. *)
EXTENDS QuotaLedger, TLC

\* A daily limit without a monthly one, and the other way round.
MCPolicies == { [day |-> 4, month |-> 0], [day |-> 0, month |-> 5] }

Symmetry == Permutations(Requests)
==============================================================================
