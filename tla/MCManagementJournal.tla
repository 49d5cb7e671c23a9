------------------------ MODULE MCManagementJournal ------------------------
EXTENDS ManagementJournal

(* A request that is repeated with its key, a validation, another request *)
MCRequests == {[key |-> "k", res |-> "r", validate |-> FALSE],
               [key |-> "none", res |-> "r", validate |-> TRUE]}
=============================================================================
