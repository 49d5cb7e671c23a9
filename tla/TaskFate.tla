------------------------------ MODULE TaskFate ------------------------------
(***************************************************************************)
(* What the management host promises of a task it has accepted: its side   *)
(* effects begin at most once, never after the task was withdrawn, and the *)
(* host's death breaks off what runs and withdraws what has not begun; it  *)
(* never makes the host begin anything (management/mod.rs, journal.rs).    *)
(***************************************************************************)
CONSTANT Tasks

VARIABLE fate   \* task -> what has become of its side effects

Init == fate = [t \in Tasks |-> "unknown"]

Becomes(t, from, to) == fate[t] = from /\ fate' = [fate EXCEPT ![t] = to]

Accept(t) == Becomes(t, "unknown", "accepted")
Start(t) == Becomes(t, "accepted", "running")
Finish(t) == Becomes(t, "running", "done")
Withdraw(t) == Becomes(t, "accepted", "void")

Die == fate' = [t \in Tasks |-> CASE fate[t] = "accepted" -> "void"
                                  [] fate[t] = "running" -> "broken"
                                  [] OTHER -> fate[t]]

Next == Die \/ \E t \in Tasks : Accept(t) \/ Start(t) \/ Finish(t) \/ Withdraw(t)

Spec == Init /\ [][Next]_fate

=============================================================================
