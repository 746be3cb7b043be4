-------------------------- MODULE ServiceLifecycle --------------------------
(***************************************************************************)
(* What the services module promises about one service record, as its      *)
(* docstrings say it: the status moves along ALLOWED only, a terminal      *)
(* status is left by nothing, and every move appends its row to the        *)
(* timeline at the same instant.                                           *)
(***************************************************************************)
EXTENDS ServiceStates, Sequences

CONSTANT Services

VARIABLES status, log

Init ==
  /\ status = [s \in Services |-> WAITING]
  /\ log = [s \in Services |-> <<WAITING>>]

Move(s) ==
  \E to \in ALLOWED[status[s]] :
    /\ status' = [status EXCEPT ![s] = to]
    /\ log' = [log EXCEPT ![s] = Append(@, to)]

Next == \E s \in Services : Move(s)

Spec == Init /\ [][Next]_<<status, log>>
=============================================================================
