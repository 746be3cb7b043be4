--------------------------- MODULE ServiceStates ---------------------------
(***************************************************************************)
(* The status graph of a service record (app/modules/services/             *)
(* state_machine.py) and the validator that every transition passes        *)
(* through.  Constant operators only: no variables, no recursion.          *)
(***************************************************************************)

WAITING     == "waiting"
IN_PROGRESS == "in_progress"
PAUSED      == "paused"
COMPLETED   == "completed"
CANCELLED   == "cancelled"

Statuses == {WAITING, IN_PROGRESS, PAUSED, COMPLETED, CANCELLED}

TERMINAL == {COMPLETED, CANCELLED}

\* The successors of each status.
ALLOWED ==
  [st \in Statuses |->
     CASE st = WAITING     -> {IN_PROGRESS, CANCELLED}
       [] st = IN_PROGRESS -> {PAUSED, COMPLETED, CANCELLED}
       [] st = PAUSED      -> {IN_PROGRESS, COMPLETED, CANCELLED}
       [] st = COMPLETED   -> {}
       [] st = CANCELLED   -> {}]

\* What the request schema lets a client ask for (TransitionIn.to_status).
Requestable == {IN_PROGRESS, PAUSED, COMPLETED, CANCELLED}

\* validate(from, to, reason) returns; otherwise it raises 409 or 422.
\* hasReason stands for "reason and reason.strip()".
Valid_AnyActiveHop(from, to, hasReason) ==
  from \notin TERMINAL /\ (to = CANCELLED => hasReason)

Valid(from, to, hasReason) ==
  /\ from \notin TERMINAL
  /\ to \in ALLOWED[from]
  /\ to = CANCELLED => hasReason
=============================================================================
