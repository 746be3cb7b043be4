----------------------------- MODULE MCBilling -----------------------------
(***************************************************************************)
(* Small instances of Billing for TLC.                                     *)
(***************************************************************************)
EXTENDS Billing, TLC

CONSTANTS short, long

\* A short plan and a long one.
Durations == [plan \in Plans |-> IF plan = long THEN 3 ELSE 1]

\* Nothing tells two handler slots, payments or references apart.
Symmetric == Permutations(Handlers) \cup Permutations(Payments)
               \cup Permutations(Refs)
=============================================================================
